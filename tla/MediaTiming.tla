------------------------------ MODULE MediaTiming ------------------------------
(***************************************************************************)
(* How long the advertisement is and what is shown when: the decisions of  *)
(* the STORYBOARD, CREATIVE_PLAN, VOICEOVER and VIDEO steps about words,   *)
(* shots and seconds.                                                      *)
(*                                                                         *)
(* create_storyboard fits the narration to a number of words, the plan     *)
(* provider accepts or replaces a plan that a language model wrote, the    *)
(* voice pipeline corrects the tempo of what was spoken, and the video     *)
(* pipeline stretches the plan to the voice and lays shots, texts and      *)
(* sounds on one clock.  Each step trusts the bounds of the one before it. *)
(*                                                                         *)
(* A text is a number of words.  Times are milliseconds; on the video's    *)
(* clock, fractions of a millisecond with a common denominator ("unit").   *)
(***************************************************************************)
EXTENDS Integers, Sequences

CONSTANTS
    None,
    Briefs,         \* briefs: the words of product, business, message, cta, description, tone
    Answers,        \* what the language model may answer: plans, valid or not
    Deviations,     \* speech against the calibrated pace, in per cent of its length
    Styles,         \* video styles considered
    Renderers       \* VIDEO_RENDERER values considered

ASSUME MediaTimingAssumption ==
    /\ Briefs \subseteq [product : Nat, business : Nat, message : Nat, cta : Nat, description : Nat, tone : Nat]
    /\ \A answer \in Answers : answer.shots \in
          Seq([scene : 1..3, length : Nat, text : BOOLEAN, transition : STRING, cues : SUBSET STRING])
    /\ Deviations \subseteq (-99)..99
    /\ Styles \subseteq {"VOICEOVER_AD", "CINEMATIC_TEXT_AD"}
    /\ Renderers \subseteq {"ffmpeg", "hyperframes"}
    /\ None \notin Int \cup {"TEMPO", "TIMING", "TRANSITION", "INDEX"}

\* CampaignConstraints, in milliseconds.
MinDuration == 13000
MaxDuration == 20000
TargetDuration == 15000

Scene == 1..3

\* The running total: elapsed[n] is the sum of the first n.
Elapsed(lengths) ==
    LET sum[n \in 0..Len(lengths)] == IF n = 0 THEN 0 ELSE sum[n - 1] + lengths[n]
    IN sum

Total(lengths) == Elapsed(lengths)[Len(lengths)]

-----------------------------------------------------------------------------
(* Narration: narration_timing.py and create_storyboard.                   *)

\* BREAK_SECONDS_TOTAL, and WORDS_PER_SECOND times ten.
Breaks == 700
WordsPerTenSeconds == 24

WordsIn(milliseconds) == (milliseconds - Breaks) * WordsPerTenSeconds

\* target_word_range: ceil and floor of 14 s and 16 s.
MinWords == (WordsIn(14000) + 9999) \div 10000
MaxWords == WordsIn(16000) \div 10000

\* shrink_trigger_word_count: two seconds below the hard maximum.
ShrinkTrigger == WordsIn(MaxDuration - 2000) \div 10000

\* estimate_seconds.
Estimate(count) == (count * 10000) \div WordsPerTenSeconds + Breaks

\* _scene_narration and _extension_candidates: the words of each part.
Words(brief, scene, part) ==
    CASE part = "description" -> brief.description
      [] part = "tone" -> brief.tone + 1
      [] part = "required" /\ scene = 1 -> brief.product + brief.business + 3
      [] part = "required" /\ scene = 2 -> brief.message
      [] part = "required" /\ scene = 3 -> brief.cta
      [] part = "optional" /\ scene = 2 -> 4
      [] part = "optional" /\ scene = 3 -> brief.product + brief.business + 3

\* word_count of a scene's text, and of all three.
SceneCount(brief, n, text) ==
    LET of(part) == IF part \in text THEN Words(brief, n, part) ELSE 0
    IN of("required") + of("optional") + of("description") + of("tone")

Count(brief, texts) ==
    SceneCount(brief, 1, texts[1]) + SceneCount(brief, 2, texts[2]) + SceneCount(brief, 3, texts[3])

FullText == [n \in Scene |-> IF n = 1 THEN {"required"} ELSE {"required", "optional"}]

\* A round of the loop that drops optional text.
Shortened(brief, draft, n) ==
    IF draft.total <= ShrinkTrigger
    THEN draft
    ELSE [draft EXCEPT !.texts[n] = @ \ {"optional"}, !.total = @ - Words(brief, n, "optional")]

\* _best_fitting_candidate.
Candidates(brief, draft) ==
    {part \in {"description", "tone"} \ UNION {draft.texts[n] : n \in Scene} :
        Words(brief, 1, part) <= MaxWords - draft.total}

\* The longest of them; of two equally long ones, the first in the list.
Best(brief, parts) ==
    IF "tone" \in parts /\ ("description" \notin parts \/ Words(brief, 1, "tone") > Words(brief, 1, "description"))
    THEN "tone" ELSE "description"

\* The total of the beginning is used for both scenes.
ExtendedMutant(brief, draft, n) ==
    LET parts == Candidates(brief, draft) IN
    IF draft.total >= MinWords \/ parts = {}
    THEN draft
    ELSE [draft EXCEPT !.texts[n] = @ \cup {Best(brief, parts)}]

\* A round of the loop that adds a sentence.
Extended(brief, draft, n) ==
    LET parts == Candidates(brief, draft)
        best == Best(brief, parts)
    IN IF draft.total >= MinWords \/ parts = {}
       THEN draft
       ELSE [draft EXCEPT !.texts[n] = @ \cup {best}, !.total = @ + Words(brief, 1, best)]

\* _apply_duration_budget.
Budgeted(brief) ==
    LET full == [texts |-> FullText, total |-> Count(brief, FullText)] IN
    CASE full.total > ShrinkTrigger -> Shortened(brief, Shortened(brief, full, 3), 2)
      [] full.total \in MinWords..ShrinkTrigger -> full
      [] OTHER -> Extended(brief, Extended(brief, full, 1), 3)

-----------------------------------------------------------------------------
(* The plan: creative_plan_provider.py and the contract CreativeVideoPlan. *)

Supported == {"CUT", "MASK_REVEAL", "CROSSFADE"}
MinShots == 5
MaxShots == 8

Lengths(shots) == [i \in DOMAIN shots |-> shots[i].length]

\* CreativeVideoPlan.sequence_and_duration; shots are numbered by their place.
WellFormed(plan) == Total(Lengths(plan.shots)) \in (plan.total - 10)..(plan.total + 10)

\* The transitions are left to the renderer.
AcceptedMutant(plan) ==
    WellFormed(plan) /\ Len(plan.shots) \in MinShots..MaxShots

\* BedrockCreativePlanProvider.generate.
Accepted(plan) ==
    /\ WellFormed(plan)
    /\ \A i \in DOMAIN plan.shots : plan.shots[i].transition \in Supported
    /\ Len(plan.shots) \in MinShots..MaxShots

Shot(scene, length, text, transition, cues) ==
    [scene |-> scene, length |-> length, text |-> text, transition |-> transition, cues |-> cues]

\* DeterministicCreativePlanProvider: two shots per scene, a third of the target each.
Deterministic ==
    [total |-> TargetDuration,
     shots |-> <<Shot(1, 2500, TRUE, "CUT", {}),
                 Shot(1, 2500, FALSE, "CUT", {}),
                 Shot(2, 2250, FALSE, "MASK_REVEAL", {"TRANSITION_HIT"}),
                 Shot(2, 2750, TRUE, "CUT", {}),
                 Shot(3, 2000, FALSE, "MASK_REVEAL", {"TRANSITION_HIT"}),
                 Shot(3, 3000, TRUE, "CUT", {"BRAND_HIT"})>>]

\* FallbackCreativePlanProvider: any exception, any refusal.
Planned(answer) == IF answer # None /\ Accepted(answer) THEN answer ELSE Deterministic

\* creative_plan_duration_within_bounds: what every reader of the VERSION item validates.
Readable(plan) == plan = None \/ plan.total \in MinDuration..MaxDuration

-----------------------------------------------------------------------------
(* The voice: tempo_normalizer.py.                                         *)

Margin == 100

\* The correction aims at the bound itself, and the longer side's at the wrong one.
TempoTargetMutant(measured) ==
    IF measured > MaxDuration THEN MinDuration + Margin ELSE MaxDuration - Margin

\* ensure_duration_in_range: target.
TempoTarget(measured) ==
    IF measured > MaxDuration THEN MaxDuration - Margin ELSE MinDuration + Margin

\* MIN_TEMPO_FACTOR <= measured / target <= MAX_TEMPO_FACTOR.
Correctable(measured) ==
    measured * 100 \in (92 * TempoTarget(measured))..(108 * TempoTarget(measured))

\* What was measured before the correction is recorded.
CorrectedMutant(measured) ==
    IF measured \in MinDuration..MaxDuration \/ Correctable(measured) THEN measured ELSE None

\* ensure_duration_in_range: the duration that is stored, or None.
Corrected(measured) ==
    CASE measured \in MinDuration..MaxDuration -> measured
      [] measured \notin MinDuration..MaxDuration /\ Correctable(measured) -> TempoTarget(measured)
      [] OTHER -> None

\* audio_plan_for(video_style).voiceover_required.
Spoken(style) == style = "VOICEOVER_AD"

-----------------------------------------------------------------------------
(* The video: creative_plan_adapter.py, audio_cue_library.py and           *)
(* hyperframes_composition.py.                                             *)

\* scale_resolved_shots: the clock ticks so that the lengths of shots, and thirds
\* of the video, are whole numbers.
Unit(shots) == 3 * Total(Lengths(shots))
Scaled(shots, duration) == [i \in DOMAIN shots |-> [shots[i] EXCEPT !.length = @ * 3 * duration]]

\* Three loops over the shots place the shots, the texts and the sounds, each
\* with a start of its own: start += shot.duration_seconds.
ShotClock(shots) ==
    LET lengths == Lengths(shots)
        start[n \in 0..Len(lengths)] == IF n = 0 THEN 0 ELSE start[n - 1] + lengths[n]
    IN start

Start(shots, i) == ShotClock(shots)[i - 1]

\* _shots_from_resolved.
Placed(shots) ==
    [i \in DOMAIN shots |->
        [scene |-> shots[i].scene, start |-> Start(shots, i), length |-> shots[i].length]]

WithText(shots) == {i \in DOMAIN shots : shots[i].text}

\* The clock advances only past the shots that have a text.
TextClockMutant(shots) ==
    LET lengths == [i \in DOMAIN shots |-> IF shots[i].text THEN shots[i].length ELSE 0]
        start[n \in 0..Len(lengths)] == IF n = 0 THEN 0 ELSE start[n - 1] + lengths[n]
    IN start

TextClock(shots) ==
    LET lengths == Lengths(shots)
        start[n \in 0..Len(lengths)] == IF n = 0 THEN 0 ELSE start[n - 1] + lengths[n]
    IN start

\* build_text_cues.
TextCues(shots) ==
    {[start |-> TextClock(shots)[i - 1], length |-> shots[i].length] : i \in WithText(shots)}

SoundClock(shots) ==
    LET lengths == Lengths(shots)
        start[n \in 0..Len(lengths)] == IF n = 0 THEN 0 ELSE start[n - 1] + lengths[n]
    IN start

\* build_sfx_cues, with every asset in the library.
SfxCues(shots) ==
    UNION {{[cue |-> cue, start |-> SoundClock(shots)[i - 1]] : cue \in shots[i].cues} : i \in DOMAIN shots}

\* _legacy_shot_plan: the same splits, of scenes that are thirds of the video.
LegacyShots ==
    <<Shot(1, 10, FALSE, "CUT", {}), Shot(1, 10, FALSE, "CUT", {}),
      Shot(2, 9, FALSE, "MASK_REVEAL", {}), Shot(2, 11, FALSE, "CUT", {}),
      Shot(3, 8, FALSE, "MASK_REVEAL", {}), Shot(3, 12, FALSE, "CUT", {})>>

\* resolved_shots, or _build_shot_plan's fallback.
ShotPlan(plan) == IF plan = None THEN LegacyShots ELSE plan.shots

\* _effective_text_cues indexes shots[0], shots[3] and shots[5] when there are no cues.
FallbackShots == {1, 4, 6}

EffectiveCues(shots) ==
    IF TextCues(shots) # {}
    THEN TextCues(shots)
    ELSE {[start |-> Start(shots, i), length |-> shots[i].length] : i \in FallbackShots}

\* audio_duration: the probed voice, the plan's total, or the target.
Clock(style, voice, plan) ==
    CASE Spoken(style) -> voice
      [] ~Spoken(style) /\ plan # None -> plan.total
      [] OTHER -> TargetDuration

\* build_render_args: the storyboard's scenes, five seconds each before the scaling.
Scenes(tick) == [n \in Scene |-> [scene |-> n, start |-> (n - 1) * tick, length |-> tick]]

\* The video of a plan stretched to a duration: the ffmpeg renderer shows the
\* scenes and no text, the other one the shots; the sounds are mixed for both.
Composition(by, playing, planned, duration) ==
    LET shots == Scaled(ShotPlan(planned), duration)
        rich == by = "hyperframes"
    IN [duration |-> duration,
        unit |-> Unit(ShotPlan(planned)),
        shots |-> IF rich THEN Placed(shots) ELSE Scenes(duration * Total(Lengths(ShotPlan(planned)))),
        texts |-> IF rich THEN EffectiveCues(shots) ELSE {},
        sounds |-> IF Spoken(playing) \/ planned = None THEN {} ELSE SfxCues(shots)]

-----------------------------------------------------------------------------
VARIABLES
    brief,
    style,        \* brief.video_style
    renderer,     \* the worker's VIDEO_RENDERER
    step,         \* the step that runs next
    narration,    \* the storyboard's texts and the total that the budget computed
    plan,         \* creative_video_plan, or None
    voice,        \* the duration of the stored voiceover, or None
    video,        \* the composition, or None
    error,        \* the code of the failure, or None
    deviation     \* history: how the speech differed from the calibrated pace

vars == <<brief, style, renderer, step, narration, plan, voice, video, error, deviation>>

Init ==
    /\ brief \in Briefs
    /\ style \in Styles
    /\ renderer \in Renderers
    /\ step = "STORYBOARD"
    /\ narration = None
    /\ plan = None
    /\ voice = None
    /\ video = None
    /\ error = None
    /\ deviation = 0

CreateStoryboard ==
    /\ step = "STORYBOARD"
    /\ narration' = Budgeted(brief)
    /\ step' = "CREATIVE_PLAN"
    /\ UNCHANGED <<brief, style, renderer, plan, voice, video, error, deviation>>

\* None is an answer that is no plan: a throttled call, prose, another schema.
CreatePlan ==
    /\ step = "CREATIVE_PLAN"
    /\ \E answer \in Answers \cup {None} : plan' = Planned(answer)
    /\ step' = "VOICEOVER"
    /\ UNCHANGED <<brief, style, renderer, narration, voice, video, error, deviation>>

\* A child version whose CREATIVE_PLAN step is REUSED is made without its
\* parent's plan; so is a campaign from before the step existed.
SkipPlan ==
    /\ step = "CREATIVE_PLAN"
    /\ step' = "VOICEOVER"
    /\ UNCHANGED <<brief, style, renderer, narration, plan, voice, video, error, deviation>>

Fail(code) == step' = "FAILED" /\ error' = code

\* PollyVoicePipeline.acquire, as far as durations go.
AcquireVoice ==
    /\ step = "VOICEOVER"
    /\ Spoken(style)
    /\ \E d \in Deviations :
          LET measured == (Estimate(Count(brief, narration.texts)) * (100 + d)) \div 100 IN
          /\ deviation' = d
          /\ voice' = Corrected(measured)
          /\ IF Corrected(measured) = None
             THEN Fail("TEMPO")
             ELSE step' = "VIDEO" /\ UNCHANGED error
    /\ UNCHANGED <<brief, style, renderer, narration, plan, video>>

SkipVoice ==
    /\ step = "VOICEOVER"
    /\ ~Spoken(style)
    /\ step' = "VIDEO"
    /\ UNCHANGED <<brief, style, renderer, narration, plan, voice, video, error, deviation>>

(* FfmpegVideoPipeline.acquire, in the order of its checks: with music the  *)
(* transitions are resolved first; with a voice the timing is, and holds.   *)

Unrenderable(shots) == \E i \in DOMAIN shots : shots[i].transition \notin Supported

\* A composition without texts of its own, and without the shots of the fallback.
Unplaceable(shots) ==
    /\ renderer = "hyperframes"
    /\ WithText(shots) = {}
    /\ ~(FallbackShots \subseteq DOMAIN shots)

\* _scaled_scene_durations.
Timely(duration) == duration \in MinDuration..MaxDuration

RefuseVideo ==
    /\ step = "VIDEO"
    /\ LET shots == ShotPlan(plan)
           duration == Clock(style, voice, plan)
       IN \/ Unrenderable(shots) /\ Fail("TRANSITION")
          \/ ~Unrenderable(shots) /\ ~Timely(duration) /\ Fail("TIMING")
          \/ ~Unrenderable(shots) /\ Timely(duration) /\ Unplaceable(shots) /\ Fail("INDEX")
    /\ UNCHANGED <<brief, style, renderer, narration, plan, voice, video, deviation>>

RenderVideo ==
    /\ step = "VIDEO"
    /\ LET shots == ShotPlan(plan)
           duration == Clock(style, voice, plan)
       IN /\ ~Unrenderable(shots)
          /\ Timely(duration)
          /\ ~Unplaceable(shots)
          /\ video' = Composition(renderer, style, plan, duration)
    /\ step' = "DONE"
    /\ UNCHANGED <<brief, style, renderer, narration, plan, voice, error, deviation>>

Next ==
    \/ CreateStoryboard
    \/ CreatePlan \/ SkipPlan
    \/ AcquireVoice \/ SkipVoice
    \/ RefuseVideo \/ RenderVideo

Spec == Init /\ [][Next]_vars

-----------------------------------------------------------------------------
(* Properties.                                                             *)

\* A stored voice is as long as the campaign's constraints allow, whatever
\* was measured before the correction (ensure_duration_in_range).
TypeOK ==
    /\ brief \in Briefs /\ style \in Styles /\ renderer \in Renderers
    /\ step \in {"STORYBOARD", "CREATIVE_PLAN", "VOICEOVER", "VIDEO", "DONE", "FAILED"}
    /\ plan \in Answers \cup {None, Deterministic}
    /\ voice \in {None} \cup MinDuration..MaxDuration
    /\ error \in {None, "TEMPO", "TIMING", "TRANSITION", "INDEX"}
    /\ deviation \in Deviations \cup {0}

\* The budget keeps every required sentence, drops filler only of a narration
\* that is too long and scene 3's before scene 2's, and where it adds sentences it
\* adds each once, drops none and stays within the band: the running total is
\* the narration's number of words all along (_apply_duration_budget).
NarrationFits ==
    narration # None =>
        LET added == [n \in Scene |-> narration.texts[n] \cap {"description", "tone"}]
            dropped == {n \in Scene : ~(FullText[n] \subseteq narration.texts[n])}
        IN /\ narration.total = Count(brief, narration.texts)
           /\ \A n \in Scene : "required" \in narration.texts[n]
           /\ dropped # {} => 3 \in dropped /\ Estimate(Count(brief, FullText)) > MaxDuration - 2000
           /\ \A m, n \in Scene : m # n => added[m] \cap added[n] = {}
           /\ (\E n \in Scene : added[n] # {}) => dropped = {} /\ Estimate(narration.total) <= 16000

\* Speech up to 14 % shorter or 20 % longer than the calibrated pace fails a
\* campaign only if the budget could not bring its narration between 32 and 41
\* words: the budget's band, the tempo bounds and the margin fit together
\* (narration_timing.py, tempo_normalizer.py).
NarrationIsSpeakable ==
    error = "TEMPO" /\ deviation \in (-14)..20 => Count(brief, narration.texts) \notin 32..41

\* The render refuses nothing for what an earlier, cheaper step should have
\* refused: an accepted plan has only transitions that the renderer has, and an
\* accepted voice is as long as the timing check of the video wants it.
RefusedEarly ==
    /\ error # "TRANSITION"
    /\ error = "TIMING" => ~Spoken(style)

\* The shots fill the video without gap or overlap, and texts and sounds, which
\* are placed by other loops over the same shots, start with their shots.
VideoIsOnOneClock ==
    video # None =>
        LET shots == video.shots
            own == WithText(ShotPlan(plan))
            shown == IF own = {} THEN FallbackShots ELSE own
        IN /\ shots[1].start = 0
           /\ \A i \in 1..(Len(shots) - 1) : shots[i + 1].start = shots[i].start + shots[i].length
           /\ shots[Len(shots)].start + shots[Len(shots)].length = video.duration * video.unit
           /\ renderer = "hyperframes" =>
                 /\ video.texts = {[start |-> shots[i].start, length |-> shots[i].length] : i \in shown}
                 /\ \A sound \in video.sounds : \E i \in DOMAIN shots :
                       shots[i].start = sound.start /\ sound.cue \in plan.shots[i].cues

\* "CreativeVideoPlan generation is deliberately never a single point of
\* failure -- the deterministic plan is valid and safe"
\* (creative_plan_provider.py): the plan that is saved can be read again.
PlanIsReadable == Readable(plan)

=============================================================================
