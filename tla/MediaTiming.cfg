CONSTANTS
    None = None
    Styles = {"VOICEOVER_AD", "CINEMATIC_TEXT_AD"}
    Renderers = {"ffmpeg", "hyperframes"}
    Briefs <- MCBriefs
    Answers <- MCAnswers
    Deviations <- MCDeviations
SPECIFICATION Spec
INVARIANTS
    TypeOK
    NarrationFits
    NarrationIsSpeakable
    RefusedEarly
    VideoIsOnOneClock
\* A campaign ends with a video or with a failure.
CHECK_DEADLOCK FALSE
