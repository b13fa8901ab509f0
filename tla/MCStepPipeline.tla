--------------------------- MODULE MCStepPipeline ---------------------------
EXTENDS StepPipeline, TLC
CONSTANTS w1, w2
Symmetric == Permutations(Worker)

MCCases == {
    [scope |-> "VIDEO", limit |-> 2, voice |-> TRUE],
    [scope |-> "VIDEO", limit |-> 1, voice |-> FALSE],
    [scope |-> "SELECTED_IMAGES", limit |-> 1, voice |-> TRUE],
    [scope |-> "SELECTED_IMAGES", limit |-> 2, voice |-> FALSE]}
=============================================================================
