---------------------------- MODULE MCEventPages -----------------------------
EXTENDS EventPages, TLC

Symmetric == Permutations(Worker) \cup Permutations(StepEvent) \cup Permutations(ApiEvent)
==============================================================================
