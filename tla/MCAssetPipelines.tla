-------------------------- MODULE MCAssetPipelines --------------------------
EXTENDS AssetPipelines, TLC
CONSTANTS w1, w2, p1, p2, p3
Symmetric == Permutations(Worker) \cup Permutations(Photo)
=============================================================================
