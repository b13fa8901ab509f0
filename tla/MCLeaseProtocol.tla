--------------------------- MODULE MCLeaseProtocol ---------------------------
EXTENDS LeaseProtocol, TLC

Symmetric == Permutations(Worker) \cup Permutations(Client)
==============================================================================
