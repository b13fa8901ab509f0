------------------------- MODULE MCCampaignVersions --------------------------
EXTENDS CampaignVersions, TLC

Symmetric == Permutations(Worker) \cup Permutations(Client) \cup Permutations(Feedback)
==============================================================================
