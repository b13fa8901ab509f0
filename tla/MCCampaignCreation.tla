------------------------- MODULE MCCampaignCreation --------------------------
EXTENDS CampaignCreation, TLC

Symmetric == Permutations(Client) \cup Permutations(Brief)
==============================================================================
