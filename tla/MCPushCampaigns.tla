-------------------------- MODULE MCPushCampaigns --------------------------
EXTENDS PushCampaigns, TLC

CONSTANTS c1, u1, w1, w2, r1, r2
=============================================================================
