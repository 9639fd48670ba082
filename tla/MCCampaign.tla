----------------------------- MODULE MCCampaign -----------------------------
(***************************************************************************)
(* A campaign's records, and the lock of its runners: each by itself, so   *)
(* that their states add up instead of multiplying.                        *)
(***************************************************************************)
EXTENDS CampaignQueue, CampaignRunner

VARIABLE part

\* A first goal that waits for the second one; drafts are chains already.
MCGoalPack == {<<{2}, {}>>}

PartsInit == CampaignInit /\ RunnerInit /\ part \in {"records", "lock"}

PartsNext ==
  /\ UNCHANGED part
  /\ \/ part = "records" /\ CampaignNext /\ UNCHANGED runnerVars
     \/ part = "lock" /\ RunnerNext /\ UNCHANGED campaignVars

PartsSpec == PartsInit /\ [][PartsNext]_<<campaignVars, runnerVars, part>>
=============================================================================
