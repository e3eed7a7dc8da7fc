-------------------------- MODULE MCBenchCampaign ---------------------------
(* Instance of BenchCampaign for TLC: two servers, a wired and an unwired  *)
(* profile, and ladders of two rungs.                                      *)
EXTENDS BenchCampaign, TLC
CONSTANTS a, b, aws, unwired

MCPhase1 == <<aws>>
MCOne == <<1>>
MCTwo == <<2>>
MCOneTwo == <<1, 2>>
MCSymmetry == Permutations({a, b})
=============================================================================
