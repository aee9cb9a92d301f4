----------------------------- MODULE MCCampaign -----------------------------
(* Small campaigns for TLC: one with an A/B test that holds a recipient    *)
(* back, one without, one that is only queued.                             *)
EXTENDS CampaignDispatch, TLC

CONSTANTS p1, r1, a1, h1, h2

Halves == <<50, 50>>
AllOrTwo == {{1, 2}}
Test(dynamic, sample) ==
  [ab |-> TRUE, metric |-> TRUE, variants |-> TRUE, dynamic |-> dynamic, sms |-> FALSE,
   sample |-> sample]
Plain(variants, dynamic, sms) ==
  [ab |-> FALSE, metric |-> FALSE, variants |-> variants, dynamic |-> dynamic, sms |-> sms,
   sample |-> 50]
Mixed == {Test(FALSE, 50), Plain(TRUE, TRUE, FALSE), Plain(FALSE, FALSE, TRUE)}
Tests == {Test(FALSE, 50), Test(TRUE, 100)}
Symmetry == Permutations({h1, h2})
=============================================================================
