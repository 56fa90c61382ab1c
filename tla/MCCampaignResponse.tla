------------------------- MODULE MCCampaignResponse -------------------------
(* Instances of CampaignResponse for TLC. *)
EXTENDS CampaignResponse, TLC

CONSTANTS c1, c2, r1, a1, k1

TwoCalls     == {c1, c2}
OneRow       == {r1}
OneAddress   == {a1}
OneCompany   == {k1}

RowAddress   == [r \in OneRow |-> a1]
RowCompany   == [r \in OneRow |-> k1]
RowOrder     == [r \in OneRow |-> 1]

MailSignals  == {"unsubscribe", "reply", "hard", "soft"}

Symmetric    == Permutations(TwoCalls)
=============================================================================
