---------------------------- MODULE MCSendBudget ----------------------------
(* Instances of SendBudget for TLC. *)
EXTENDS SendBudget, TLC

CONSTANTS w1, w2, c1, c2, m1, r1, r2, r3

TwoWorkers   == {w1, w2}
TwoCampaigns == {c1, c2}
OneMailbox   == {m1}
ThreeRows    == {r1, r2, r3}

\* Two campaigns share m1; c1 warms up from the afternoon of the first day.
TwoCaps      == [c \in TwoCampaigns |-> IF c = c1 THEN 3 ELSE 1]
Afternoon    == [c \in TwoCampaigns |-> IF c = c1 THEN 1 ELSE 0]
WarmOne      == {c1}
OnlyPool     == [c \in TwoCampaigns |-> {m1}]
\* Only c1 has a follow-up.
FollowUps    == [c \in TwoCampaigns |-> IF c = c1 THEN 2 ELSE 1]
RowsOfThree  == [r \in ThreeRows |-> IF r = r1 THEN c2 ELSE c1]

\* r1, the row of c2, is the one NoJob names: the two of c1 are alike.
LeadersAlike == Permutations(TwoWorkers) \cup Permutations({r2, r3})
=============================================================================
