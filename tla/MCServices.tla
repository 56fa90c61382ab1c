----------------------------- MODULE MCServices -----------------------------
(* An instance of Services for TLC. *)
EXTENDS Services, TLC

CONSTANTS w1, w2, u1, u2, r1, r2, r3, r4, p1, o1, o2, sent1, reply1

TwoWorkers   == {w1, w2}
TwoUrls      == {u1, u2}
ThreeReqs    == {r1, r2, r3}
FourReqs     == {r1, r2, r3, r4}
TwoReqs      == {r1, r2}
TwoOwners    == {o1, o2}
CompanyOf    == r1 :> o1 @@ r2 :> o1 @@ r3 :> o2
OnePod       == {p1}
PodOfStream  == r1 :> p1 @@ r2 :> p1
TwoMails     == {sent1, reply1}
MailKinds    == sent1 :> "sent" @@ reply1 :> "reply"
Restarts     == {"fetch", "crash", "rebuild"}
Monday5      == {5, 8}   \* Friday and Monday; day 0 is a Sunday
=============================================================================
