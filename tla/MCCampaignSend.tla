--------------------------- MODULE MCCampaignSend ---------------------------
(* Instances of CampaignSend for TLC. *)
EXTENDS CampaignSend, TLC

CONSTANTS p1, p2, r1

Pods      == {p1, p2}
OnePod    == {p1}
OneRow    == {r1}

\* The mail path: at-most-once, late mails, completion.
MailOps     == {"start", "cancel", "lie", "stop", "suppress", "requeue"}
\* The campaign path: lifecycle and edit handlers against the worker. Without
\* "lie" and "requeue", the two ways a mail may leave twice, for DripPromise.
CampaignOps == {"start", "pause", "edit", "stop", "suppress"}
StuckOps    == {"start", "suppress"}
StatusOps   == {"start", "pause", "cancel"}

Symmetric == Permutations(Pods)
=============================================================================
