---------------------------- MODULE MCMailIngest ----------------------------
(* Instances of MailIngest for TLC. *)
EXTENDS MailIngest, TLC

CONSTANTS p1, p2, sent1, reply1, bounce1

TwoPods    == {p1, p2}
TwoMails   == {sent1, reply1}

KindOf == [m \in {sent1, reply1, bounce1} |->
              CASE m = sent1 -> "sent" [] m = reply1 -> "reply" [] m = bounce1 -> "bounce"]
Kinds2 == [m \in TwoMails |-> KindOf[m]]

AllFaults     == {"fetch", "listing", "skip", "insert", "crash", "rebuild"}

Symmetric == Permutations(TwoPods)
=============================================================================
