----------------------------- MODULE MCAutoDraft ----------------------------
(* Instances of AutoDraft for TLC. *)
EXTENDS AutoDraft, TLC

CONSTANTS w1, w2, b1, b2, b3, t1, t2, m1

TwoWorkers   == {w1, w2}
ThreeBooks   == {b1, b2, b3}
TwoTemplates == {t1, t2}

OneMailbox   == {m1}

\* Both templates match b2, whose creators may edit every book they match and
\* send from the mailbox.
MatchTwo     == [t \in TwoTemplates |-> IF t = t1 THEN ThreeBooks ELSE {b2}]
FirstSecond  == (t1 :> 1) @@ (t2 :> 2)
PoolOfOne    == [t \in TwoTemplates |-> OneMailbox]
\* b1 is empty, b2 gets too large while it is imported: together they fill the
\* list of t1, and b3 may be behind them.
SizeOfThree  == (b1 :> 0) @@ (b2 :> 2) @@ (b3 :> 1)
ReachOfThree == [b \in ThreeBooks |-> {1}]
=============================================================================
