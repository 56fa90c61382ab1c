------------------------- MODULE MCCustomerRecords --------------------------
(* Instances of CustomerRecords for TLC. *)
EXTENDS CustomerRecords, TLC

CONSTANTS p1, p2, k1, k2, ann, ben, kim, m1, b1, b2

TwoPods == {p1, p2}
TwoClerks == {k1, k2}
OneMail == {m1}
TwoCustomers == {ann, ben}
OneContact == {kim}

TwoBooks == {b1, b2}
BookEach == [c \in TwoCustomers |-> IF c = ann THEN b1 ELSE b2]

\* ann's contact kim and ben have the address the mail comes from, and so has
\* ann, but with a capital.
KimOfAnn == [t \in OneContact |-> ann]
FromBoth == [m \in OneMail |-> {ben, kim}]
OrAnn == [m \in OneMail |-> {ann, ben, kim}]

Sym == Permutations(TwoPods) \cup Permutations(TwoClerks)
=============================================================================
