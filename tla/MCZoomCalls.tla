----------------------------- MODULE MCZoomCalls ----------------------------
(* Instances of ZoomCalls for TLC. *)
EXTENDS ZoomCalls, TLC

CONSTANTS p1, p2, h1, c1, c2, ann, ben, dan

OnePod    == {p1}
TwoPods   == {p1, p2}
OneHandler == {h1}
OneCall   == {c1}
TwoCalls  == {c1, c2}
OneCustomer == {ann}
ThreeCustomers == {ann, ben, dan}
OnePart   == {1}
TwoParts  == {1, 2}

Mobile   == <<8, 1, 9, 0, 3, 7, 2, 4, 1, 9, 1, 7>>   \* 090-3724-1917
Other    == <<8, 1, 8, 0, 3, 7, 2, 4, 1, 9, 1, 7>>   \* 080-3724-1917
Texas    == <<1, 9, 0, 3, 7, 2, 4, 1, 9, 1, 7>>      \* +1 903 724 1917
Landline == <<8, 1, 3, 1, 2, 3, 4, 5, 6, 7, 8>>      \* 03-1234-5678
Desk     == <<8, 1, 5, 0, 5, 4, 9, 7, 5, 1, 1, 1>>   \* 050-5497-5111
OurDesk  == {Desk}

\* c1 comes in, c2 goes out.
CallerOf    == [c \in TwoCalls |-> IF c = c1 THEN Mobile ELSE Desk]
CalleeOf    == [c \in TwoCalls |-> IF c = c1 THEN Desk ELSE Mobile]
DirectionOf == [c \in TwoCalls |-> IF c = c1 THEN "inbound" ELSE "outbound"]
CallerOf1   == [c \in OneCall |-> Mobile]
CalleeOf1   == [c \in OneCall |-> Desk]
Inbound     == [c \in OneCall |-> "inbound"]

\* The caller is ann. dan's number differs in one digit, and ben's, in Texas, ends in
\* the same ten. ben was in contact last.
ThreePhones == [k \in ThreeCustomers |-> CASE k = ann -> Mobile [] k = ben -> Texas [] k = dan -> Other]
BenLast     == [k \in ThreeCustomers |-> IF k = ben THEN 1 ELSE 0]
OnePhone    == [k \in OneCustomer |-> Mobile]
Never       == [k \in OneCustomer |-> 0]
CallerTokyo == [c \in OneCall |-> Landline]
TokyoPhone  == [k \in OneCustomer |-> Landline]
=============================================================================
