----------------------------- MODULE MCAddOnStock -----------------------------
(* AddOnStock on small instances. *)
EXTENDS AddOnStock

CONSTANTS ga, u1, e1, shirt, q1, q2, low, high

OneTier == {ga}
NoneIssued == [t \in Tiers |-> 0]
TwoSeats == [t \in Tiers |-> 2]
OneMember == {u1}
OneEmail == {e1}
OneVariant == {shirt}
TwoQuotes == {q1, q2}
OnePrice == {low}
TwoPrices == {low, high}
OneEach == [v \in Variants |-> 1]

=============================================================================
