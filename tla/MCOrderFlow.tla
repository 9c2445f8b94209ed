----------------------------- MODULE MCOrderFlow -----------------------------
(* OrderFlow on small instances. *)
EXTENDS OrderFlow, TLC

CONSTANTS ga, h1, h2, ana, k1, k2

OneTier == {ga}
NoneIssued == [t \in Tiers |-> 0]
TwoSeats == [t \in Tiers |-> 2]
TwoHandlers == {h1, h2}
MinusOne == -1
OneUser == {ana}
TwoKeys == {k1, k2}

Symmetry == Permutations(Handlers) \cup Permutations(Keys)

=============================================================================
