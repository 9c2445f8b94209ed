--------------------------- MODULE MCRegistrations ---------------------------
(* Registrations on small instances. *)
EXTENDS Registrations, TLC

CONSTANTS paid, free, u1, u2, e1, h1, h2

\* One paid tier of two seats, both of which one order may take.
OnePaid == {paid}
NoFree == {}
TwoSeats == [t \in Tiers |-> 2]
ThreeSeats == [t \in Tiers |-> 3]
OneSeat == [t \in Tiers |-> 1]
NoneIssued == [t \in Tiers |-> 0]
OneIssued == [t \in Tiers |-> 1]

\* A paid and a free tier.
PaidAndFree == {paid, free}
OneFree == {free}

OneMember == {u1}
TwoMembers == {u1, u2}
NoEmail == {}
OneEmail == {e1}
OneHandler == {h1}
TwoHandlers == {h1, h2}

Symmetry == Permutations(TwoHandlers)

=============================================================================
