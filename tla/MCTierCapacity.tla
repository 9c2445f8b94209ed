---------------------------- MODULE MCTierCapacity ----------------------------
(* TierCapacity on small instances. *)
EXTENDS TierCapacity, TLC

CONSTANTS ga, d1, d2, a1, a2, mail, ana

OneTier == {ga}
NoneIssued == [t \in Tiers |-> 0]
TwoSeats == [t \in Tiers |-> 2]
TwoDesks == {d1, d2}
TwoAdmins == {a1, a2}

\* Ana gives her email on one device and not on the other.
TwoVisitors == {[email |-> mail, name |-> ana], [email |-> NoEmail, name |-> ana]}

Symmetry == Permutations(Desks) \cup Permutations(Admins)

=============================================================================
