----------------------------- MODULE MCOrganizers -----------------------------
(* Organizers on a small instance. *)
EXTENDS Organizers, TLC

CONSTANTS ana, ben, cas, club, crew, c1, c2

ThreeUsers == {ana, ben, cas}
TwoOrganizations == {club, crew}
TwoCallers == {c1, c2}

Symmetry == Permutations(Users) \cup Permutations(Organizations) \cup Permutations(Callers)
=============================================================================
