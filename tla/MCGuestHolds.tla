----------------------------- MODULE MCGuestHolds -----------------------------
(* GuestHolds on a small instance. *)
EXTENDS GuestHolds, TLC

CONSTANTS phone, laptop

TwoBrowsers == {phone, laptop}

Symmetry == Permutations(Browsers)
=============================================================================
