------------------------------ MODULE MCEventDay ------------------------------
(* EventDay on a small instance. *)
EXTENDS EventDay, TLC

CONSTANTS ana, ben, door1, door2, old_ticket

TwoAttendees == {ana, ben}
OneTicket == {old_ticket}
\* One distance with a name and a code of its own, and one that has a single string
\* for both; the string is RACE, so that two of the three labels print alike.
TwoNames == {"Five", "RACE"}
TwoCodes == {"5K", "RACE"}
TheirCodes == [n \in Names |-> IF n = "Five" THEN "5K" ELSE "RACE"]
TwoDoors == {door1, door2}

Symmetry == Permutations(Attendees) \cup Permutations(Handlers)
=============================================================================
