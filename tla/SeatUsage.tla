------------------------------ MODULE SeatUsage ------------------------------
(***************************************************************************)
(* The one definition of "seats in use" (common/seats/seat-usage.ts).      *)
(*                                                                         *)
(* A registration of n attendees is n seat units, the pairs <<r, 1>> to    *)
(* <<r, n>>: the SQL sum of attendeeCount over a set of rows is then the   *)
(* cardinality of a set of units.  The operators take the registration     *)
(* rows as an argument, so that every module that counts seats (checkout,  *)
(* the walk-in desk, the capacity guard) counts them the same way.         *)
(***************************************************************************)
EXTENDS Integers, FiniteSets

CONSTANTS MaxRegs,      \* bound: how many registrations are ever created
          MaxPerOrder,  \* TicketTier.maxPerOrder
          Tiers,        \* the ticket tiers of the event
          Issued        \* valid or used tickets of each tier (order flow)

ASSUME SeatUsageAssumption ==
    /\ MaxRegs \in Nat
    /\ MaxPerOrder \in Nat \ {0}
    /\ Issued \in [Tiers -> Nat]

RegIds == 1 .. MaxRegs    \* identifiers grow with createdAt

\* "absent" is a row that has not been inserted yet.
RegistrationStatus ==
    {"absent", "pending_payment", "proof_submitted", "pending_approval",
     "verified", "rejected", "cancelled"}

ACTIVE_REGISTRATION_STATUSES ==
    {"pending_payment", "proof_submitted", "pending_approval", "verified"}

AWAITING_REVIEW_STATUSES == {"proof_submitted", "pending_approval"}

-----------------------------------------------------------------------------
SeatUnits(rows, ids, statuses, t) ==
    {u \in ids \X (1 .. MaxPerOrder) :
        /\ rows[u[1]].status \in statuses
        /\ rows[u[1]].tier = t
        /\ u[2] <= rows[u[1]].seats}

Seats(rows, statuses, t) == Cardinality(SeatUnits(rows, RegIds, statuses, t))

\* Mutant: seats count once they are paid for.
OccupiedWithoutHolds(rows, t) ==
    Seats(rows, ACTIVE_REGISTRATION_STATUSES \ {"pending_payment"}, t) + Issued[t]

\* getTierUsage, createImpl, the walk-in check and the capacity guard.
Occupied(rows, t) == Seats(rows, ACTIVE_REGISTRATION_STATUSES, t) + Issued[t]

\* The admin's three counts and their sum.
Confirmed(rows, t) == Seats(rows, {"verified"}, t) + Issued[t]
AwaitingReview(rows, t) == Seats(rows, AWAITING_REVIEW_STATUSES, t)
Held(rows, t) == Seats(rows, {"pending_payment"}, t)
ReservedSeats(rows, t) ==
    Confirmed(rows, t) + AwaitingReview(rows, t) + Held(rows, t)

=============================================================================
