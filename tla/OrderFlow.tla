------------------------------ MODULE OrderFlow ------------------------------
(***************************************************************************)
(* The order flow that came before registrations and still sells the same  *)
(* seats: reservations that expire (ReservationsService), orders with      *)
(* their tickets (OrdersService), and the inventory counter in Redis.      *)
(*                                                                         *)
(* Redis and the database are written one after the other, and every       *)
(* handler acts on a row it read earlier, so each read and each write is   *)
(* an action.  The only transaction with a lock is the order's: it checks  *)
(* ticket_tiers.sold_quantity, which checkout (createImpl) overwrites with *)
(* its own count of registrations and tickets.                             *)
(***************************************************************************)
EXTENDS SeatUsage

CONSTANTS Handlers,   \* processes that serve requests and cron calls
          MaxRes,     \* bound: how many reservations are ever inserted
          Users,
          Keys,       \* idempotency keys of reservation requests
          Capacity,   \* TicketTier.totalQuantity
          MaxPerUser, \* Event.maxPerUser
          LowestAvail \* bound: how far below zero dead handlers take the counter

ASSUME OrderFlowAssumption ==
    /\ MaxRes \in Nat /\ MaxPerUser \in Nat /\ LowestAvail \in Int
    /\ Capacity \in [Tiers -> Nat]
    /\ \A t \in Tiers : Issued[t] <= Capacity[t]
    /\ Tiers # {} /\ Users # {} /\ Keys # {} /\ IsFiniteSet(Handlers)

VARIABLES
    reg,        \* registrations
    sold,       \* ticket_tiers.sold_quantity
    avail,      \* Redis: ticket_tier:<id>:available
    res,        \* reservations
    order,      \* the order of each reservation (reservation_id is unique)
    req,        \* handlers under way
    uncounted,  \* history: orders unpaid when a checkout rewrote sold_quantity
    overwritten \* history: reservations whose final status was written over

vars == <<reg, sold, avail, res, order, req, uncounted, overwritten>>

ResIds == 1 .. MaxRes

MAX_ACTIVE_RESERVATIONS == 3

Row == [status : {"absent", "pending_payment", "cancelled"}, tier : Tiers,
        seats : 1 .. MaxPerOrder]

Reservation == [status : {"absent", "active", "released", "expired", "converted"},
                tier : Tiers, qty : 1 .. MaxPerOrder, user : Users, key : Keys,
                due : BOOLEAN]

Order == [status : {"none", "pending", "paid"}, tickets : Nat]

Idle == [op |-> "idle"]

ReserveRequest == [op : {"reserve", "taken", "give_back"}, tier : Tiers,
                   qty : 1 .. MaxPerOrder, user : Users, key : Keys]
RowRequest == [op : {"cancel", "order", "confirm"}, res : ResIds]
ReleaseRequest == [op : {"expire", "return"}, listed : SUBSET ResIds]

-----------------------------------------------------------------------------
(* Counting, by units as in SeatUsage *)

Units(ids, t) ==
    Cardinality({u \in ids \X (1 .. MaxPerOrder) :
                    res[u[1]].tier = t /\ u[2] <= res[u[1]].qty})

TicketUnits(t) ==
    UNION {{<<r, i>> : i \in 1 .. order[r].tickets} : r \in {q \in ResIds : res[q].tier = t}}

Orders == {r \in ResIds : order[r].status # "none"}

\* What createImpl counts: registrations and tickets.
InUse(t) == Occupied(reg, t) + Cardinality(TicketUnits(t))

Of(u, statuses) == {r \in ResIds : res[r].user = u /\ res[r].status \in statuses}

\* countUserTicketsForEvent; a converted reservation counts again as tickets.
UserTickets(u) ==
    Cardinality({x \in Of(u, {"active", "converted"}) \X (1 .. MaxPerOrder) :
                    x[2] <= res[x[1]].qty})
      + Cardinality(UNION {{<<r, i>> : i \in 1 .. order[r].tickets} :
                              r \in {q \in ResIds : res[q].user = u}})

Reply(h, q) == req' = [req EXCEPT ![h] = q]

-----------------------------------------------------------------------------
Init ==
    /\ reg = [i \in RegIds |->
          [status |-> "absent", tier |-> CHOOSE t \in Tiers : TRUE, seats |-> 1]]
    /\ sold = Issued
    /\ avail = [t \in Tiers |-> Capacity[t] - Issued[t]]
    /\ res = [r \in ResIds |->
          [status |-> "absent", tier |-> CHOOSE t \in Tiers : TRUE, qty |-> 1,
           user |-> CHOOSE u \in Users : TRUE, key |-> CHOOSE k \in Keys : TRUE,
           due |-> FALSE]]
    /\ order = [r \in ResIds |-> [status |-> "none", tickets |-> 0]]
    /\ req = [h \in Handlers |-> Idle]
    /\ uncounted = {} /\ overwritten = {}

(* Registrations: createImpl and the release of a hold, as in TierCapacity *)

\* Mutant: tickets are not part of the count.
RegistrationsOnly(t, n) == Occupied(reg, t) + n <= Capacity[t]

CheckoutFits(t, n) == InUse(t) + n <= Capacity[t]

Checkout(i, t, n) ==
    /\ reg[i].status = "absent" /\ \A j \in RegIds : j < i => reg[j].status # "absent"
    /\ CheckoutFits(t, n)
    /\ reg' = [reg EXCEPT ![i] = [status |-> "pending_payment", tier |-> t, seats |-> n]]
    /\ sold' = [sold EXCEPT ![t] = InUse(t) + n]
    /\ uncounted' = uncounted \cup {r \in ResIds : res[r].tier = t /\ order[r].status = "pending"}
    /\ UNCHANGED <<avail, res, order, req, overwritten>>

SeatsReturn(i) == LET t == reg[i].tier  n == reg[i].seats IN
    /\ reg[i].status = "pending_payment"
    /\ reg' = [reg EXCEPT ![i].status = "cancelled"]
    /\ sold' = [sold EXCEPT ![t] = IF @ > n THEN @ - n ELSE 0]
    /\ UNCHANGED <<avail, res, order, req, uncounted, overwritten>>

-----------------------------------------------------------------------------
(* Reservations *)

KeyUnused(k) == \A r \in ResIds : res[r].status # "absent" => res[r].key # k

\* create, up to the checks of the user's limits.
ReserveChecks(h, u, t, q, k) ==
    /\ req[h] = Idle
    /\ KeyUnused(k)
    /\ UserTickets(u) + q <= MaxPerUser
    /\ Cardinality(Of(u, {"active"})) < MAX_ACTIVE_RESERVATIONS
    /\ Reply(h, [op |-> "reserve", tier |-> t, qty |-> q, user |-> u, key |-> k])
    /\ UNCHANGED <<reg, sold, avail, res, order, uncounted, overwritten>>

\* decrBy: DECRBY, and INCRBY in a call of its own if the result is negative.
ReserveTakes(h) == LET left == avail[req[h].tier] - req[h].qty IN
    /\ req[h].op = "reserve"
    /\ avail[req[h].tier] >= LowestAvail
    /\ avail' = [avail EXCEPT ![req[h].tier] = left]
    /\ Reply(h, [req[h] EXCEPT !.op = IF left < 0 THEN "give_back" ELSE "taken"])
    /\ UNCHANGED <<reg, sold, res, order, uncounted, overwritten>>

ReserveInserts(h, r) == LET q == req[h] IN
    /\ q.op = "taken"
    /\ res[r].status = "absent" /\ \A p \in ResIds : p < r => res[p].status # "absent"
    /\ KeyUnused(q.key)
    /\ res' = [res EXCEPT ![r] = [status |-> "active", tier |-> q.tier, qty |-> q.qty,
                                  user |-> q.user, key |-> q.key, due |-> FALSE]]
    /\ Reply(h, Idle)
    /\ UNCHANGED <<reg, sold, avail, order, uncounted, overwritten>>

\* The insert failed: the unique key, or the database.
ReserveFails(h) ==
    /\ req[h].op = "taken"
    /\ Reply(h, [req[h] EXCEPT !.op = "give_back"])
    /\ UNCHANGED <<reg, sold, avail, res, order, uncounted, overwritten>>

GivesBack(h) ==
    /\ req[h].op = "give_back"
    /\ avail' = [avail EXCEPT ![req[h].tier] = @ + req[h].qty]
    /\ Reply(h, Idle)
    /\ UNCHANGED <<reg, sold, res, order, uncounted, overwritten>>

DeadlinePasses(r) ==
    /\ res[r].status = "active" /\ ~res[r].due
    /\ res' = [res EXCEPT ![r].due = TRUE]
    /\ UNCHANGED <<reg, sold, avail, order, req, uncounted, overwritten>>

CancelReads(h, r) ==
    /\ req[h] = Idle
    /\ res[r].status = "active"
    /\ Reply(h, [op |-> "cancel", res |-> r])
    /\ UNCHANGED <<reg, sold, avail, res, order, uncounted, overwritten>>

\* releaseExpiredReservations: the list.
ExpiryReads(h) == LET listed == {r \in ResIds : res[r].status = "active" /\ res[r].due} IN
    /\ req[h] = Idle
    /\ listed # {}
    /\ Reply(h, [op |-> "expire", listed |-> listed])
    /\ UNCHANGED <<reg, sold, avail, res, order, uncounted, overwritten>>

\* Mutant: the update is forgotten.
KeptActive(ids, status) == res

Ended(ids, status) ==
    [r \in ResIds |-> IF r \in ids THEN [res[r] EXCEPT !.status = status] ELSE res[r]]

\* The rows are updated by id alone; whatever they are by now is overwritten.
Ends(h, ids, status) ==
    /\ res' = Ended(ids, status)
    /\ overwritten' = overwritten \cup {r \in ids : res[r].status # "active"}
    /\ Reply(h, [op |-> "return", listed |-> ids])
    /\ UNCHANGED <<reg, sold, avail, order, uncounted>>

CancelWrites(h) == req[h].op = "cancel" /\ Ends(h, {req[h].res}, "released")

ExpiryWrites(h) == req[h].op = "expire" /\ Ends(h, req[h].listed, "expired")

\* Mutant: a tier gets the quantity of one of its rows, not their sum.
OneRowPerTier(ids, t) ==
    IF \E r \in ids : res[r].tier = t THEN res[CHOOSE r \in ids : res[r].tier = t].qty ELSE 0

\* tierGroups
Restored(ids, t) == Units(ids, t)

\* incrBy of cancel, pipelineIncrBy of the expiry job.
Returns(h) ==
    /\ req[h].op = "return"
    /\ avail' = [t \in Tiers |-> avail[t] + Restored(req[h].listed, t)]
    /\ Reply(h, Idle)
    /\ UNCHANGED <<reg, sold, res, order, uncounted, overwritten>>

-----------------------------------------------------------------------------
(* Orders *)

OrderReads(h, r) ==
    /\ req[h] = Idle
    /\ res[r].status = "active" /\ ~res[r].due
    /\ Reply(h, [op |-> "order", res |-> r])
    /\ UNCHANGED <<reg, sold, avail, res, order, uncounted, overwritten>>

OrderFits(t, n) == Capacity[t] - sold[t] >= n

\* Mutant: the reservation is not marked.
LeftActive(r) == res

Converted(r) == [res EXCEPT ![r].status = "converted"]

\* The transaction of create: row lock, check, increment, order, reservation.
OrderCommits(h) == LET r == req[h].res IN
    /\ req[h].op = "order"
    /\ order[r].status = "none"
    /\ OrderFits(res[r].tier, res[r].qty)
    /\ sold' = [sold EXCEPT ![res[r].tier] = @ + res[r].qty]
    /\ order' = [order EXCEPT ![r].status = "pending"]
    /\ res' = Converted(r)
    /\ overwritten' = IF res[r].status = "active" THEN overwritten ELSE overwritten \cup {r}
    /\ Reply(h, Idle)
    /\ UNCHANGED <<reg, avail, uncounted>>

\* confirmPayment, from the admin or at once for a free order.
ConfirmReads(h, r) ==
    /\ req[h] = Idle
    /\ order[r].status = "pending"
    /\ Reply(h, [op |-> "confirm", res |-> r])
    /\ UNCHANGED <<reg, sold, avail, res, order, uncounted, overwritten>>

ConfirmCommits(h) == LET r == req[h].res IN
    /\ req[h].op = "confirm"
    /\ order' = [order EXCEPT ![r].status = "paid", ![r].tickets = @ + res[r].qty]
    /\ Reply(h, Idle)
    /\ UNCHANGED <<reg, sold, avail, res, uncounted, overwritten>>

\* An exception, or the end of the process.
Dies(h) ==
    /\ req[h] # Idle
    /\ Reply(h, Idle)
    /\ UNCHANGED <<reg, sold, avail, res, order, uncounted, overwritten>>

-----------------------------------------------------------------------------
Registering == \E i \in RegIds :
    SeatsReturn(i) \/ \E t \in Tiers, n \in 1 .. MaxPerOrder : Checkout(i, t, n)

Reserving(h) ==
    \/ \E u \in Users, t \in Tiers, q \in 1 .. MaxPerOrder, k \in Keys :
          ReserveChecks(h, u, t, q, k)
    \/ ReserveTakes(h) \/ ReserveFails(h) \/ GivesBack(h)
    \/ \E r \in ResIds : ReserveInserts(h, r)

Releasing(h) ==
    \/ \E r \in ResIds : CancelReads(h, r)
    \/ ExpiryReads(h) \/ CancelWrites(h) \/ ExpiryWrites(h) \/ Returns(h)

Ordering(h) ==
    \/ \E r \in ResIds : OrderReads(h, r) \/ ConfirmReads(h, r)
    \/ OrderCommits(h) \/ ConfirmCommits(h)

Next ==
    \/ Registering
    \/ \E r \in ResIds : DeadlinePasses(r)
    \/ \E h \in Handlers : Reserving(h) \/ Releasing(h) \/ Ordering(h) \/ Dies(h)

Spec == Init /\ [][Next]_vars

-----------------------------------------------------------------------------
(* Properties *)

TypeOK ==
    /\ reg \in [RegIds -> Row]
    /\ sold \in [Tiers -> Nat] /\ \A t \in Tiers : sold[t] <= Capacity[t]
    /\ avail \in [Tiers -> Int]
    /\ res \in [ResIds -> Reservation]
    /\ order \in [ResIds -> Order]
    /\ req \in [Handlers -> {Idle} \cup ReserveRequest \cup RowRequest \cup ReleaseRequest]
    /\ uncounted \subseteq ResIds /\ overwritten \subseteq ResIds

\* Registrations and orders together fit the tier, whatever Redis says, except
\* for orders that were unpaid when a checkout rewrote sold_quantity: checkout
\* counts tickets, and an unpaid order has none.
CountedOrdersFit ==
    \A t \in Tiers : Occupied(reg, t) + Units(Orders \ uncounted, t) <= Capacity[t]

\* Units a request has on their way from Redis, or back from ended reservations.
Taken(q, t) ==
    IF q.op \in {"taken", "give_back"} /\ q.tier = t THEN 1 .. q.qty ELSE {}

Returning(q, t) ==
    IF q.op = "return"
      THEN {u \in q.listed \X (1 .. MaxPerOrder) : res[u[1]].tier = t /\ u[2] <= res[u[1]].qty}
      ELSE {}

InFlight(t) ==
    Cardinality({x \in Handlers \X (1 .. MaxPerOrder) : x[2] \in Taken(req[x[1]], t)})
    + Cardinality({x \in Handlers \X (ResIds \X (1 .. MaxPerOrder)) :
                      x[2] \in Returning(req[x[1]], t)})

Available(t) ==
    avail[t] + InFlight(t)
        + Units({r \in ResIds : res[r].status \in {"active", "converted"}}, t)

\* Redis never offers a unit that an active reservation or an order has, as
\* long as no handler wrote over the final status of a reservation; a process
\* that dies loses units but gives none away.
InventoryConserved ==
    overwritten = {} =>
        \A t \in Tiers : Available(t) + Issued[t] <= Capacity[t]

\* No unit gets lost or is made on its way: each step of a handler leaves what is
\* in Redis, in flight and reserved or ordered as it was, unless the handler dies or
\* a final status has been written over.
UnitsBalance ==
    [][\/ overwritten' # {}
       \/ \E h \in Handlers : Dies(h)
       \/ \A t \in Tiers : Available(t)' = Available(t)]_vars

\* An order and its reservation agree, unless a handler wrote over it.
ConvertedIffOrdered ==
    \A r \in ResIds \ overwritten : res[r].status = "converted" <=> r \in Orders

=============================================================================
