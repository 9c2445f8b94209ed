--------------------------- MODULE OrderFlowProofs ---------------------------
(***************************************************************************)
(* The order flow beside checkouts, for every number of reservations,      *)
(* handlers and tiers: what the row lock on the tier guarantees whatever   *)
(* Redis says, and when an order and its reservation agree.                *)
(***************************************************************************)
EXTENDS OrderFlow, SeatUsageProofs

UnderWay == {Idle} \cup ReserveRequest \cup RowRequest \cup ReleaseRequest

LEMMA RequestFields ==
    ASSUME NEW q \in UnderWay
    PROVE  /\ q.op \in {"reserve", "taken", "give_back"} =>
                 /\ q \in ReserveRequest /\ q.tier \in Tiers /\ q.qty \in 1 .. MaxPerOrder
                 /\ q.user \in Users /\ q.key \in Keys /\ q.qty \in Nat
           /\ q.op \in {"cancel", "order", "confirm"} => q.res \in ResIds
           /\ q.op \in {"expire", "return"} => q.listed \in SUBSET ResIds
  <1>1. \A n \in 1 .. MaxPerOrder : n \in Nat
    BY SeatUsageAssumption
  <1> QED
    BY <1>1 DEF UnderWay, Idle, ReserveRequest, RowRequest, ReleaseRequest

-----------------------------------------------------------------------------
(* Counting *)

UnitSet(rows, ids, t) ==
    {u \in ids \X (1 .. MaxPerOrder) : rows[u[1]].tier = t /\ u[2] <= rows[u[1]].qty}

UnitsOf(rows, ids, t) == Cardinality(UnitSet(rows, ids, t))

LEMMA UnitsAre == \A ids, t : Units(ids, t) = UnitsOf(res, ids, t)
  BY DEF Units, UnitsOf, UnitSet

LEMMA UnitsFinite ==
    ASSUME NEW rows, NEW ids \in SUBSET ResIds, NEW t
    PROVE  IsFiniteSet(UnitSet(rows, ids, t)) /\ UnitsOf(rows, ids, t) \in Nat
  <1>1. IsFiniteSet(1 .. MaxRes) /\ IsFiniteSet(1 .. MaxPerOrder)
    <2>1. MaxRes \in Int /\ MaxPerOrder \in Int /\ 1 \in Int
      BY SeatUsageAssumption, OrderFlowAssumption
    <2> QED
      BY <2>1, FS_Interval
  <1>2. IsFiniteSet(ids \X (1 .. MaxPerOrder))
    BY <1>1, FS_Subset, FS_Product DEF ResIds
  <1>3. UnitSet(rows, ids, t) \in SUBSET (ids \X (1 .. MaxPerOrder))
    BY DEF UnitSet
  <1> QED
    BY <1>2, <1>3, FS_Subset, FS_CardinalityType DEF UnitsOf

\* Fewer reservations have fewer units, and one more adds its quantity at most.
LEMMA UnitsGrow ==
    ASSUME NEW rows, NEW then, NEW ids \in SUBSET ResIds, NEW more \in SUBSET ResIds, NEW t,
           \A r \in ids : r \in more => then[r].tier = rows[r].tier /\ then[r].qty = rows[r].qty
    PROVE  /\ ids \subseteq more => UnitsOf(then, ids, t) <= UnitsOf(rows, more, t)
           /\ \A r \in ResIds : /\ ids \subseteq more \cup {r} /\ then[r].qty \in Nat
                                /\ then[r].tier = t \/ r \notin ids
                                => UnitsOf(then, ids, t) <= UnitsOf(rows, more, t) + then[r].qty
           /\ \A r \in ResIds : /\ ids \subseteq more \cup {r}
                                /\ then[r].tier # t
                                => UnitsOf(then, ids, t) <= UnitsOf(rows, more, t)
  <1> DEFINE now == UnitSet(then, ids, t)
             old == UnitSet(rows, more, t)
  <1>1. IsFiniteSet(old) /\ UnitsOf(rows, more, t) = Cardinality(old)
        /\ UnitsOf(then, ids, t) = Cardinality(now)
    BY UnitsFinite DEF UnitsOf
  <1>2. ASSUME ids \subseteq more
        PROVE  Cardinality(now) <= Cardinality(old)
    <2>1. now \subseteq old
      BY <1>2 DEF UnitSet
    <2> QED
      BY <1>1, <2>1, FewerUnits
  <1>3. ASSUME NEW r \in ResIds, ids \subseteq more \cup {r}, then[r].qty \in Nat
        PROVE  Cardinality(now) <= Cardinality(old) + then[r].qty
    <2>1. ASSUME NEW a \in ids, NEW b \in 1 .. MaxPerOrder,
                 then[a].tier = t, b <= then[a].qty
          PROVE  <<a, b>> \in old \/ <<a, b>> \in {r} \X (1 .. then[r].qty)
      <3>1. CASE a \in more
        BY <2>1, <3>1 DEF UnitSet
      <3>2. CASE a = r
        <4>1. b \in Nat /\ b >= 1
          BY SeatUsageAssumption
        <4> QED
          BY <1>3, <2>1, <3>2, <4>1
      <3> QED
        BY <1>3, <3>1, <3>2
    <2>2. now \subseteq old \cup ({r} \X (1 .. then[r].qty))
      <3>1. \A u \in now : u = <<u[1], u[2]>> /\ u[1] \in ids /\ u[2] \in 1 .. MaxPerOrder
                           /\ then[u[1]].tier = t /\ u[2] <= then[u[1]].qty
        BY DEF UnitSet
      <3> HIDE DEF now, old
      <3> QED
        BY <2>1, <3>1
    <2> HIDE DEF now, old
    <2> QED
      BY <1>1, <1>3, <2>2, OneMoreRow
  <1>4. ASSUME NEW r \in ResIds, ids \subseteq more \cup {r}, then[r].tier # t
        PROVE  Cardinality(now) <= Cardinality(old)
    <2>1. now \subseteq old
      BY <1>4 DEF UnitSet
    <2> QED
      BY <1>1, <2>1, FewerUnits
  <1> HIDE DEF now, old
  <1> QED
    BY <1>1, <1>2, <1>3, <1>4

LEMMA TicketsFinite ==
    ASSUME TypeOK, NEW t
    PROVE  IsFiniteSet(TicketUnits(t)) /\ Cardinality(TicketUnits(t)) \in Nat
  <1> DEFINE Q == {q \in ResIds : res[q].tier = t}
             f == [r \in Q |-> {<<r, i>> : i \in 1 .. order[r].tickets}]
  <1>1. IsFiniteSet(ResIds)
    <2>1. MaxRes \in Int /\ 1 \in Int
      BY OrderFlowAssumption
    <2> QED
      BY <2>1, FS_Interval DEF ResIds
  <1>2. IsFiniteSet(Q)
    BY <1>1, FS_Subset
  <1>3. IsFiniteSet({f[r] : r \in Q})
    <2>1. f \in Surjection(Q, {f[r] : r \in Q})
      BY DEF Surjection, Range
    <2> HIDE DEF f, Q
    <2> QED
      BY <1>2, <2>1, FS_Surjection
  <1>4. \A r \in Q : IsFiniteSet(f[r])
    <2> TAKE r \in Q
    <2>1. order[r].tickets \in Int /\ 1 \in Int
      BY DEF TypeOK, Order
    <2>2. IsFiniteSet({r}) /\ IsFiniteSet(1 .. order[r].tickets)
      BY <2>1, FS_Singleton, FS_Interval
    <2>3. IsFiniteSet({r} \X (1 .. order[r].tickets))
      BY <2>2, FS_Product
    <2>4. f[r] \subseteq {r} \X (1 .. order[r].tickets)
      OBVIOUS
    <2> QED
      BY <2>3, <2>4, FS_Subset
  <1>5. IsFiniteSet(UNION {f[r] : r \in Q})
    BY <1>3, <1>4, FS_UNION
  <1>6. TicketUnits(t) = UNION {f[r] : r \in Q}
    <2>1. {{<<r, i>> : i \in 1 .. order[r].tickets} : r \in {q \in ResIds : res[q].tier = t}}
             = {f[r] : r \in Q}
      OBVIOUS
    <2> QED
      BY <2>1 DEF TicketUnits
  <1> QED
    BY <1>5, <1>6, FS_CardinalityType

LEMMA InUseType ==
    ASSUME TypeOK, NEW t \in Tiers
    PROVE  InUse(t) \in Nat
  BY TicketsFinite, OccupiedType DEF InUse

\* The seats of an active row are part of the count.
LEMMA RowCounts ==
    ASSUME reg \in [RegIds -> Row],
           NEW i \in RegIds, NEW n \in 1 .. MaxPerOrder, NEW t \in Tiers,
           reg[i].status = "pending_payment", reg[i].tier = t, reg[i].seats = n,
           NEW rows, rows = [reg EXCEPT ![i].status = "cancelled"]
    PROVE  Occupied(rows, t) + n <= Occupied(reg, t)
  <1> DEFINE now == SeatUnits(rows, RegIds, ACTIVE_REGISTRATION_STATUSES, t)
             old == SeatUnits(reg, RegIds, ACTIVE_REGISTRATION_STATUSES, t)
             own == {i} \X (1 .. n)
  <1>1. n \in Nat /\ 1 <= n /\ n <= MaxPerOrder /\ Issued[t] \in Nat
    BY SeatUsageAssumption
  <1>2. IsFiniteSet(now) /\ IsFiniteSet(old) /\ Cardinality(now) \in Nat /\ Cardinality(old) \in Nat
    <2>1. RegIds \in SUBSET RegIds
      OBVIOUS
    <2> QED
      BY <2>1, SeatUnitsFinite
  <1>3. IsFiniteSet(own) /\ Cardinality(own) = n
    BY <1>1, RowUnits
  <1>4. now \cup own \subseteq old
    <2>1. now \subseteq old
      BY DEF SeatUnits, ACTIVE_REGISTRATION_STATUSES
    <2>2. \A k \in 1 .. n : <<i, k>> \in old
      <3>1. \A k \in 1 .. n : k \in 1 .. MaxPerOrder /\ k <= n
        BY <1>1, SeatUsageAssumption
      <3> QED
        BY <3>1 DEF SeatUnits, ACTIVE_REGISTRATION_STATUSES
    <2>3. own \subseteq old
      <3> HIDE DEF old
      <3> QED
        BY <2>2
    <2> QED
      BY <2>1, <2>3
  <1>5. now \cap own = {}
    BY DEF SeatUnits, ACTIVE_REGISTRATION_STATUSES
  <1>6. Cardinality(now \cup own) = Cardinality(now) + Cardinality(own) - Cardinality(now \cap own)
    BY <1>2, <1>3, FS_Union
  <1>7. Cardinality(now \cap own) = 0
    BY <1>5, FS_EmptySet
  <1>8. Cardinality(now \cup own) <= Cardinality(old)
    BY <1>2, <1>4, FewerUnits
  <1> QED
    <2> HIDE DEF now, old, own
    <2>1. Cardinality(now) + n <= Cardinality(old)
      BY <1>1, <1>2, <1>3, <1>6, <1>7, <1>8
    <2> QED
      BY <1>1, <1>2, <2>1 DEF Occupied, Seats, now, old

\* A row that is cancelled adds no unit to any tier.
LEMMA OtherTiersKeep ==
    ASSUME reg \in [RegIds -> Row], NEW i \in RegIds, NEW u \in Tiers,
           NEW rows, rows = [reg EXCEPT ![i].status = "cancelled"]
    PROVE  Occupied(rows, u) <= Occupied(reg, u)
  <1> DEFINE now == SeatUnits(rows, RegIds, ACTIVE_REGISTRATION_STATUSES, u)
             old == SeatUnits(reg, RegIds, ACTIVE_REGISTRATION_STATUSES, u)
  <1>1. now \subseteq old
    BY DEF SeatUnits, ACTIVE_REGISTRATION_STATUSES
  <1>2. IsFiniteSet(old) /\ Cardinality(now) \in Nat /\ Cardinality(old) \in Nat
        /\ Issued[u] \in Nat
    <2>1. RegIds \in SUBSET RegIds
      OBVIOUS
    <2> QED
      BY <2>1, SeatUnitsFinite, SeatUsageAssumption
  <1> HIDE DEF now, old
  <1>3. Cardinality(now) <= Cardinality(old)
    BY <1>1, <1>2, FewerUnits
  <1> QED
    BY <1>2, <1>3 DEF Occupied, Seats, now, old

\* A row that was absent adds its seats to its tier.
LEMMA NewRowCounts ==
    ASSUME NEW i \in RegIds, reg[i].status = "absent", NEW row, row.seats \in Nat,
           NEW rows, rows = [reg EXCEPT ![i] = row], NEW u \in Tiers
    PROVE  /\ Occupied(rows, u) <= Occupied(reg, u) + row.seats
           /\ row.tier # u => Occupied(rows, u) <= Occupied(reg, u)
  <1> DEFINE now == SeatUnits(rows, RegIds, ACTIVE_REGISTRATION_STATUSES, u)
             old == SeatUnits(reg, RegIds, ACTIVE_REGISTRATION_STATUSES, u)
  <1>1. IsFiniteSet(old) /\ Cardinality(now) \in Nat /\ Cardinality(old) \in Nat
        /\ Issued[u] \in Nat
    <2>1. RegIds \in SUBSET RegIds
      OBVIOUS
    <2> QED
      BY <2>1, SeatUnitsFinite, SeatUsageAssumption
  <1>2. \A v \in now : v \in old \/ (v[1] = i /\ v \in {i} \X (1 .. row.seats))
    BY DEF SeatUnits
  <1>3. now \subseteq old \cup ({i} \X (1 .. row.seats))
    BY <1>2
  <1>4. Cardinality(now) <= Cardinality(old) + row.seats
    <2> HIDE DEF now, old
    <2> QED
      BY <1>1, <1>3, OneMoreRow
  <1>5. row.tier # u => Cardinality(now) <= Cardinality(old)
    <2>1. row.tier # u => now \subseteq old
      BY DEF SeatUnits
    <2> QED
      BY <1>1, <2>1, FewerUnits
  <1> HIDE DEF now, old
  <1> QED
    BY <1>1, <1>4, <1>5 DEF Occupied, Seats, now, old

-----------------------------------------------------------------------------
(* Type correctness *)

LEMMA InitType == Init => TypeOK
  <1> SUFFICES ASSUME Init PROVE TypeOK
    OBVIOUS
  <1>1. /\ (CHOOSE t \in Tiers : TRUE) \in Tiers
        /\ (CHOOSE u \in Users : TRUE) \in Users
        /\ (CHOOSE k \in Keys : TRUE) \in Keys
    BY OrderFlowAssumption
  <1>2. 1 \in 1 .. MaxPerOrder
    BY SeatUsageAssumption
  <1>3. reg \in [RegIds -> Row]
    BY <1>1, <1>2 DEF Init, Row
  <1>4. res \in [ResIds -> Reservation]
    BY <1>1, <1>2 DEF Init, Reservation
  <1>5. /\ sold \in [Tiers -> Nat] /\ \A t \in Tiers : sold[t] <= Capacity[t]
        /\ avail \in [Tiers -> Int]
    BY SeatUsageAssumption, OrderFlowAssumption DEF Init
  <1> QED
    BY <1>3, <1>4, <1>5 DEF Init, TypeOK, Order

LEMMA RegisteringType ==
    ASSUME TypeOK, Registering
    PROVE  TypeOK'
  <1>1. ASSUME NEW i \in RegIds, SeatsReturn(i)
        PROVE  TypeOK'
    <2>1. reg[i] \in Row /\ reg[i].tier \in Tiers /\ reg[i].seats \in Nat
      BY SeatUsageAssumption DEF TypeOK, Row
    <2> DEFINE t == reg[i].tier  n == reg[i].seats
               left == IF sold[t] > n THEN sold[t] - n ELSE 0
    <2>2. sold[t] \in Nat /\ sold[t] <= Capacity[t] /\ Capacity[t] \in Nat
      BY <2>1, OrderFlowAssumption DEF TypeOK
    <2>3. left \in Nat /\ left <= Capacity[t]
      BY <2>1, <2>2
    <2>4. sold' = [sold EXCEPT ![t] = left]
      BY <1>1 DEF SeatsReturn
    <2> HIDE DEF left
    <2>5. sold' \in [Tiers -> Nat] /\ \A u \in Tiers : sold'[u] <= Capacity[u]
      BY <2>1, <2>3, <2>4 DEF TypeOK
    <2>6. [reg[i] EXCEPT !.status = "cancelled"] \in Row
      BY <2>1 DEF Row
    <2>7. reg' \in [RegIds -> Row]
      BY <1>1, <2>6 DEF SeatsReturn, TypeOK
    <2> QED
      BY <1>1, <2>5, <2>7 DEF SeatsReturn, TypeOK
  <1>2. ASSUME NEW i \in RegIds, NEW t \in Tiers, NEW n \in 1 .. MaxPerOrder,
               Checkout(i, t, n)
        PROVE  TypeOK'
    <2>1. InUse(t) + n \in Nat /\ InUse(t) + n <= Capacity[t]
      BY <1>2, InUseType, SeatUsageAssumption DEF Checkout, CheckoutFits
    <2>2. sold' \in [Tiers -> Nat] /\ \A u \in Tiers : sold'[u] <= Capacity[u]
      BY <1>2, <2>1 DEF Checkout, TypeOK
    <2>3. [status |-> "pending_payment", tier |-> t, seats |-> n] \in Row
      BY DEF Row
    <2>4. reg' \in [RegIds -> Row] /\ uncounted' \subseteq ResIds
      BY <1>2, <2>3 DEF Checkout, TypeOK
    <2> QED
      BY <1>2, <2>2, <2>4 DEF Checkout, TypeOK
  <1> QED
    BY <1>1, <1>2 DEF Registering

LEMMA ReplyType ==
    ASSUME TypeOK, NEW h \in Handlers, NEW q \in UnderWay, Reply(h, q)
    PROVE  req' \in [Handlers -> {Idle} \cup ReserveRequest \cup RowRequest \cup ReleaseRequest]
  BY DEF TypeOK, Reply, UnderWay

LEMMA ReservingType ==
    ASSUME TypeOK, NEW h \in Handlers, Reserving(h)
    PROVE  TypeOK'
  <1>0. req[h] \in UnderWay /\ Idle \in UnderWay
    BY DEF TypeOK, UnderWay
  <1>1. ASSUME NEW u \in Users, NEW t \in Tiers, NEW q \in 1 .. MaxPerOrder, NEW k \in Keys,
               ReserveChecks(h, u, t, q, k)
        PROVE  TypeOK'
    <2>1. [op |-> "reserve", tier |-> t, qty |-> q, user |-> u, key |-> k] \in UnderWay
      BY DEF UnderWay, ReserveRequest
    <2>2. req' \in [Handlers -> {Idle} \cup ReserveRequest \cup RowRequest \cup ReleaseRequest]
      BY <1>1, <2>1, ReplyType DEF ReserveChecks
    <2> QED
      BY <1>1, <2>2 DEF ReserveChecks, TypeOK
  <1>2. CASE ReserveTakes(h)
    <2>1. /\ req[h] \in ReserveRequest /\ req[h].tier \in Tiers /\ req[h].qty \in Nat
      BY <1>0, <1>2, RequestFields DEF ReserveTakes
    <2> DEFINE left == avail[req[h].tier] - req[h].qty
               next == IF left < 0 THEN "give_back" ELSE "taken"
    <2>2. left \in Int
      BY <2>1 DEF TypeOK
    <2>3. next \in {"taken", "give_back"}
      OBVIOUS
    <2>4. Reply(h, [req[h] EXCEPT !.op = next]) /\ avail' = [avail EXCEPT ![req[h].tier] = left]
      BY <1>2 DEF ReserveTakes
    <2> HIDE DEF left, next
    <2>5. [req[h] EXCEPT !.op = next] \in UnderWay
      BY <2>1, <2>3 DEF UnderWay, ReserveRequest
    <2>6. req' \in [Handlers -> {Idle} \cup ReserveRequest \cup RowRequest \cup ReleaseRequest]
      BY <2>4, <2>5, ReplyType
    <2>7. avail' \in [Tiers -> Int]
      BY <2>1, <2>2, <2>4 DEF TypeOK
    <2> QED
      BY <1>2, <2>6, <2>7 DEF ReserveTakes, TypeOK
  <1>3. CASE ReserveFails(h)
    <2>1. req[h] \in ReserveRequest
      BY <1>0, <1>3, RequestFields DEF ReserveFails
    <2>2. [req[h] EXCEPT !.op = "give_back"] \in UnderWay
      BY <2>1 DEF UnderWay, ReserveRequest
    <2>3. req' \in [Handlers -> {Idle} \cup ReserveRequest \cup RowRequest \cup ReleaseRequest]
      BY <1>3, <2>2, ReplyType DEF ReserveFails
    <2> QED
      BY <1>3, <2>3 DEF ReserveFails, TypeOK
  <1>4. CASE GivesBack(h)
    <2>1. /\ req[h].tier \in Tiers /\ req[h].qty \in Nat
      BY <1>0, <1>4, RequestFields DEF GivesBack
    <2>2. avail' \in [Tiers -> Int]
      BY <1>4, <2>1 DEF GivesBack, TypeOK
    <2>3. req' \in [Handlers -> {Idle} \cup ReserveRequest \cup RowRequest \cup ReleaseRequest]
      BY <1>0, <1>4, ReplyType DEF GivesBack
    <2> QED
      BY <1>4, <2>2, <2>3 DEF GivesBack, TypeOK
  <1>5. ASSUME NEW r \in ResIds, ReserveInserts(h, r)
        PROVE  TypeOK'
    <2>1. /\ req[h] \in ReserveRequest /\ req[h].tier \in Tiers /\ req[h].qty \in 1 .. MaxPerOrder
          /\ req[h].user \in Users /\ req[h].key \in Keys
      BY <1>0, <1>5, RequestFields DEF ReserveInserts
    <2>2. [status |-> "active", tier |-> req[h].tier, qty |-> req[h].qty,
           user |-> req[h].user, key |-> req[h].key, due |-> FALSE] \in Reservation
      BY <2>1 DEF Reservation
    <2>3. res' \in [ResIds -> Reservation]
      BY <1>5, <2>2 DEF ReserveInserts, TypeOK
    <2>4. req' \in [Handlers -> {Idle} \cup ReserveRequest \cup RowRequest \cup ReleaseRequest]
      BY <1>0, <1>5, ReplyType DEF ReserveInserts
    <2> QED
      BY <1>5, <2>3, <2>4 DEF ReserveInserts, TypeOK
  <1> QED
    BY <1>1, <1>2, <1>3, <1>4, <1>5 DEF Reserving

LEMMA EndsType ==
    ASSUME TypeOK, NEW h \in Handlers, NEW ids \in SUBSET ResIds,
           NEW status \in {"released", "expired"}, Ends(h, ids, status)
    PROVE  TypeOK'
  <1>1. \A r \in ResIds : [res[r] EXCEPT !.status = status] \in Reservation
    BY DEF TypeOK, Reservation
  <1>2. res' \in [ResIds -> Reservation]
    BY <1>1 DEF Ends, Ended, TypeOK
  <1>3. [op |-> "return", listed |-> ids] \in UnderWay
    BY DEF UnderWay, ReleaseRequest
  <1>4. req' \in [Handlers -> {Idle} \cup ReserveRequest \cup RowRequest \cup ReleaseRequest]
    BY <1>3, ReplyType DEF Ends
  <1>5. overwritten' \subseteq ResIds
    BY DEF Ends, TypeOK
  <1> QED
    BY <1>2, <1>4, <1>5 DEF Ends, TypeOK

LEMMA ReleasingType ==
    ASSUME TypeOK, NEW h \in Handlers, Releasing(h)
    PROVE  TypeOK'
  <1>0. req[h] \in UnderWay /\ Idle \in UnderWay
    BY DEF TypeOK, UnderWay
  <1>1. ASSUME NEW r \in ResIds, CancelReads(h, r)
        PROVE  TypeOK'
    <2>1. [op |-> "cancel", res |-> r] \in UnderWay
      BY DEF UnderWay, RowRequest
    <2>2. req' \in [Handlers -> {Idle} \cup ReserveRequest \cup RowRequest \cup ReleaseRequest]
      BY <1>1, <2>1, ReplyType DEF CancelReads
    <2> QED
      BY <1>1, <2>2 DEF CancelReads, TypeOK
  <1>2. CASE ExpiryReads(h)
    <2> DEFINE listed == {r \in ResIds : res[r].status = "active" /\ res[r].due}
    <2>1. listed \in SUBSET ResIds
      OBVIOUS
    <2>2. [op |-> "expire", listed |-> listed] \in UnderWay
      BY <2>1 DEF UnderWay, ReleaseRequest
    <2>3. Reply(h, [op |-> "expire", listed |-> listed])
      BY <1>2 DEF ExpiryReads
    <2> HIDE DEF listed
    <2>4. req' \in [Handlers -> {Idle} \cup ReserveRequest \cup RowRequest \cup ReleaseRequest]
      BY <2>2, <2>3, ReplyType
    <2> QED
      BY <1>2, <2>4 DEF ExpiryReads, TypeOK
  <1>3. CASE CancelWrites(h)
    <2>1. {req[h].res} \in SUBSET ResIds /\ Ends(h, {req[h].res}, "released")
      BY <1>0, <1>3, RequestFields DEF CancelWrites
    <2> QED
      BY <2>1, EndsType
  <1>4. CASE ExpiryWrites(h)
    <2>1. req[h].listed \in SUBSET ResIds /\ Ends(h, req[h].listed, "expired")
      BY <1>0, <1>4, RequestFields DEF ExpiryWrites
    <2> QED
      BY <2>1, EndsType
  <1>5. CASE Returns(h)
    <2>1. req[h].listed \in SUBSET ResIds
      BY <1>0, <1>5, RequestFields DEF Returns
    <2>2. \A t \in Tiers : Units(req[h].listed, t) \in Nat
      BY <2>1, UnitsFinite, UnitsAre
    <2>3. avail' \in [Tiers -> Int]
      BY <1>5, <2>2 DEF Returns, Restored, TypeOK
    <2>4. req' \in [Handlers -> {Idle} \cup ReserveRequest \cup RowRequest \cup ReleaseRequest]
      BY <1>0, <1>5, ReplyType DEF Returns
    <2> QED
      BY <1>5, <2>3, <2>4 DEF Returns, TypeOK
  <1> QED
    BY <1>1, <1>2, <1>3, <1>4, <1>5 DEF Releasing

LEMMA OrderingType ==
    ASSUME TypeOK, NEW h \in Handlers, Ordering(h)
    PROVE  TypeOK'
  <1>0. req[h] \in UnderWay /\ Idle \in UnderWay
    BY DEF TypeOK, UnderWay
  <1>1. ASSUME NEW r \in ResIds, OrderReads(h, r) \/ ConfirmReads(h, r)
        PROVE  TypeOK'
    <2>1. /\ [op |-> "order", res |-> r] \in UnderWay
          /\ [op |-> "confirm", res |-> r] \in UnderWay
      BY DEF UnderWay, RowRequest
    <2>2. req' \in [Handlers -> {Idle} \cup ReserveRequest \cup RowRequest \cup ReleaseRequest]
      BY <1>1, <2>1, ReplyType DEF OrderReads, ConfirmReads
    <2> QED
      BY <1>1, <2>2 DEF OrderReads, ConfirmReads, TypeOK
  <1>2. CASE OrderCommits(h)
    <2> DEFINE r == req[h].res  t == res[r].tier
    <2>1. r \in ResIds
      BY <1>0, <1>2, RequestFields DEF OrderCommits
    <2>2. res[r] \in Reservation /\ t \in Tiers /\ res[r].qty \in Nat /\ order[r] \in Order
      BY <2>1, SeatUsageAssumption DEF TypeOK, Reservation
    <2>3. /\ sold[t] \in Nat /\ Capacity[t] \in Nat /\ Capacity[t] - sold[t] >= res[r].qty
          /\ sold' = [sold EXCEPT ![t] = @ + res[r].qty]
      BY <1>2, <2>2, OrderFlowAssumption DEF OrderCommits, OrderFits, TypeOK
    <2>4. sold[t] + res[r].qty \in Nat /\ sold[t] + res[r].qty <= Capacity[t]
      BY <2>2, <2>3
    <2>5. sold' \in [Tiers -> Nat] /\ \A u \in Tiers : sold'[u] <= Capacity[u]
      BY <2>2, <2>3, <2>4 DEF TypeOK
    <2>6. /\ [res[r] EXCEPT !.status = "converted"] \in Reservation
          /\ [order[r] EXCEPT !.status = "pending"] \in Order
      BY <2>2 DEF Reservation, Order
    <2>7. res' \in [ResIds -> Reservation] /\ order' \in [ResIds -> Order]
      BY <1>2, <2>6 DEF OrderCommits, Converted, TypeOK
    <2>8. overwritten' \subseteq ResIds
      BY <1>2, <2>1 DEF OrderCommits, TypeOK
    <2>9. req' \in [Handlers -> {Idle} \cup ReserveRequest \cup RowRequest \cup ReleaseRequest]
      BY <1>0, <1>2, ReplyType DEF OrderCommits
    <2> QED
      BY <1>2, <2>5, <2>7, <2>8, <2>9 DEF OrderCommits, TypeOK
  <1>3. CASE ConfirmCommits(h)
    <2> DEFINE r == req[h].res
    <2>1. r \in ResIds
      BY <1>0, <1>3, RequestFields DEF ConfirmCommits
    <2>2. order[r] \in Order /\ order[r].tickets + res[r].qty \in Nat
      BY <2>1, SeatUsageAssumption DEF TypeOK, Reservation, Order
    <2>3. [order[r] EXCEPT !.status = "paid", !.tickets = @ + res[r].qty] \in Order
      BY <2>2 DEF Order
    <2>4. order' \in [ResIds -> Order]
      BY <1>3, <2>2 DEF ConfirmCommits, TypeOK, Order
    <2>5. req' \in [Handlers -> {Idle} \cup ReserveRequest \cup RowRequest \cup ReleaseRequest]
      BY <1>0, <1>3, ReplyType DEF ConfirmCommits
    <2> QED
      BY <1>3, <2>4, <2>5 DEF ConfirmCommits, TypeOK
  <1> QED
    BY <1>1, <1>2, <1>3 DEF Ordering

LEMMA NextType == TypeOK /\ [Next]_vars => TypeOK'
  <1> SUFFICES ASSUME TypeOK, [Next]_vars PROVE TypeOK'
    OBVIOUS
  <1>1. ASSUME NEW r \in ResIds, DeadlinePasses(r) PROVE TypeOK'
    <2>1. [res[r] EXCEPT !.due = TRUE] \in Reservation
      BY DEF TypeOK, Reservation
    <2>2. res' \in [ResIds -> Reservation]
      BY <1>1, <2>1 DEF DeadlinePasses, TypeOK
    <2> QED
      BY <1>1, <2>2 DEF DeadlinePasses, TypeOK
  <1>2. ASSUME NEW h \in Handlers, Dies(h) PROVE TypeOK'
    <2>1. req' \in [Handlers -> {Idle} \cup ReserveRequest \cup RowRequest \cup ReleaseRequest]
      BY <1>2, ReplyType DEF Dies, UnderWay
    <2> QED
      BY <1>2, <2>1 DEF Dies, TypeOK
  <1>3. CASE UNCHANGED vars
    BY <1>3 DEF vars, TypeOK
  <1> QED
    BY <1>1, <1>2, <1>3, RegisteringType, ReservingType, ReleasingType, OrderingType DEF Next

\* Every reachable state of the order flow is well typed, and sold_quantity
\* stays between zero and the capacity although two services write it.
THEOREM OrderFlowTypeCorrect == Spec => []TypeOK
  <1>1. Init => TypeOK
    BY InitType
  <1>2. TypeOK /\ [Next]_vars => TypeOK'
    BY NextType
  <1> QED
    BY <1>1, <1>2, PTL DEF Spec

-----------------------------------------------------------------------------
(* The seats of the orders *)

OrdersHaveRows == \A r \in ResIds : order[r].status # "none" => res[r].status # "absent"

PaidHasTickets == \A r \in ResIds : order[r].status = "paid" => order[r].tickets >= res[r].qty

ConfirmHasOrder == \A h \in Handlers : req[h].op = "confirm" => order[req[h].res].status # "none"

SoldCounts ==
    \A t \in Tiers : Occupied(reg, t) + UnitsOf(res, Orders \ uncounted, t) <= sold[t]

IInv == TypeOK /\ OrdersHaveRows /\ PaidHasTickets /\ ConfirmHasOrder /\ SoldCounts

LEMMA InitInv == Init => IInv
  <1> SUFFICES ASSUME Init PROVE IInv
    OBVIOUS
  <1>1. TypeOK
    BY InitType
  <1>2. OrdersHaveRows /\ PaidHasTickets /\ ConfirmHasOrder
    BY DEF Init, OrdersHaveRows, PaidHasTickets, ConfirmHasOrder, Idle
  <1>3. ASSUME NEW t \in Tiers
        PROVE  Occupied(reg, t) + UnitsOf(res, Orders \ uncounted, t) <= sold[t]
    <2>1. Orders \ uncounted = {}
      BY <1>2 DEF Init, Orders
    <2>2. UnitSet(res, Orders \ uncounted, t) = {}
      BY <2>1 DEF UnitSet
    <2>3. SeatUnits(reg, RegIds, ACTIVE_REGISTRATION_STATUSES, t) = {}
      BY DEF Init, SeatUnits, ACTIVE_REGISTRATION_STATUSES
    <2>4. Issued[t] \in Nat /\ sold[t] = Issued[t]
      BY SeatUsageAssumption DEF Init
    <2> QED
      BY <2>2, <2>3, <2>4, FS_EmptySet DEF Occupied, Seats, UnitsOf
  <1> QED
    BY <1>1, <1>2, <1>3 DEF IInv, SoldCounts

\* A step that leaves the registrations, sold_quantity and the orders alone, and
\* the tier and quantity of every ordered reservation.
LEMMA RestKeeps ==
    ASSUME IInv, TypeOK', UNCHANGED <<reg, sold, order, uncounted>>,
           \A r \in ResIds : order[r].status # "none" =>
               /\ res'[r].tier = res[r].tier /\ res'[r].qty = res[r].qty
               /\ res'[r].status # "absent",
           \A h \in Handlers : req'[h].op = "confirm" => order[req'[h].res].status # "none"
    PROVE  IInv'
  <1>1. OrdersHaveRows' /\ PaidHasTickets' /\ ConfirmHasOrder'
    BY DEF IInv, OrdersHaveRows, PaidHasTickets, ConfirmHasOrder
  <1>2. ASSUME NEW t \in Tiers
        PROVE  (Occupied(reg, t) + UnitsOf(res, Orders \ uncounted, t) <= sold[t])'
    <2> DEFINE ids == Orders \ uncounted
    <2>1. ids \in SUBSET ResIds /\ ids' = ids
      BY DEF Orders
    <2>2. \A r \in ids : res'[r].tier = res[r].tier /\ res'[r].qty = res[r].qty
      BY DEF Orders
    <2> HIDE DEF ids
    <2>3. UnitsOf(res', ids, t) <= UnitsOf(res, ids, t)
      BY <2>1, <2>2, UnitsGrow
    <2>4. /\ UnitsOf(res', ids, t) \in Nat /\ UnitsOf(res, ids, t) \in Nat
          /\ Occupied(reg, t) \in Nat /\ sold[t] \in Nat
      BY <2>1, UnitsFinite, OccupiedType DEF IInv, TypeOK
    <2>5. Occupied(reg, t) + UnitsOf(res, ids, t) <= sold[t]
      BY DEF IInv, SoldCounts, ids
    <2>6. Occupied(reg, t) + UnitsOf(res', ids, t) <= sold[t]
      BY <2>3, <2>4, <2>5
    <2> QED
      BY <2>1, <2>6 DEF ids
  <1> QED
    BY <1>1, <1>2 DEF IInv, SoldCounts

\* After a checkout every counted order of the tier is paid, so it has tickets.
LEMMA PaidUnitsAreTickets ==
    ASSUME TypeOK, PaidHasTickets, NEW t \in Tiers, NEW ids \in SUBSET ResIds,
           \A r \in ids : res[r].tier = t => order[r].status = "paid"
    PROVE  UnitsOf(res, ids, t) <= Cardinality(TicketUnits(t))
  <1>1. ASSUME NEW r \in ids, NEW i \in 1 .. MaxPerOrder, res[r].tier = t, i <= res[r].qty
        PROVE  <<r, i>> \in TicketUnits(t)
    <2>1. /\ order[r].tickets \in Nat /\ res[r].qty \in Nat /\ i \in Nat /\ 1 <= i
      BY SeatUsageAssumption DEF TypeOK, Reservation, Order
    <2>2. order[r].tickets >= res[r].qty
      BY <1>1 DEF PaidHasTickets
    <2>3. i \in 1 .. order[r].tickets
      BY <1>1, <2>1, <2>2
    <2> QED
      BY <1>1, <2>3 DEF TicketUnits
  <1>2. UnitSet(res, ids, t) \subseteq TicketUnits(t)
    <2>1. \A u \in UnitSet(res, ids, t) :
             u = <<u[1], u[2]>> /\ u[1] \in ids /\ u[2] \in 1 .. MaxPerOrder
             /\ res[u[1]].tier = t /\ u[2] <= res[u[1]].qty
      BY DEF UnitSet
    <2> QED
      BY <1>1, <2>1
  <1> QED
    BY <1>2, TicketsFinite, FewerUnits DEF UnitsOf

LEMMA CheckoutInv ==
    ASSUME IInv, TypeOK', NEW i \in RegIds, NEW t \in Tiers, NEW n \in 1 .. MaxPerOrder,
           Checkout(i, t, n)
    PROVE  IInv'
  <1>1. /\ UNCHANGED <<res, order, req>>
        /\ reg' = [reg EXCEPT ![i] = [status |-> "pending_payment", tier |-> t, seats |-> n]]
        /\ sold' = [sold EXCEPT ![t] = InUse(t) + n]
        /\ uncounted' = uncounted \cup {r \in ResIds : res[r].tier = t /\ order[r].status = "pending"}
        /\ reg[i].status = "absent" /\ n \in Nat
    BY SeatUsageAssumption DEF Checkout
  <1>2. OrdersHaveRows' /\ PaidHasTickets' /\ ConfirmHasOrder'
    BY <1>1 DEF IInv, OrdersHaveRows, PaidHasTickets, ConfirmHasOrder
  <1>3. ASSUME NEW u \in Tiers
        PROVE  (Occupied(reg, u) + UnitsOf(res, Orders \ uncounted, u) <= sold[u])'
    <2> DEFINE ids == Orders \ uncounted
               now == Orders \ uncounted'
    <2>1. /\ ids \in SUBSET ResIds /\ now \in SUBSET ResIds /\ now \subseteq ids
          /\ ids' = now
      BY <1>1 DEF Orders
    <2>2. /\ Occupied(reg', u) <= Occupied(reg, u) + n
          /\ t # u => Occupied(reg', u) <= Occupied(reg, u)
      <3> DEFINE row == [status |-> "pending_payment", tier |-> t, seats |-> n]
      <3>1. row.seats = n /\ row.tier = t /\ reg' = [reg EXCEPT ![i] = row]
        BY <1>1
      <3> HIDE DEF row, ids, now
      <3>2. row.seats \in Nat
        BY <1>1, <3>1
      <3>3. /\ Occupied(reg', u) <= Occupied(reg, u) + row.seats
            /\ row.tier # u => Occupied(reg', u) <= Occupied(reg, u)
        BY <1>1, <3>1, <3>2, NewRowCounts
      <3> QED
        BY <3>1, <3>3
    <2>3. /\ Occupied(reg', u) \in Nat /\ Occupied(reg, u) \in Nat
          /\ UnitsOf(res, now, u) \in Nat /\ UnitsOf(res, ids, u) \in Nat
          /\ sold[u] \in Nat
      BY <2>1, OccupiedType, UnitsFinite DEF IInv, TypeOK
    <2>4. CASE u = t
      <3>1. \A r \in now : res[r].tier = t => order[r].status = "paid"
        BY <1>1 DEF Orders, IInv, TypeOK, Order
      <3>2. UnitsOf(res, now, t) <= Cardinality(TicketUnits(t))
        BY <2>1, <3>1, PaidUnitsAreTickets DEF IInv
      <3>3. sold'[t] = Occupied(reg, t) + Cardinality(TicketUnits(t)) + n
        BY <1>1 DEF InUse, IInv, TypeOK
      <3>4. Cardinality(TicketUnits(t)) \in Nat
        BY TicketsFinite DEF IInv
      <3> HIDE DEF ids, now
      <3>5. Occupied(reg', t) + UnitsOf(res, now, t) <= sold'[t]
        BY <1>1, <2>2, <2>3, <2>4, <3>2, <3>3, <3>4
      <3> QED
        BY <1>1, <2>1, <2>4, <3>5 DEF ids
    <2>5. CASE u # t
      <3>1. sold'[u] = sold[u]
        BY <1>1, <2>5 DEF IInv, TypeOK
      <3>2. Occupied(reg, u) + UnitsOf(res, ids, u) <= sold[u]
        BY DEF IInv, SoldCounts
      <3>3. UnitsOf(res, now, u) <= UnitsOf(res, ids, u)
        <4> HIDE DEF ids, now
        <4> QED
          BY <2>1, UnitsGrow
      <3> HIDE DEF ids, now
      <3>4. Occupied(reg', u) + UnitsOf(res, now, u) <= sold'[u]
        BY <2>2, <2>3, <2>5, <3>1, <3>2, <3>3
      <3> QED
        BY <1>1, <2>1, <3>4 DEF ids
    <2> QED
      BY <2>4, <2>5
  <1> QED
    BY <1>2, <1>3 DEF IInv, SoldCounts

LEMMA SeatsReturnInv ==
    ASSUME IInv, TypeOK', NEW i \in RegIds, SeatsReturn(i)
    PROVE  IInv'
  <1> DEFINE t == reg[i].tier  n == reg[i].seats
  <1>1. /\ UNCHANGED <<res, order, req, uncounted>>
        /\ reg[i].status = "pending_payment"
        /\ reg' = [reg EXCEPT ![i].status = "cancelled"]
        /\ sold' = [sold EXCEPT ![t] = IF @ > n THEN @ - n ELSE 0]
    BY DEF SeatsReturn
  <1>2. reg \in [RegIds -> Row] /\ t \in Tiers /\ n \in 1 .. MaxPerOrder /\ n \in Nat
    BY SeatUsageAssumption DEF IInv, TypeOK, Row
  <1>3. OrdersHaveRows' /\ PaidHasTickets' /\ ConfirmHasOrder'
    BY <1>1 DEF IInv, OrdersHaveRows, PaidHasTickets, ConfirmHasOrder
  <1>4. ASSUME NEW u \in Tiers
        PROVE  (Occupied(reg, u) + UnitsOf(res, Orders \ uncounted, u) <= sold[u])'
    <2> DEFINE ids == Orders \ uncounted
    <2>1. ids \in SUBSET ResIds /\ ids' = ids
      BY <1>1 DEF Orders
    <2>2. /\ Occupied(reg', u) \in Nat /\ Occupied(reg, u) \in Nat
          /\ UnitsOf(res, ids, u) \in Nat /\ sold[u] \in Nat
      BY <2>1, OccupiedType, UnitsFinite DEF IInv, TypeOK
    <2>3. Occupied(reg, u) + UnitsOf(res, ids, u) <= sold[u]
      BY DEF IInv, SoldCounts
    <2>4. CASE u = t
      <3>1. reg[i].tier = t /\ reg[i].seats = n
        OBVIOUS
      <3> HIDE DEF ids, t, n
      <3>2. Occupied(reg', t) + n <= Occupied(reg, t)
        BY <1>1, <1>2, <3>1, RowCounts
      <3>3. sold'[t] = IF sold[t] > n THEN sold[t] - n ELSE 0
        BY <1>1, <1>2 DEF IInv, TypeOK
      <3>4. Occupied(reg', t) + UnitsOf(res, ids, t) <= sold'[t]
        BY <1>2, <2>2, <2>3, <2>4, <3>2, <3>3
      <3> QED
        BY <1>1, <2>1, <2>4, <3>4 DEF ids
    <2>5. CASE u # t
      <3>1. sold'[u] = sold[u]
        BY <1>1, <1>2, <2>5 DEF IInv, TypeOK
      <3>2. Occupied(reg', u) <= Occupied(reg, u)
        BY <1>1, <1>2, <2>5, OtherTiersKeep
      <3> HIDE DEF ids, t, n
      <3>3. Occupied(reg', u) + UnitsOf(res, ids, u) <= sold'[u]
        BY <2>2, <2>3, <3>1, <3>2
      <3> QED
        BY <1>1, <2>1, <3>3 DEF ids
    <2> QED
      BY <2>4, <2>5
  <1> QED
    BY <1>3, <1>4 DEF IInv, SoldCounts

LEMMA OrderCommitsInv ==
    ASSUME IInv, TypeOK', NEW h \in Handlers, OrderCommits(h)
    PROVE  IInv'
  <1> DEFINE r == req[h].res  n == res[r].qty
  <1>1. r \in ResIds
    <2>1. req[h] \in UnderWay
      BY DEF IInv, TypeOK, UnderWay
    <2> QED
      BY <2>1, RequestFields DEF OrderCommits
  <1>2. /\ UNCHANGED <<reg, uncounted>>
        /\ order[r].status = "none"
        /\ sold' = [sold EXCEPT ![res[r].tier] = @ + n]
        /\ order' = [order EXCEPT ![r].status = "pending"]
        /\ res' = [res EXCEPT ![r].status = "converted"]
        /\ req' = [req EXCEPT ![h] = Idle]
    BY DEF OrderCommits, Converted, Reply
  <1>3. /\ res[r].tier \in Tiers /\ n \in Nat
        /\ \A p \in ResIds : res'[p].tier = res[p].tier /\ res'[p].qty = res[p].qty
        /\ order'[r].status = "pending"
        /\ \A p \in ResIds \ {r} : order'[p] = order[p] /\ res'[p] = res[p]
    BY <1>1, <1>2, SeatUsageAssumption DEF IInv, TypeOK, Reservation, Order
  <1>4. OrdersHaveRows' /\ PaidHasTickets'
    BY <1>1, <1>2, <1>3 DEF IInv, OrdersHaveRows, PaidHasTickets, TypeOK, Reservation
  <1>5. ConfirmHasOrder'
    <2> SUFFICES ASSUME NEW g \in Handlers, req'[g].op = "confirm"
                 PROVE  order'[req'[g].res].status # "none"
      BY DEF ConfirmHasOrder
    <2>1. req'[g] = req[g]
      BY <1>2 DEF IInv, TypeOK, Idle
    <2>2. req[g].res \in ResIds /\ order[req[g].res].status # "none"
      <3>1. req[g] \in UnderWay
        BY DEF IInv, TypeOK, UnderWay
      <3> QED
        BY <2>1, <3>1, RequestFields DEF IInv, ConfirmHasOrder
    <2> QED
      BY <1>3, <2>1, <2>2
  <1>6. ASSUME NEW u \in Tiers
        PROVE  (Occupied(reg, u) + UnitsOf(res, Orders \ uncounted, u) <= sold[u])'
    <2> DEFINE ids == Orders \ uncounted
               now == Orders' \ uncounted
    <2>1. /\ ids \in SUBSET ResIds /\ now \in SUBSET ResIds /\ now \subseteq ids \cup {r}
          /\ ids' = now
      BY <1>1, <1>2, <1>3 DEF Orders
    <2>2. /\ Occupied(reg, u) \in Nat
          /\ UnitsOf(res', now, u) \in Nat /\ UnitsOf(res, ids, u) \in Nat
          /\ sold[u] \in Nat
      BY <2>1, OccupiedType, UnitsFinite DEF IInv, TypeOK
    <2>3. Occupied(reg, u) + UnitsOf(res, ids, u) <= sold[u]
      BY DEF IInv, SoldCounts
    <2> HIDE DEF ids, now
    <2>4. /\ UnitsOf(res', now, u) <= UnitsOf(res, ids, u) + n \/ res[r].tier # u
          /\ UnitsOf(res', now, u) <= UnitsOf(res, ids, u) \/ res[r].tier = u
      <3>1. res'[r].qty = n /\ res'[r].tier = res[r].tier
        BY <1>1, <1>3
      <3>2. \A p \in now : p \in ids => res'[p].tier = res[p].tier /\ res'[p].qty = res[p].qty
        BY <1>3, <2>1
      <3> HIDE DEF r, n
      <3> QED
        BY <1>1, <1>3, <2>1, <3>1, <3>2, UnitsGrow
    <2>5. sold'[u] = IF res[r].tier = u THEN sold[u] + n ELSE sold[u]
      BY <1>2, <1>3 DEF IInv, TypeOK
    <2> HIDE DEF r, n
    <2>6. Occupied(reg, u) + UnitsOf(res', now, u) <= sold'[u]
      BY <1>3, <2>2, <2>3, <2>4, <2>5
    <2> QED
      BY <1>2, <2>1, <2>6 DEF ids
  <1> QED
    BY <1>4, <1>5, <1>6 DEF IInv, SoldCounts

LEMMA ConfirmCommitsInv ==
    ASSUME IInv, TypeOK', NEW h \in Handlers, ConfirmCommits(h)
    PROVE  IInv'
  <1> DEFINE r == req[h].res  n == res[r].qty
  <1>1. r \in ResIds /\ order[r].status # "none"
    <2>1. req[h] \in UnderWay
      BY DEF IInv, TypeOK, UnderWay
    <2> QED
      BY <2>1, RequestFields DEF ConfirmCommits, IInv, ConfirmHasOrder
  <1>2. /\ UNCHANGED <<reg, sold, res, uncounted>>
        /\ order' = [order EXCEPT ![r].status = "paid", ![r].tickets = @ + n]
        /\ req' = [req EXCEPT ![h] = Idle]
    BY DEF ConfirmCommits, Reply
  <1>3. /\ order[r].tickets \in Nat /\ n \in Nat
        /\ order'[r].status = "paid" /\ order'[r].tickets = order[r].tickets + n
        /\ \A p \in ResIds \ {r} : order'[p] = order[p]
    BY <1>1, <1>2, SeatUsageAssumption DEF IInv, TypeOK, Reservation, Order
  <1>4. \A p \in ResIds : order'[p].status = "none" <=> order[p].status = "none"
    BY <1>1, <1>3
  <1>5. OrdersHaveRows' /\ PaidHasTickets'
    <2>1. OrdersHaveRows'
      BY <1>2, <1>4 DEF IInv, OrdersHaveRows
    <2>2. res' = res /\ n = res[r].qty
      BY <1>2
    <2> HIDE DEF r, n
    <2>3. order'[r].tickets >= res'[r].qty
      BY <1>3, <2>2
    <2>4. \A p \in ResIds \ {r} : order'[p].status = "paid" => order'[p].tickets >= res'[p].qty
      BY <1>3, <2>2 DEF IInv, PaidHasTickets
    <2> QED
      BY <2>1, <2>3, <2>4 DEF PaidHasTickets
  <1>6. ConfirmHasOrder'
    <2> SUFFICES ASSUME NEW g \in Handlers, req'[g].op = "confirm"
                 PROVE  order'[req'[g].res].status # "none"
      BY DEF ConfirmHasOrder
    <2>1. req'[g] = req[g]
      BY <1>2 DEF IInv, TypeOK, Idle
    <2>2. req[g].res \in ResIds /\ order[req[g].res].status # "none"
      <3>1. req[g] \in UnderWay
        BY DEF IInv, TypeOK, UnderWay
      <3> QED
        BY <2>1, <3>1, RequestFields DEF IInv, ConfirmHasOrder
    <2> QED
      BY <1>4, <2>1, <2>2
  <1>7. SoldCounts'
    <2>1. Orders' = Orders
      BY <1>4 DEF Orders
    <2> QED
      BY <1>2, <2>1 DEF IInv, SoldCounts
  <1> QED
    BY <1>5, <1>6, <1>7 DEF IInv

LEMMA HandlerInv ==
    ASSUME IInv, TypeOK', NEW h \in Handlers, Reserving(h) \/ Releasing(h) \/ Ordering(h) \/ Dies(h)
    PROVE  IInv'
  <1>1. \A g \in Handlers : req[g].op = "confirm" => order[req[g].res].status # "none"
    BY DEF IInv, ConfirmHasOrder
  <1>2. \A r \in ResIds : order[r].status # "none" => res[r].status # "absent"
    BY DEF IInv, OrdersHaveRows
  <1>3. ASSUME NEW q, q.op # "confirm" \/ order[q.res].status # "none", Reply(h, q)
        PROVE  \A g \in Handlers : req'[g].op = "confirm" => order[req'[g].res].status # "none"
    BY <1>1, <1>3 DEF Reply, IInv, TypeOK
  <1>4. Idle.op # "confirm"
    BY DEF Idle
  <1>5. ASSUME UNCHANGED <<reg, sold, res, order, uncounted>>,
               NEW q, q.op # "confirm" \/ order[q.res].status # "none", Reply(h, q)
        PROVE  IInv'
    <2>1. \A g \in Handlers : req'[g].op = "confirm" => order[req'[g].res].status # "none"
      BY <1>3, <1>5
    <2> QED
      BY <1>2, <1>5, <2>1, RestKeeps
  <1>6. ASSUME NEW ids, NEW status, status # "absent", Ends(h, ids, status)
        PROVE  IInv'
    <2>1. \A r \in ResIds : order[r].status # "none" =>
             res'[r].tier = res[r].tier /\ res'[r].qty = res[r].qty /\ res'[r].status # "absent"
      BY <1>2, <1>6 DEF Ends, Ended, IInv, TypeOK, Reservation
    <2>2. \A g \in Handlers : req'[g].op = "confirm" => order[req'[g].res].status # "none"
      BY <1>3, <1>6 DEF Ends
    <2> QED
      BY <1>6, <2>1, <2>2, RestKeeps DEF Ends
  <1>7. CASE Reserving(h)
    <2>1. ASSUME NEW u \in Users, NEW t \in Tiers, NEW q \in 1 .. MaxPerOrder, NEW k \in Keys,
                 ReserveChecks(h, u, t, q, k)
          PROVE  IInv'
      BY <1>5, <2>1 DEF ReserveChecks
    <2>2. CASE ReserveTakes(h) \/ ReserveFails(h)
      <3>1. req[h].op # "confirm" /\ req[h] \in ReserveRequest
        <4>1. req[h] \in UnderWay
          BY DEF IInv, TypeOK, UnderWay
        <4> QED
          BY <2>2, <4>1, RequestFields DEF ReserveTakes, ReserveFails
      <3>2. PICK op \in {"give_back", "taken"} : Reply(h, [req[h] EXCEPT !.op = op])
        BY <2>2 DEF ReserveTakes, ReserveFails
      <3>3. [req[h] EXCEPT !.op = op].op # "confirm"
        BY <3>1 DEF ReserveRequest
      <3>4. UNCHANGED <<reg, sold, res, order, uncounted>>
        BY <2>2 DEF ReserveTakes, ReserveFails
      <3> QED
        BY <1>5, <3>2, <3>3, <3>4
    <2>3. CASE GivesBack(h)
      BY <1>4, <1>5, <2>3 DEF GivesBack
    <2>4. ASSUME NEW r \in ResIds, ReserveInserts(h, r)
          PROVE  IInv'
      <3>1. order[r].status = "none"
        BY <1>2, <2>4 DEF ReserveInserts
      <3>2. \A p \in ResIds \ {r} : res'[p] = res[p]
        BY <2>4 DEF ReserveInserts, IInv, TypeOK
      <3>3. \A g \in Handlers : req'[g].op = "confirm" => order[req'[g].res].status # "none"
        BY <1>3, <1>4, <2>4 DEF ReserveInserts
      <3>4. \A p \in ResIds : order[p].status # "none" =>
               res'[p].tier = res[p].tier /\ res'[p].qty = res[p].qty /\ res'[p].status # "absent"
        BY <1>2, <3>1, <3>2
      <3> QED
        BY <2>4, <3>3, <3>4, RestKeeps DEF ReserveInserts
    <2> QED
      BY <1>7, <2>1, <2>2, <2>3, <2>4 DEF Reserving
  <1>8. CASE Releasing(h)
    <2>1. ASSUME NEW r \in ResIds, CancelReads(h, r)
          PROVE  IInv'
      BY <1>5, <2>1 DEF CancelReads
    <2>2. CASE ExpiryReads(h)
      BY <1>5, <2>2 DEF ExpiryReads
    <2>3. CASE CancelWrites(h)
      BY <1>6, <2>3 DEF CancelWrites
    <2>4. CASE ExpiryWrites(h)
      BY <1>6, <2>4 DEF ExpiryWrites
    <2>5. CASE Returns(h)
      BY <1>4, <1>5, <2>5 DEF Returns
    <2> QED
      BY <1>8, <2>1, <2>2, <2>3, <2>4, <2>5 DEF Releasing
  <1>9. CASE Ordering(h)
    <2>1. ASSUME NEW r \in ResIds, OrderReads(h, r)
          PROVE  IInv'
      BY <1>5, <2>1 DEF OrderReads
    <2>2. ASSUME NEW r \in ResIds, ConfirmReads(h, r)
          PROVE  IInv'
      <3>1. order[r].status # "none"
        BY <2>2 DEF ConfirmReads
      <3> QED
        BY <1>5, <2>2, <3>1 DEF ConfirmReads
    <2> QED
      BY <1>9, <2>1, <2>2, OrderCommitsInv, ConfirmCommitsInv DEF Ordering
  <1>10. CASE Dies(h)
    BY <1>4, <1>5, <1>10 DEF Dies
  <1> QED
    BY <1>7, <1>8, <1>9, <1>10

LEMMA NextInv == IInv /\ [Next]_vars => IInv'
  <1> SUFFICES ASSUME IInv, [Next]_vars PROVE IInv'
    OBVIOUS
  <1>1. TypeOK'
    BY NextType DEF IInv
  <1>2. ASSUME NEW r \in ResIds, DeadlinePasses(r) PROVE IInv'
    <2>1. \A p \in ResIds : res'[p].tier = res[p].tier /\ res'[p].qty = res[p].qty
                            /\ res'[p].status = res[p].status
      BY <1>2 DEF DeadlinePasses, IInv, TypeOK, Reservation
    <2> QED
      BY <1>1, <1>2, <2>1, RestKeeps DEF DeadlinePasses, IInv, OrdersHaveRows, ConfirmHasOrder
  <1>3. CASE UNCHANGED vars
    BY <1>1, <1>3, RestKeeps DEF vars, IInv, OrdersHaveRows, ConfirmHasOrder
  <1>4. CASE Registering
    BY <1>1, <1>4, CheckoutInv, SeatsReturnInv DEF Registering
  <1> QED
    BY <1>1, <1>2, <1>3, <1>4, HandlerInv DEF Next

\* However Redis and the requests that act on old rows disagree, the seats of
\* the registrations and of the orders that sold_quantity still counts fit the
\* tier: the order's transaction and checkout lock the same row.
THEOREM CountedOrdersAlwaysFit == Spec => []CountedOrdersFit
  <1>1. Init => IInv
    BY InitInv
  <1>2. IInv /\ [Next]_vars => IInv'
    BY NextInv
  <1>3. IInv => CountedOrdersFit
    <2> SUFFICES ASSUME IInv, NEW t \in Tiers
                 PROVE  Occupied(reg, t) + Units(Orders \ uncounted, t) <= Capacity[t]
      BY DEF CountedOrdersFit
    <2> DEFINE ids == Orders \ uncounted
    <2>1. Units(ids, t) = UnitsOf(res, ids, t) /\ ids \in SUBSET ResIds
      BY UnitsAre DEF Orders
    <2>2. /\ Occupied(reg, t) \in Nat /\ UnitsOf(res, ids, t) \in Nat
          /\ sold[t] \in Nat /\ sold[t] <= Capacity[t] /\ Capacity[t] \in Nat
      BY <2>1, OccupiedType, UnitsFinite, OrderFlowAssumption DEF IInv, TypeOK
    <2>3. Occupied(reg, t) + UnitsOf(res, ids, t) <= sold[t]
      BY DEF IInv, SoldCounts
    <2> HIDE DEF ids
    <2>4. Occupied(reg, t) + Units(ids, t) <= Capacity[t]
      BY <2>1, <2>2, <2>3
    <2> QED
      BY <2>4 DEF ids
  <1> QED
    BY <1>1, <1>2, <1>3, PTL DEF Spec

-----------------------------------------------------------------------------
(* Orders and reservations *)

LEMMA NextAgrees == TypeOK /\ ConvertedIffOrdered /\ IInv /\ [Next]_vars => ConvertedIffOrdered'
  <1> SUFFICES ASSUME TypeOK, ConvertedIffOrdered, IInv, [Next]_vars
               PROVE  ConvertedIffOrdered'
    OBVIOUS
  <1> USE DEF ConvertedIffOrdered, Orders
  <1>1. ASSUME UNCHANGED <<res, order, overwritten>>
        PROVE  ConvertedIffOrdered'
    BY <1>1
  <1>2. ASSUME NEW h, NEW ids, NEW status \in {"released", "expired"}, Ends(h, ids, status)
        PROVE  ConvertedIffOrdered'
    BY <1>2 DEF Ends, Ended, TypeOK
  <1>3. ASSUME NEW r \in ResIds, DeadlinePasses(r)
        PROVE  ConvertedIffOrdered'
    BY <1>3 DEF DeadlinePasses, TypeOK
  <1>4. ASSUME NEW h \in Handlers, NEW r \in ResIds, ReserveInserts(h, r)
        PROVE  ConvertedIffOrdered'
    BY <1>4 DEF ReserveInserts, TypeOK, IInv, OrdersHaveRows
  <1>5. ASSUME NEW h \in Handlers, OrderCommits(h)
        PROVE  ConvertedIffOrdered'
    <2>1. req[h].res \in ResIds
      <3>1. req[h] \in UnderWay
        BY DEF TypeOK, UnderWay
      <3> QED
        BY <1>5, <3>1, RequestFields DEF OrderCommits
    <2> QED
      BY <1>5, <2>1 DEF OrderCommits, Converted, TypeOK, Reservation, Order
  <1>6. ASSUME NEW h \in Handlers, ConfirmCommits(h)
        PROVE  ConvertedIffOrdered'
    <2>1. req[h].res \in ResIds /\ order[req[h].res].status # "none"
      <3>1. req[h] \in UnderWay
        BY DEF TypeOK, UnderWay
      <3> QED
        BY <1>6, <3>1, RequestFields DEF ConfirmCommits, IInv, ConfirmHasOrder
    <2> QED
      BY <1>6, <2>1 DEF ConfirmCommits, TypeOK, Order
  <1>7. CASE Registering
    BY <1>1, <1>7 DEF Registering, Checkout, SeatsReturn
  <1>8. ASSUME NEW h \in Handlers, Reserving(h)
        PROVE  ConvertedIffOrdered'
    BY <1>1, <1>4, <1>8
       DEF Reserving, ReserveChecks, ReserveTakes, ReserveFails, GivesBack
  <1>9. ASSUME NEW h \in Handlers, Releasing(h)
        PROVE  ConvertedIffOrdered'
    BY <1>1, <1>2, <1>9
       DEF Releasing, CancelReads, ExpiryReads, CancelWrites, ExpiryWrites, Returns
  <1>10. ASSUME NEW h \in Handlers, Ordering(h)
         PROVE  ConvertedIffOrdered'
    BY <1>1, <1>5, <1>6, <1>10 DEF Ordering, OrderReads, ConfirmReads
  <1>11. ASSUME NEW h \in Handlers, Dies(h)
         PROVE  ConvertedIffOrdered'
    BY <1>1, <1>11 DEF Dies
  <1>12. CASE UNCHANGED vars
    BY <1>1, <1>12 DEF vars
  <1> QED
    BY <1>3, <1>7, <1>8, <1>9, <1>10, <1>11, <1>12 DEF Next

\* A reservation is converted exactly if it has an order, except where a
\* handler that read the row earlier wrote over its final status: the expiry
\* job and the cancellation are the only ways an order loses its reservation.
THEOREM OrdersMatchReservations == Spec => []ConvertedIffOrdered
  <1>1. Init => IInv /\ ConvertedIffOrdered
    <2>1. Init => ConvertedIffOrdered
      BY DEF Init, ConvertedIffOrdered, Orders
    <2> QED
      BY <2>1, InitInv
  <1>2. IInv /\ ConvertedIffOrdered /\ [Next]_vars => (IInv /\ ConvertedIffOrdered)'
    BY NextInv, NextAgrees DEF IInv
  <1> QED
    BY <1>1, <1>2, PTL DEF Spec

-----------------------------------------------------------------------------
(* The units between Redis and the database *)

\* What every handler has of a set of units D, as pairs of handler and unit.
Shares(D, c) == {x \in Handlers \X D : x[2] \in c[x[1]]}

\* Before and after, all shares are of D and only that of h differs.
OnlyOneDiffers(D, c, d, h) ==
    /\ \A g \in Handlers : c[g] \subseteq D /\ d[g] \subseteq D
    /\ \A g \in Handlers : g # h => d[g] = c[g]

\* Only one handler's share changes: the whole changes by as much.
LEMMA OneShareChanges ==
    ASSUME NEW D, IsFiniteSet(D), NEW c, NEW d, NEW h \in Handlers, OnlyOneDiffers(D, c, d, h)
    PROVE  /\ IsFiniteSet(Shares(D, c)) /\ IsFiniteSet(c[h]) /\ IsFiniteSet(d[h])
           /\ Cardinality(Shares(D, d)) + Cardinality(c[h])
                = Cardinality(Shares(D, c)) + Cardinality(d[h])
  <1> DEFINE rest == {x \in Handlers \X D : x[1] # h /\ x[2] \in c[x[1]]}
  <1>1. IsFiniteSet(Handlers \X D)
    BY OrderFlowAssumption, FS_Product
  <1>2. IsFiniteSet(rest) /\ Cardinality(rest) \in Nat
    <2>1. rest \subseteq Handlers \X D
      OBVIOUS
    <2> QED
      BY <1>1, <2>1, FS_Subset, FS_CardinalityType
  <1>3. ASSUME NEW e, e[h] \subseteq D, Shares(D, e) = rest \cup ({h} \X e[h])
        PROVE  /\ IsFiniteSet(e[h]) /\ Cardinality(e[h]) \in Nat
               /\ IsFiniteSet(Shares(D, e))
               /\ Cardinality(Shares(D, e)) = Cardinality(rest) + Cardinality(e[h])
    <2>1. IsFiniteSet(e[h]) /\ Cardinality(e[h]) \in Nat
      BY <1>3, FS_Subset, FS_CardinalityType
    <2>2. IsFiniteSet({h}) /\ Cardinality({h}) = 1
      BY FS_Singleton
    <2>3. IsFiniteSet({h} \X e[h]) /\ Cardinality({h} \X e[h]) = 1 * Cardinality(e[h])
      BY <2>1, <2>2, FS_Product
    <2>4. rest \cap ({h} \X e[h]) = {}
      OBVIOUS
    <2> HIDE DEF rest
    <2>5. /\ IsFiniteSet(rest \cup ({h} \X e[h]))
          /\ Cardinality(rest \cup ({h} \X e[h]))
               = Cardinality(rest) + Cardinality({h} \X e[h]) - Cardinality(rest \cap ({h} \X e[h]))
      BY <1>2, <2>3, FS_Union
    <2>6. Cardinality(rest \cap ({h} \X e[h])) = 0
      BY <2>4, FS_EmptySet
    <2> QED
      BY <1>2, <1>3, <2>1, <2>3, <2>5, <2>6
  <1>4. Shares(D, c) = rest \cup ({h} \X c[h])
    <2>1. \A g \in Handlers : c[g] \subseteq D
      BY DEF OnlyOneDiffers
    <2> QED
      BY <2>1 DEF Shares
  <1>5. Shares(D, d) = rest \cup ({h} \X d[h])
    BY DEF Shares, OnlyOneDiffers
  <1> HIDE DEF rest
  <1>6. /\ IsFiniteSet(c[h]) /\ Cardinality(c[h]) \in Nat /\ IsFiniteSet(Shares(D, c))
        /\ Cardinality(Shares(D, c)) = Cardinality(rest) + Cardinality(c[h])
    BY <1>3, <1>4 DEF OnlyOneDiffers
  <1>7. /\ IsFiniteSet(d[h]) /\ Cardinality(d[h]) \in Nat
        /\ Cardinality(Shares(D, d)) = Cardinality(rest) + Cardinality(d[h])
    BY <1>3, <1>5 DEF OnlyOneDiffers
  <1> QED
    BY <1>2, <1>6, <1>7

Seat == 1 .. MaxPerOrder

ReturningOf(rows, q, t) == IF q.op = "return" THEN UnitSet(rows, q.listed, t) ELSE {}

TakenShares(reqs, t) == [g \in Handlers |-> Taken(reqs[g], t)]

ReturningShares(reqs, rows, t) == [g \in Handlers |-> ReturningOf(rows, reqs[g], t)]

TakenTotal(reqs, t) == Cardinality(Shares(Seat, TakenShares(reqs, t)))

ReturningTotal(reqs, rows, t) ==
    Cardinality(Shares(ResIds \X Seat, ReturningShares(reqs, rows, t)))

\* The reservations that hold units.
Holding(rows) == {r \in ResIds : rows[r].status \in {"active", "converted"}}

LEMMA AvailableIs ==
    ASSUME NEW t
    PROVE  /\ Available(t) = avail[t] + (TakenTotal(req, t) + ReturningTotal(req, res, t))
                                + UnitsOf(res, Holding(res), t)
           /\ Available(t)' = avail'[t] + (TakenTotal(req', t) + ReturningTotal(req', res', t))
                                + UnitsOf(res', Holding(res'), t)
  <1>1. InFlight(t) = TakenTotal(req, t) + ReturningTotal(req, res, t)
    <2>1. {x \in Handlers \X (1 .. MaxPerOrder) : x[2] \in Taken(req[x[1]], t)}
            = Shares(Seat, TakenShares(req, t))
      BY DEF Shares, TakenShares, Seat
    <2>2. {x \in Handlers \X (ResIds \X (1 .. MaxPerOrder)) : x[2] \in Returning(req[x[1]], t)}
            = Shares(ResIds \X Seat, ReturningShares(req, res, t))
      BY DEF Shares, ReturningShares, ReturningOf, Returning, UnitSet, Seat
    <2> QED
      BY <2>1, <2>2 DEF InFlight, TakenTotal, ReturningTotal
  <1>2. InFlight(t)' = TakenTotal(req', t) + ReturningTotal(req', res', t)
    <2>1. {x \in Handlers \X (1 .. MaxPerOrder) : x[2] \in Taken(req'[x[1]], t)}
            = Shares(Seat, TakenShares(req', t))
      BY DEF Shares, TakenShares, Seat
    <2>2. {x \in Handlers \X (ResIds \X (1 .. MaxPerOrder)) : x[2] \in Returning(req[x[1]], t)'}
            = Shares(ResIds \X Seat, ReturningShares(req', res', t))
      BY DEF Shares, ReturningShares, ReturningOf, Returning, UnitSet, Seat
    <2> QED
      BY <2>1, <2>2 DEF InFlight, TakenTotal, ReturningTotal, Taken
  <1>3. Units(Holding(res), t) = UnitsOf(res, Holding(res), t)
    BY UnitsAre
  <1>4. Units(Holding(res), t)' = UnitsOf(res', Holding(res'), t)
    BY DEF Units, UnitsOf, UnitSet, Holding
  <1> QED
    BY <1>1, <1>2, <1>3, <1>4 DEF Available, Holding

LEMMA SharesTypes ==
    ASSUME NEW q \in UnderWay, NEW t
    PROVE  /\ Taken(q, t) \subseteq Seat
           /\ \A rows : ReturningOf(rows, q, t) \subseteq ResIds \X Seat
  <1>1. q.op \in {"taken", "give_back"} => q.qty \in 1 .. MaxPerOrder
    BY RequestFields
  <1>2. q.op \in {"taken", "give_back"} => 1 .. q.qty \subseteq Seat
    BY <1>1, SeatUsageAssumption DEF Seat
  <1>3. q.op = "return" => q.listed \subseteq ResIds
    BY RequestFields
  <1> QED
    BY <1>2, <1>3 DEF Taken, ReturningOf, UnitSet, Seat

\* One handler steps, and no reservation that is on its way back changes tier or
\* quantity: what is in flight changes by what that handler carries.
LEMMA FlightChanges ==
    ASSUME TypeOK, TypeOK', NEW h \in Handlers, NEW t,
           \A g \in Handlers : g # h => req'[g] = req[g],
           \A g \in Handlers : g # h /\ req[g].op = "return" =>
               \A r \in req[g].listed : res'[r].tier = res[r].tier /\ res'[r].qty = res[r].qty
    PROVE  /\ TakenTotal(req', t) + Cardinality(Taken(req[h], t))
                = TakenTotal(req, t) + Cardinality(Taken(req'[h], t))
           /\ ReturningTotal(req', res', t) + Cardinality(ReturningOf(res, req[h], t))
                = ReturningTotal(req, res, t) + Cardinality(ReturningOf(res', req'[h], t))
           /\ IsFiniteSet(Taken(req[h], t)) /\ IsFiniteSet(Taken(req'[h], t))
           /\ IsFiniteSet(ReturningOf(res, req[h], t))
           /\ IsFiniteSet(ReturningOf(res', req'[h], t))
           /\ TakenTotal(req, t) \in Nat /\ TakenTotal(req', t) \in Nat
           /\ ReturningTotal(req, res, t) \in Nat /\ ReturningTotal(req', res', t) \in Nat
  <1>1. \A g \in Handlers : req[g] \in UnderWay /\ req'[g] \in UnderWay
    BY DEF TypeOK, UnderWay
  <1>2. IsFiniteSet(Seat) /\ IsFiniteSet(ResIds \X Seat)
    <2>1. MaxRes \in Int /\ MaxPerOrder \in Int /\ 1 \in Int
      BY SeatUsageAssumption, OrderFlowAssumption
    <2>2. IsFiniteSet(ResIds) /\ IsFiniteSet(Seat)
      BY <2>1, FS_Interval DEF ResIds, Seat
    <2> QED
      BY <2>2, FS_Product
  <1> DEFINE c == TakenShares(req, t)  d == TakenShares(req', t)
             b == ReturningShares(req, res, t)  e == ReturningShares(req', res', t)
  <1>3. \A g \in Handlers : /\ c[g] \subseteq Seat /\ d[g] \subseteq Seat
                            /\ b[g] \subseteq ResIds \X Seat /\ e[g] \subseteq ResIds \X Seat
    BY <1>1, SharesTypes DEF TakenShares, ReturningShares
  <1>4. \A g \in Handlers : g # h => d[g] = c[g]
    BY DEF TakenShares
  <1>5. ASSUME NEW g \in Handlers, g # h
        PROVE  e[g] = b[g]
    <2>1. req'[g] = req[g]
      BY <1>5
    <2>2. req[g].op = "return" => UnitSet(res', req[g].listed, t) = UnitSet(res, req[g].listed, t)
      BY <1>5 DEF UnitSet
    <2> QED
      BY <2>1, <2>2 DEF ReturningShares, ReturningOf
  <1>6. /\ c[h] = Taken(req[h], t) /\ d[h] = Taken(req'[h], t)
        /\ b[h] = ReturningOf(res, req[h], t) /\ e[h] = ReturningOf(res', req'[h], t)
    BY DEF TakenShares, ReturningShares
  <1> HIDE DEF c, d, b, e
  <1>7. /\ IsFiniteSet(Shares(Seat, c)) /\ IsFiniteSet(c[h]) /\ IsFiniteSet(d[h])
        /\ Cardinality(Shares(Seat, d)) + Cardinality(c[h])
             = Cardinality(Shares(Seat, c)) + Cardinality(d[h])
    <2>1. OnlyOneDiffers(Seat, c, d, h)
      BY <1>3, <1>4 DEF OnlyOneDiffers
    <2> QED
      BY <1>2, <2>1, OneShareChanges
  <1>8. /\ IsFiniteSet(Shares(ResIds \X Seat, b)) /\ IsFiniteSet(b[h]) /\ IsFiniteSet(e[h])
        /\ Cardinality(Shares(ResIds \X Seat, e)) + Cardinality(b[h])
             = Cardinality(Shares(ResIds \X Seat, b)) + Cardinality(e[h])
    <2>1. OnlyOneDiffers(ResIds \X Seat, b, e, h)
      BY <1>3, <1>5 DEF OnlyOneDiffers
    <2> QED
      BY <1>2, <2>1, OneShareChanges
  <1>9. IsFiniteSet(Shares(Seat, d)) /\ IsFiniteSet(Shares(ResIds \X Seat, e))
    <2>1. IsFiniteSet(Handlers \X Seat) /\ IsFiniteSet(Handlers \X (ResIds \X Seat))
      BY <1>2, OrderFlowAssumption, FS_Product
    <2>2. /\ Shares(Seat, d) \subseteq Handlers \X Seat
          /\ Shares(ResIds \X Seat, e) \subseteq Handlers \X (ResIds \X Seat)
      BY DEF Shares
    <2> QED
      BY <2>1, <2>2, FS_Subset
  <1> QED
    BY <1>6, <1>7, <1>8, <1>9, FS_CardinalityType DEF TakenTotal, ReturningTotal, c, d, b, e

\* Reservations apart have their units apart.
LEMMA UnitsSplit ==
    ASSUME NEW rows, NEW A \in SUBSET ResIds, NEW B \in SUBSET ResIds, A \cap B = {}, NEW t
    PROVE  UnitsOf(rows, A \cup B, t) = UnitsOf(rows, A, t) + UnitsOf(rows, B, t)
  <1> DEFINE a == UnitSet(rows, A, t)
             b == UnitSet(rows, B, t)
  <1>1. UnitSet(rows, A \cup B, t) = a \cup b /\ a \cap b = {}
    BY DEF UnitSet
  <1>2. /\ IsFiniteSet(a) /\ UnitsOf(rows, A, t) = Cardinality(a) /\ Cardinality(a) \in Nat
        /\ IsFiniteSet(b) /\ UnitsOf(rows, B, t) = Cardinality(b) /\ Cardinality(b) \in Nat
    BY UnitsFinite DEF UnitsOf
  <1>3. UnitsOf(rows, A \cup B, t) = Cardinality(a \cup b)
    BY <1>1 DEF UnitsOf
  <1> HIDE DEF a, b
  <1>4. Cardinality(a \cup b) = Cardinality(a) + Cardinality(b) - Cardinality(a \cap b)
    BY <1>2, FS_Union
  <1>5. Cardinality(a \cap b) = 0
    BY <1>1, FS_EmptySet
  <1> QED
    BY <1>2, <1>3, <1>4, <1>5

\* Tier and quantity are all that counts.
SameUnits(rows, then, ids) ==
    \A r \in ids : then[r].tier = rows[r].tier /\ then[r].qty = rows[r].qty

LEMMA UnitsSame ==
    ASSUME NEW rows, NEW then, NEW ids, SameUnits(rows, then, ids), NEW t
    PROVE  UnitsOf(then, ids, t) = UnitsOf(rows, ids, t)
  <1>1. UnitSet(then, ids, t) = UnitSet(rows, ids, t)
    BY DEF UnitSet, SameUnits
  <1> QED
    BY <1>1 DEF UnitsOf

LEMMA UnitsOfOne ==
    ASSUME NEW rows, NEW r \in ResIds, rows[r].qty \in 1 .. MaxPerOrder, NEW t
    PROVE  UnitsOf(rows, {r}, t) = IF rows[r].tier = t THEN rows[r].qty ELSE 0
  <1>1. rows[r].qty \in Nat /\ rows[r].qty <= MaxPerOrder /\ MaxPerOrder \in Nat
    BY SeatUsageAssumption
  <1>2. CASE rows[r].tier = t
    <2>1. \A k \in Nat : k >= 1 /\ k <= rows[r].qty => k \in 1 .. MaxPerOrder
      BY <1>1
    <2>2. UnitSet(rows, {r}, t) = {r} \X (1 .. rows[r].qty)
      BY <1>1, <1>2, <2>1 DEF UnitSet
    <2> QED
      BY <1>1, <1>2, <2>2, RowUnits DEF UnitsOf
  <1>3. CASE rows[r].tier # t
    <2>1. UnitSet(rows, {r}, t) = {}
      BY <1>3 DEF UnitSet
    <2> QED
      BY <1>3, <2>1, FS_EmptySet DEF UnitsOf
  <1> QED
    BY <1>2, <1>3

\* What one request carries.
Carries(q, t) == IF q.op \in {"taken", "give_back"} /\ q.tier = t THEN q.qty ELSE 0

ReturnsUnits(rows, q, t) == IF q.op = "return" THEN UnitsOf(rows, q.listed, t) ELSE 0

LEMMA CarriedCount ==
    ASSUME NEW q \in UnderWay, NEW t, NEW rows
    PROVE  /\ Cardinality(Taken(q, t)) = Carries(q, t) /\ Carries(q, t) \in Nat
           /\ Cardinality(ReturningOf(rows, q, t)) = ReturnsUnits(rows, q, t)
           /\ ReturnsUnits(rows, q, t) \in Nat
  <1>1. Cardinality(Taken(q, t)) = Carries(q, t) /\ Carries(q, t) \in Nat
    <2>1. CASE q.op \in {"taken", "give_back"} /\ q.tier = t
      <3>1. q.qty \in Nat
        BY <2>1, RequestFields
      <3>2. Cardinality(1 .. q.qty) = q.qty
        BY <3>1, FS_Interval
      <3> QED
        BY <2>1, <3>1, <3>2 DEF Taken, Carries
    <2>2. CASE ~(q.op \in {"taken", "give_back"} /\ q.tier = t)
      BY <2>2, FS_EmptySet DEF Taken, Carries
    <2> QED
      BY <2>1, <2>2
  <1>2. /\ Cardinality(ReturningOf(rows, q, t)) = ReturnsUnits(rows, q, t)
        /\ ReturnsUnits(rows, q, t) \in Nat
    <2>1. CASE q.op = "return"
      <3>1. q.listed \in SUBSET ResIds
        BY <2>1, RequestFields
      <3> QED
        BY <2>1, <3>1, UnitsFinite DEF ReturningOf, ReturnsUnits, UnitsOf
    <2>2. CASE q.op # "return"
      BY <2>2, FS_EmptySet DEF ReturningOf, ReturnsUnits
    <2> QED
      BY <2>1, <2>2
  <1> QED
    BY <1>1, <1>2

\* Reservations on their way back have been inserted, as long as no final status
\* has been written over.
ReturnsOfRows ==
    overwritten = {} =>
        \A h \in Handlers : req[h].op = "return" =>
            \A r \in req[h].listed : res[r].status # "absent"

HeldBack(rows, t) == UnitsOf(rows, Holding(rows), t)

LEMMA NetChange ==
    ASSUME NEW a \in Int, NEW b \in Int, NEW v \in Int, NEW w \in Int, NEW c \in Int, NEW d \in Int,
           NEW r \in Int, NEW s \in Int, NEW x \in Int, NEW y \in Int,
           b - a = (w - v) + (d - c) + (s - r) + (y - x), (w + d) + (s + y) = (v + c) + (r + x)
    PROVE  b = a
  OBVIOUS

\* The book-keeping of one step of one handler.
LEMMA Ledger ==
    ASSUME TypeOK, TypeOK', ReturnsOfRows, overwritten = {}, NEW h \in Handlers, NEW t \in Tiers,
           \A g \in Handlers : g # h => req'[g] = req[g],
           \A r \in ResIds : res[r].status # "absent" =>
               res'[r].tier = res[r].tier /\ res'[r].qty = res[r].qty
    PROVE  /\ Available(t) \in Int /\ Available(t)' \in Int
           /\ Carries(req[h], t) \in Nat /\ Carries(req'[h], t) \in Nat
           /\ ReturnsUnits(res, req[h], t) \in Nat /\ ReturnsUnits(res', req'[h], t) \in Nat
           /\ HeldBack(res, t) \in Nat /\ HeldBack(res', t) \in Nat
           /\ Available(t)' - Available(t)
                = (avail'[t] - avail[t]) + (Carries(req'[h], t) - Carries(req[h], t))
                    + (ReturnsUnits(res', req'[h], t) - ReturnsUnits(res, req[h], t))
                    + (HeldBack(res', t) - HeldBack(res, t))
           /\ (avail'[t] + Carries(req'[h], t)) + (ReturnsUnits(res', req'[h], t) + HeldBack(res', t))
                = (avail[t] + Carries(req[h], t)) + (ReturnsUnits(res, req[h], t) + HeldBack(res, t))
              => Available(t)' = Available(t)
  <1>1. req[h] \in UnderWay /\ req'[h] \in UnderWay /\ avail[t] \in Int /\ avail'[t] \in Int
    BY DEF TypeOK, UnderWay
  <1>2. \A g \in Handlers : g # h /\ req[g].op = "return" =>
            \A r \in req[g].listed : res'[r].tier = res[r].tier /\ res'[r].qty = res[r].qty
    <2> SUFFICES ASSUME NEW g \in Handlers, req[g].op = "return", NEW r \in req[g].listed
                 PROVE  res'[r].tier = res[r].tier /\ res'[r].qty = res[r].qty
      OBVIOUS
    <2>1. req[g] \in UnderWay
      BY DEF TypeOK, UnderWay
    <2>2. r \in ResIds /\ res[r].status # "absent"
      BY <2>1, RequestFields DEF ReturnsOfRows
    <2> QED
      BY <2>2
  <1>3. HeldBack(res, t) \in Nat /\ HeldBack(res', t) \in Nat
    <2>1. Holding(res) \in SUBSET ResIds /\ Holding(res') \in SUBSET ResIds
      BY DEF Holding
    <2> QED
      BY <2>1, UnitsFinite DEF HeldBack
  <1>4. /\ TakenTotal(req', t) + Cardinality(Taken(req[h], t))
             = TakenTotal(req, t) + Cardinality(Taken(req'[h], t))
        /\ ReturningTotal(req', res', t) + Cardinality(ReturningOf(res, req[h], t))
             = ReturningTotal(req, res, t) + Cardinality(ReturningOf(res', req'[h], t))
        /\ TakenTotal(req, t) \in Nat /\ TakenTotal(req', t) \in Nat
        /\ ReturningTotal(req, res, t) \in Nat /\ ReturningTotal(req', res', t) \in Nat
    BY <1>2, FlightChanges
  <1>5. /\ Cardinality(Taken(req[h], t)) = Carries(req[h], t) /\ Carries(req[h], t) \in Nat
        /\ Cardinality(Taken(req'[h], t)) = Carries(req'[h], t) /\ Carries(req'[h], t) \in Nat
    BY <1>1, CarriedCount
  <1>6. /\ Cardinality(ReturningOf(res, req[h], t)) = ReturnsUnits(res, req[h], t)
        /\ Cardinality(ReturningOf(res', req'[h], t)) = ReturnsUnits(res', req'[h], t)
        /\ ReturnsUnits(res, req[h], t) \in Nat /\ ReturnsUnits(res', req'[h], t) \in Nat
    BY <1>1, CarriedCount
  <1>7. /\ Available(t) = avail[t] + (TakenTotal(req, t) + ReturningTotal(req, res, t))
                            + HeldBack(res, t)
        /\ Available(t)' = avail'[t] + (TakenTotal(req', t) + ReturningTotal(req', res', t))
                            + HeldBack(res', t)
    BY AvailableIs DEF HeldBack
  <1>8. /\ Available(t) \in Int /\ Available(t)' \in Int
        /\ Available(t)' - Available(t)
                = (avail'[t] - avail[t]) + (Carries(req'[h], t) - Carries(req[h], t))
                    + (ReturnsUnits(res', req'[h], t) - ReturnsUnits(res, req[h], t))
                    + (HeldBack(res', t) - HeldBack(res, t))
    BY <1>1, <1>3, <1>4, <1>5, <1>6, <1>7
  <1>9. ASSUME (avail'[t] + Carries(req'[h], t)) + (ReturnsUnits(res', req'[h], t) + HeldBack(res', t))
                 = (avail[t] + Carries(req[h], t)) + (ReturnsUnits(res, req[h], t) + HeldBack(res, t))
        PROVE  Available(t)' = Available(t)
    BY <1>1, <1>3, <1>5, <1>6, <1>8, <1>9, NetChange
  <1> QED
    BY <1>3, <1>5, <1>6, <1>8, <1>9

LEMMA ReplyIs ==
    ASSUME TypeOK, NEW h \in Handlers, NEW q, Reply(h, q)
    PROVE  req'[h] = q /\ \A g \in Handlers : g # h => req'[g] = req[g]
  BY DEF TypeOK, Reply

\* A step of a handler that carries nothing before or after it.
LEMMA NothingCarried ==
    ASSUME TypeOK, TypeOK', ReturnsOfRows, overwritten = {}, NEW h \in Handlers, NEW t \in Tiers,
           UNCHANGED avail, HeldBack(res', t) = HeldBack(res, t),
           \A g \in Handlers : g # h => req'[g] = req[g],
           \A r \in ResIds : res[r].status # "absent" =>
               res'[r].tier = res[r].tier /\ res'[r].qty = res[r].qty,
           req[h].op \notin {"taken", "give_back", "return"},
           req'[h].op \notin {"taken", "give_back", "return"}
    PROVE  Available(t)' = Available(t)
  <1>1. Carries(req[h], t) = 0 /\ Carries(req'[h], t) = 0
    BY DEF Carries
  <1>2. ReturnsUnits(res, req[h], t) = 0 /\ ReturnsUnits(res', req'[h], t) = 0
    BY DEF ReturnsUnits
  <1>3. /\ Available(t) \in Int /\ Available(t)' \in Int /\ HeldBack(res, t) \in Nat
        /\ Available(t)' - Available(t)
                = (avail'[t] - avail[t]) + (Carries(req'[h], t) - Carries(req[h], t))
                    + (ReturnsUnits(res', req'[h], t) - ReturnsUnits(res, req[h], t))
                    + (HeldBack(res', t) - HeldBack(res, t))
    BY Ledger
  <1>4. avail[t] \in Int
    BY DEF TypeOK
  <1> QED
    BY <1>1, <1>2, <1>3, <1>4

LEMMA ReservingBalance ==
    ASSUME TypeOK, TypeOK', ReturnsOfRows, overwritten = {}, NEW h \in Handlers, NEW t \in Tiers,
           Reserving(h)
    PROVE  Available(t)' = Available(t)
  <1>0. req[h] \in UnderWay /\ avail \in [Tiers -> Int]
    BY DEF TypeOK, UnderWay
  <1>1. ASSUME NEW u \in Users, NEW s \in Tiers, NEW n \in 1 .. MaxPerOrder, NEW k \in Keys,
               ReserveChecks(h, u, s, n, k)
        PROVE  Available(t)' = Available(t)
    <2> DEFINE q == [op |-> "reserve", tier |-> s, qty |-> n, user |-> u, key |-> k]
    <2>1. Reply(h, q) /\ req[h] = Idle /\ UNCHANGED <<avail, res>>
      BY <1>1 DEF ReserveChecks
    <2>2. q.op = "reserve"
      OBVIOUS
    <2> HIDE DEF q
    <2>3. req'[h] = q /\ \A g \in Handlers : g # h => req'[g] = req[g]
      BY <2>1, ReplyIs
    <2> QED
      BY <2>1, <2>2, <2>3, NothingCarried DEF Idle
  <1>2. CASE ReserveTakes(h)
    <2> DEFINE left == avail[req[h].tier] - req[h].qty
               q == [req[h] EXCEPT !.op = IF left < 0 THEN "give_back" ELSE "taken"]
    <2>1. req[h].op = "reserve" /\ UNCHANGED res /\ avail' = [avail EXCEPT ![req[h].tier] = left]
          /\ Reply(h, q)
      BY <1>2 DEF ReserveTakes
    <2>2. req[h] \in ReserveRequest /\ req[h].tier \in Tiers /\ req[h].qty \in Nat
      BY <1>0, <2>1, RequestFields
    <2>3. q.op \in {"taken", "give_back"} /\ q.tier = req[h].tier /\ q.qty = req[h].qty
      BY <2>2 DEF ReserveRequest
    <2> HIDE DEF q
    <2>4. req'[h] = q /\ \A g \in Handlers : g # h => req'[g] = req[g]
      BY <2>1, ReplyIs
    <2>5. /\ Carries(req[h], t) = 0 /\ ReturnsUnits(res, req[h], t) = 0
          /\ Carries(req'[h], t) = IF req[h].tier = t THEN req[h].qty ELSE 0
          /\ ReturnsUnits(res', req'[h], t) = 0
      BY <2>1, <2>3, <2>4 DEF Carries, ReturnsUnits
    <2>6. avail'[t] = IF req[h].tier = t THEN avail[t] - req[h].qty ELSE avail[t]
      BY <1>0, <2>1, <2>2
    <2>7. /\ Available(t) \in Int /\ Available(t)' \in Int /\ HeldBack(res, t) \in Nat
          /\ (avail'[t] + Carries(req'[h], t)) + (ReturnsUnits(res', req'[h], t) + HeldBack(res', t))
               = (avail[t] + Carries(req[h], t)) + (ReturnsUnits(res, req[h], t) + HeldBack(res, t))
             => Available(t)' = Available(t)
      BY <2>1, <2>4, Ledger
    <2>8. avail[t] \in Int
      BY <1>0
    <2>9. HeldBack(res', t) = HeldBack(res, t)
      BY <2>1
    <2> HIDE DEF left
    <2> DEFINE n == IF req[h].tier = t THEN req[h].qty ELSE 0
    <2>10. /\ n \in Int /\ Carries(req'[h], t) = n /\ avail'[t] = avail[t] - n
           /\ Carries(req[h], t) = 0
           /\ ReturnsUnits(res, req[h], t) = 0 /\ ReturnsUnits(res', req'[h], t) = 0
      BY <2>2, <2>5, <2>6, <2>8
    <2> HIDE DEF n
    <2> QED
      BY <2>7, <2>8, <2>9, <2>10
  <1>3. CASE ReserveFails(h)
    <2> DEFINE q == [req[h] EXCEPT !.op = "give_back"]
    <2>1. req[h].op = "taken" /\ UNCHANGED <<res, avail>> /\ Reply(h, q)
      BY <1>3 DEF ReserveFails
    <2>2. req[h] \in ReserveRequest
      BY <1>0, <2>1, RequestFields
    <2>3. q.op = "give_back" /\ q.tier = req[h].tier /\ q.qty = req[h].qty
      BY <2>2 DEF ReserveRequest
    <2> HIDE DEF q
    <2>4. req'[h] = q /\ \A g \in Handlers : g # h => req'[g] = req[g]
      BY <2>1, ReplyIs
    <2>5. /\ Carries(req'[h], t) = Carries(req[h], t)
          /\ ReturnsUnits(res, req[h], t) = 0 /\ ReturnsUnits(res', req'[h], t) = 0
      BY <2>1, <2>3, <2>4 DEF Carries, ReturnsUnits
    <2>6. /\ Available(t) \in Int /\ Available(t)' \in Int /\ HeldBack(res, t) \in Nat
          /\ Carries(req[h], t) \in Nat
          /\ (avail'[t] + Carries(req'[h], t)) + (ReturnsUnits(res', req'[h], t) + HeldBack(res', t))
               = (avail[t] + Carries(req[h], t)) + (ReturnsUnits(res, req[h], t) + HeldBack(res, t))
             => Available(t)' = Available(t)
      BY <2>1, <2>4, Ledger
    <2>7. avail[t] \in Int
      BY <1>0
    <2>8. avail'[t] = avail[t] /\ HeldBack(res', t) = HeldBack(res, t)
      BY <2>1
    <2> QED
      BY <2>5, <2>6, <2>7, <2>8
  <1>4. CASE GivesBack(h)
    <2>1. req[h].op = "give_back" /\ UNCHANGED res /\ Reply(h, Idle)
          /\ avail' = [avail EXCEPT ![req[h].tier] = @ + req[h].qty]
      BY <1>4 DEF GivesBack
    <2>2. req[h].tier \in Tiers /\ req[h].qty \in Nat
      BY <1>0, <2>1, RequestFields
    <2>3. req'[h] = Idle /\ \A g \in Handlers : g # h => req'[g] = req[g]
      BY <2>1, ReplyIs
    <2>4. /\ Carries(req[h], t) = IF req[h].tier = t THEN req[h].qty ELSE 0
          /\ Carries(req'[h], t) = 0
          /\ ReturnsUnits(res, req[h], t) = 0 /\ ReturnsUnits(res', req'[h], t) = 0
      BY <2>1, <2>3 DEF Carries, ReturnsUnits, Idle
    <2>5. avail'[t] = IF req[h].tier = t THEN avail[t] + req[h].qty ELSE avail[t]
      BY <1>0, <2>1, <2>2
    <2>6. /\ Available(t) \in Int /\ Available(t)' \in Int /\ HeldBack(res, t) \in Nat
          /\ (avail'[t] + Carries(req'[h], t)) + (ReturnsUnits(res', req'[h], t) + HeldBack(res', t))
               = (avail[t] + Carries(req[h], t)) + (ReturnsUnits(res, req[h], t) + HeldBack(res, t))
             => Available(t)' = Available(t)
      BY <2>1, <2>3, Ledger
    <2>7. avail[t] \in Int
      BY <1>0
    <2> QED
      BY <2>1, <2>2, <2>4, <2>5, <2>6, <2>7
  <1>5. ASSUME NEW r \in ResIds, ReserveInserts(h, r)
        PROVE  Available(t)' = Available(t)
    <2> DEFINE row == [status |-> "active", tier |-> req[h].tier, qty |-> req[h].qty,
                       user |-> req[h].user, key |-> req[h].key, due |-> FALSE]
    <2>1. /\ req[h].op = "taken" /\ UNCHANGED avail /\ Reply(h, Idle)
          /\ res[r].status = "absent" /\ res' = [res EXCEPT ![r] = row]
      BY <1>5 DEF ReserveInserts
    <2>2. req[h].tier \in Tiers /\ req[h].qty \in 1 .. MaxPerOrder /\ req[h].qty \in Nat
      BY <1>0, <2>1, RequestFields
    <2>3. row.status = "active" /\ row.tier = req[h].tier /\ row.qty = req[h].qty
      OBVIOUS
    <2> HIDE DEF row
    <2>4. res'[r] = row /\ \A p \in ResIds : p # r => res'[p] = res[p]
      BY <2>1 DEF TypeOK
    <2>5. req'[h] = Idle /\ \A g \in Handlers : g # h => req'[g] = req[g]
      BY <2>1, ReplyIs
    <2>6. /\ Holding(res') = Holding(res) \cup {r} /\ Holding(res) \cap {r} = {}
          /\ Holding(res) \in SUBSET ResIds /\ {r} \in SUBSET ResIds
      BY <2>1, <2>3, <2>4 DEF Holding
    <2>7. HeldBack(res', t) = HeldBack(res, t) + (IF req[h].tier = t THEN req[h].qty ELSE 0)
      <3>1. HeldBack(res', t) = UnitsOf(res', Holding(res), t) + UnitsOf(res', {r}, t)
        BY <2>6, UnitsSplit DEF HeldBack
      <3>2. UnitsOf(res', {r}, t) = IF req[h].tier = t THEN req[h].qty ELSE 0
        BY <2>2, <2>3, <2>4, UnitsOfOne
      <3>3. SameUnits(res, res', Holding(res))
        BY <2>4, <2>6 DEF SameUnits
      <3>4. UnitsOf(res', Holding(res), t) = HeldBack(res, t)
        BY <3>3, UnitsSame DEF HeldBack
      <3> QED
        BY <3>1, <3>2, <3>4
    <2>8. /\ Carries(req[h], t) = IF req[h].tier = t THEN req[h].qty ELSE 0
          /\ Carries(req'[h], t) = 0
          /\ ReturnsUnits(res, req[h], t) = 0 /\ ReturnsUnits(res', req'[h], t) = 0
      BY <2>1, <2>5 DEF Carries, ReturnsUnits, Idle
    <2>9. \A p \in ResIds : res[p].status # "absent" =>
              res'[p].tier = res[p].tier /\ res'[p].qty = res[p].qty
      BY <2>1, <2>4
    <2>10. /\ Available(t) \in Int /\ Available(t)' \in Int /\ HeldBack(res, t) \in Nat
           /\ (avail'[t] + Carries(req'[h], t)) + (ReturnsUnits(res', req'[h], t) + HeldBack(res', t))
               = (avail[t] + Carries(req[h], t)) + (ReturnsUnits(res, req[h], t) + HeldBack(res, t))
             => Available(t)' = Available(t)
      BY <2>5, <2>9, Ledger
    <2>11. avail[t] \in Int
      BY <1>0
    <2> DEFINE n == IF req[h].tier = t THEN req[h].qty ELSE 0
    <2>12. /\ n \in Int /\ HeldBack(res', t) = HeldBack(res, t) + n /\ Carries(req[h], t) = n
           /\ Carries(req'[h], t) = 0 /\ avail'[t] = avail[t]
           /\ ReturnsUnits(res, req[h], t) = 0 /\ ReturnsUnits(res', req'[h], t) = 0
      BY <2>1, <2>2, <2>7, <2>8
    <2> HIDE DEF n
    <2> QED
      BY <2>10, <2>11, <2>12
  <1> QED
    BY <1>1, <1>2, <1>3, <1>4, <1>5 DEF Reserving

\* Reservations that end while they are active: their units are on the way back.
LEMMA EndsBalance ==
    ASSUME TypeOK, TypeOK', ReturnsOfRows, overwritten = {}, overwritten' = {},
           NEW h \in Handlers, NEW t \in Tiers,
           NEW ids \in SUBSET ResIds, NEW status \in {"released", "expired"},
           Ends(h, ids, status), req[h].op \in {"cancel", "expire"}
    PROVE  Available(t)' = Available(t)
  <1> DEFINE q == [op |-> "return", listed |-> ids]
  <1>1. /\ Reply(h, q) /\ UNCHANGED avail /\ res' = Ended(ids, status)
        /\ \A r \in ids : res[r].status = "active"
    BY DEF Ends
  <1>2. q.op = "return" /\ q.listed = ids
    OBVIOUS
  <1> HIDE DEF q
  <1>3. req'[h] = q /\ \A g \in Handlers : g # h => req'[g] = req[g]
    BY <1>1, ReplyIs
  <1>4. /\ \A r \in ResIds : res'[r].tier = res[r].tier /\ res'[r].qty = res[r].qty
        /\ \A r \in ids : res'[r].status = status
        /\ \A r \in ResIds \ ids : res'[r] = res[r]
    <2>1. \A r \in ResIds : res[r] \in Reservation
      BY DEF TypeOK
    <2> QED
      BY <1>1, <2>1 DEF Ended, Reservation
  <1>5. /\ Holding(res) = Holding(res') \cup ids /\ Holding(res') \cap ids = {}
        /\ Holding(res') \in SUBSET ResIds
    BY <1>1, <1>4 DEF Holding
  <1>6. HeldBack(res, t) = HeldBack(res', t) + UnitsOf(res', ids, t)
    <2>1. HeldBack(res, t) = UnitsOf(res, Holding(res'), t) + UnitsOf(res, ids, t)
      BY <1>5, UnitsSplit DEF HeldBack
    <2>2. SameUnits(res, res', Holding(res')) /\ SameUnits(res, res', ids)
      BY <1>4, <1>5 DEF SameUnits
    <2>3. /\ UnitsOf(res', Holding(res'), t) = UnitsOf(res, Holding(res'), t)
          /\ UnitsOf(res', ids, t) = UnitsOf(res, ids, t)
      BY <2>2, UnitsSame
    <2> QED
      BY <2>1, <2>3 DEF HeldBack
  <1>7. /\ Carries(req[h], t) = 0 /\ Carries(req'[h], t) = 0
        /\ ReturnsUnits(res, req[h], t) = 0
        /\ ReturnsUnits(res', req'[h], t) = UnitsOf(res', ids, t)
    BY <1>2, <1>3 DEF Carries, ReturnsUnits
  <1>8. /\ Available(t) \in Int /\ Available(t)' \in Int /\ HeldBack(res', t) \in Nat
        /\ ReturnsUnits(res', req'[h], t) \in Nat
        /\ (avail'[t] + Carries(req'[h], t)) + (ReturnsUnits(res', req'[h], t) + HeldBack(res', t))
               = (avail[t] + Carries(req[h], t)) + (ReturnsUnits(res, req[h], t) + HeldBack(res, t))
             => Available(t)' = Available(t)
    BY <1>3, <1>4, Ledger
  <1>9. avail[t] \in Int
    BY DEF TypeOK
  <1>10. avail'[t] = avail[t] /\ UnitsOf(res', ids, t) \in Nat
    BY <1>1, UnitsFinite
  <1> QED
    BY <1>6, <1>7, <1>8, <1>9, <1>10

LEMMA OverwrittenGrows ==
    ASSUME [Next]_vars, overwritten' = {}
    PROVE  overwritten = {}
  <1>1. overwritten \subseteq overwritten'
    BY DEF Next, Registering, Reserving, Releasing, Ordering, Checkout, SeatsReturn,
           ReserveChecks, ReserveTakes, ReserveInserts, ReserveFails, GivesBack,
           DeadlinePasses, CancelReads, ExpiryReads, CancelWrites, ExpiryWrites, Ends,
           Returns, OrderReads, OrderCommits, ConfirmReads, ConfirmCommits, Dies, vars
  <1> QED
    BY <1>1

\* What is available, in flight and held is a number.
LEMMA AvailableType ==
    ASSUME NEW t \in Tiers
    PROVE  /\ TypeOK => Available(t) \in Int
           /\ TypeOK' => Available(t)' \in Int
  <1>1. IsFiniteSet(Handlers \X Seat) /\ IsFiniteSet(Handlers \X (ResIds \X Seat))
    <2>1. MaxRes \in Int /\ MaxPerOrder \in Int /\ 1 \in Int
      BY SeatUsageAssumption, OrderFlowAssumption
    <2>2. IsFiniteSet(ResIds) /\ IsFiniteSet(Seat)
      BY <2>1, FS_Interval DEF ResIds, Seat
    <2> QED
      BY <2>2, OrderFlowAssumption, FS_Product
  <1>2. ASSUME NEW reqs, NEW rows
        PROVE  /\ TakenTotal(reqs, t) \in Nat /\ ReturningTotal(reqs, rows, t) \in Nat
               /\ UnitsOf(rows, Holding(rows), t) \in Nat
    <2>1. /\ Shares(Seat, TakenShares(reqs, t)) \subseteq Handlers \X Seat
          /\ Shares(ResIds \X Seat, ReturningShares(reqs, rows, t))
               \subseteq Handlers \X (ResIds \X Seat)
      BY DEF Shares
    <2>2. Holding(rows) \in SUBSET ResIds
      BY DEF Holding
    <2> QED
      BY <1>1, <2>1, <2>2, FS_Subset, FS_CardinalityType, UnitsFinite
         DEF TakenTotal, ReturningTotal
  <1>3. TypeOK => avail[t] \in Int
    BY DEF TypeOK
  <1>4. TypeOK' => avail'[t] \in Int
    BY DEF TypeOK
  <1>5. /\ TakenTotal(req, t) \in Nat /\ ReturningTotal(req, res, t) \in Nat
        /\ UnitsOf(res, Holding(res), t) \in Nat
    BY <1>2
  <1>6. /\ TakenTotal(req', t) \in Nat /\ ReturningTotal(req', res', t) \in Nat
        /\ UnitsOf(res', Holding(res'), t) \in Nat
    BY <1>2
  <1>7. /\ Available(t) = avail[t] + (TakenTotal(req, t) + ReturningTotal(req, res, t))
                            + UnitsOf(res, Holding(res), t)
        /\ Available(t)' = avail'[t] + (TakenTotal(req', t) + ReturningTotal(req', res', t))
                            + UnitsOf(res', Holding(res'), t)
    BY AvailableIs
  <1> QED
    BY <1>3, <1>4, <1>5, <1>6, <1>7

LEMMA ReleasingBalance ==
    ASSUME TypeOK, TypeOK', ReturnsOfRows, overwritten = {}, overwritten' = {},
           NEW h \in Handlers, NEW t \in Tiers, Releasing(h)
    PROVE  Available(t)' = Available(t)
  <1>0. req[h] \in UnderWay /\ avail \in [Tiers -> Int]
    BY DEF TypeOK, UnderWay
  <1>1. ASSUME NEW r \in ResIds, CancelReads(h, r)
        PROVE  Available(t)' = Available(t)
    <2> DEFINE q == [op |-> "cancel", res |-> r]
    <2>1. Reply(h, q) /\ req[h] = Idle /\ UNCHANGED <<avail, res>>
      BY <1>1 DEF CancelReads
    <2>2. q.op = "cancel"
      OBVIOUS
    <2> HIDE DEF q
    <2>3. req'[h] = q /\ \A g \in Handlers : g # h => req'[g] = req[g]
      BY <2>1, ReplyIs
    <2> QED
      BY <2>1, <2>2, <2>3, NothingCarried DEF Idle
  <1>2. CASE ExpiryReads(h)
    <2> DEFINE q == [op |-> "expire",
                     listed |-> {r \in ResIds : res[r].status = "active" /\ res[r].due}]
    <2>1. Reply(h, q) /\ req[h] = Idle /\ UNCHANGED <<avail, res>>
      BY <1>2 DEF ExpiryReads
    <2>2. q.op = "expire"
      OBVIOUS
    <2> HIDE DEF q
    <2>3. req'[h] = q /\ \A g \in Handlers : g # h => req'[g] = req[g]
      BY <2>1, ReplyIs
    <2> QED
      BY <2>1, <2>2, <2>3, NothingCarried DEF Idle
  <1>3. CASE CancelWrites(h)
    <2>1. req[h].op = "cancel" /\ Ends(h, {req[h].res}, "released")
      BY <1>3 DEF CancelWrites
    <2>2. {req[h].res} \in SUBSET ResIds
      BY <1>0, <2>1, RequestFields
    <2> QED
      BY <2>1, <2>2, EndsBalance
  <1>4. CASE ExpiryWrites(h)
    <2>1. req[h].op = "expire" /\ Ends(h, req[h].listed, "expired")
      BY <1>4 DEF ExpiryWrites
    <2>2. req[h].listed \in SUBSET ResIds
      BY <1>0, <2>1, RequestFields
    <2> QED
      BY <2>1, <2>2, EndsBalance
  <1>5. CASE Returns(h)
    <2>1. /\ req[h].op = "return" /\ Reply(h, Idle) /\ UNCHANGED res
          /\ avail' = [s \in Tiers |-> avail[s] + Restored(req[h].listed, s)]
      BY <1>5 DEF Returns
    <2>2. req'[h] = Idle /\ \A g \in Handlers : g # h => req'[g] = req[g]
      BY <2>1, ReplyIs
    <2>3. avail'[t] = avail[t] + UnitsOf(res, req[h].listed, t)
      BY <2>1, UnitsAre DEF Restored
    <2>4. /\ Carries(req[h], t) = 0 /\ Carries(req'[h], t) = 0
          /\ ReturnsUnits(res, req[h], t) = UnitsOf(res, req[h].listed, t)
          /\ ReturnsUnits(res', req'[h], t) = 0
      BY <2>1, <2>2 DEF Carries, ReturnsUnits, Idle
    <2>5. /\ HeldBack(res, t) \in Nat /\ ReturnsUnits(res, req[h], t) \in Nat
          /\ (avail'[t] + Carries(req'[h], t)) + (ReturnsUnits(res', req'[h], t) + HeldBack(res', t))
               = (avail[t] + Carries(req[h], t)) + (ReturnsUnits(res, req[h], t) + HeldBack(res, t))
             => Available(t)' = Available(t)
      BY <2>1, <2>2, Ledger
    <2>6. avail[t] \in Int /\ HeldBack(res', t) = HeldBack(res, t)
      BY <1>0, <2>1
    <2> QED
      BY <2>3, <2>4, <2>5, <2>6
  <1> QED
    BY <1>1, <1>2, <1>3, <1>4, <1>5 DEF Releasing

LEMMA OrderingBalance ==
    ASSUME TypeOK, TypeOK', ReturnsOfRows, overwritten = {}, overwritten' = {},
           NEW h \in Handlers, NEW t \in Tiers, Ordering(h)
    PROVE  Available(t)' = Available(t)
  <1>0. req[h] \in UnderWay
    BY DEF TypeOK, UnderWay
  <1>1. ASSUME NEW r \in ResIds, OrderReads(h, r) \/ ConfirmReads(h, r)
        PROVE  Available(t)' = Available(t)
    <2>1. PICK q : /\ Reply(h, q) /\ req[h] = Idle /\ UNCHANGED <<avail, res>>
                   /\ q.op \in {"order", "confirm"}
      BY <1>1 DEF OrderReads, ConfirmReads
    <2>2. req'[h] = q /\ \A g \in Handlers : g # h => req'[g] = req[g]
      BY <2>1, ReplyIs
    <2> QED
      BY <2>1, <2>2, NothingCarried DEF Idle
  <1>2. CASE OrderCommits(h)
    <2> DEFINE r == req[h].res
    <2>1. /\ req[h].op = "order" /\ Reply(h, Idle) /\ UNCHANGED avail
          /\ res' = [res EXCEPT ![r].status = "converted"] /\ res[r].status = "active"
      BY <1>2 DEF OrderCommits, Converted
    <2>2. r \in ResIds
      BY <1>0, <2>1, RequestFields
    <2>3. /\ \A p \in ResIds : res'[p].tier = res[p].tier /\ res'[p].qty = res[p].qty
          /\ \A p \in ResIds : p # r => res'[p].status = res[p].status
          /\ res'[r].status = "converted"
      <3>1. \A p \in ResIds : res[p] \in Reservation
        BY DEF TypeOK
      <3> QED
        BY <2>1, <2>2, <3>1 DEF TypeOK, Reservation
    <2>4. Holding(res') = Holding(res) /\ SameUnits(res, res', Holding(res))
      BY <2>1, <2>3 DEF Holding, SameUnits
    <2>5. HeldBack(res', t) = HeldBack(res, t)
      BY <2>4, UnitsSame DEF HeldBack
    <2>6. req'[h] = Idle /\ \A g \in Handlers : g # h => req'[g] = req[g]
      BY <2>1, ReplyIs
    <2>7. \A p \in ResIds : res[p].status # "absent" =>
              res'[p].tier = res[p].tier /\ res'[p].qty = res[p].qty
      BY <2>3
    <2>8. /\ req[h].op \notin {"taken", "give_back", "return"} /\ UNCHANGED avail
          /\ req'[h].op \notin {"taken", "give_back", "return"}
      BY <2>1, <2>6 DEF Idle
    <2> HIDE DEF r
    <2> QED
      BY <2>5, <2>6, <2>7, <2>8, NothingCarried
  <1>3. CASE ConfirmCommits(h)
    <2>1. req[h].op = "confirm" /\ Reply(h, Idle) /\ UNCHANGED <<avail, res>>
      BY <1>3 DEF ConfirmCommits
    <2>2. req'[h] = Idle /\ \A g \in Handlers : g # h => req'[g] = req[g]
      BY <2>1, ReplyIs
    <2> QED
      BY <2>1, <2>2, NothingCarried DEF Idle
  <1> QED
    BY <1>1, <1>2, <1>3 DEF Ordering

\* A handler that dies loses what it carried.
LEMMA DiesLoses ==
    ASSUME TypeOK, TypeOK', ReturnsOfRows, overwritten = {},
           NEW h \in Handlers, NEW t \in Tiers, Dies(h)
    PROVE  Available(t)' <= Available(t)
  <1>1. Reply(h, Idle) /\ UNCHANGED <<avail, res>>
    BY DEF Dies
  <1>2. req'[h] = Idle /\ \A g \in Handlers : g # h => req'[g] = req[g]
    BY <1>1, ReplyIs
  <1>3. Carries(req'[h], t) = 0 /\ ReturnsUnits(res', req'[h], t) = 0
    BY <1>2 DEF Carries, ReturnsUnits, Idle
  <1>4. /\ Available(t) \in Int /\ Available(t)' \in Int
        /\ Carries(req[h], t) \in Nat /\ ReturnsUnits(res, req[h], t) \in Nat
        /\ HeldBack(res, t) \in Nat
        /\ Available(t)' - Available(t)
                = (avail'[t] - avail[t]) + (Carries(req'[h], t) - Carries(req[h], t))
                    + (ReturnsUnits(res', req'[h], t) - ReturnsUnits(res, req[h], t))
                    + (HeldBack(res', t) - HeldBack(res, t))
    BY <1>1, <1>2, Ledger
  <1>5. avail'[t] = avail[t] /\ avail[t] \in Int /\ HeldBack(res', t) = HeldBack(res, t)
    BY <1>1 DEF TypeOK
  <1> QED
    BY <1>3, <1>4, <1>5

\* A step that only sets deadlines, or nothing at all here.
LEMMA IdleBalance ==
    ASSUME TypeOK, NEW t \in Tiers, UNCHANGED <<avail, req>>,
           \A r \in ResIds : /\ res'[r].tier = res[r].tier /\ res'[r].qty = res[r].qty
                             /\ res'[r].status = res[r].status
    PROVE  Available(t)' = Available(t)
  <1>1. Holding(res') = Holding(res) /\ SameUnits(res, res', Holding(res))
    BY DEF Holding, SameUnits
  <1>2. UnitsOf(res', Holding(res'), t) = UnitsOf(res, Holding(res), t)
    BY <1>1, UnitsSame
  <1>3. ASSUME NEW g \in Handlers
        PROVE  ReturningOf(res', req[g], t) = ReturningOf(res, req[g], t)
    <2>1. req[g] \in UnderWay
      BY DEF TypeOK, UnderWay
    <2>2. CASE req[g].op = "return"
      <3>1. req[g].listed \subseteq ResIds
        BY <2>1, <2>2, RequestFields
      <3>2. UnitSet(res', req[g].listed, t) = UnitSet(res, req[g].listed, t)
        BY <3>1 DEF UnitSet
      <3> QED
        BY <2>2, <3>2 DEF ReturningOf
    <2>3. CASE req[g].op # "return"
      BY <2>3 DEF ReturningOf
    <2> QED
      BY <2>2, <2>3
  <1>4. ReturningShares(req, res', t) = ReturningShares(req, res, t)
    BY <1>3 DEF ReturningShares
  <1>5. /\ TakenTotal(req', t) = TakenTotal(req, t)
        /\ ReturningTotal(req', res', t) = ReturningTotal(req, res, t)
    BY <1>4 DEF ReturningTotal
  <1> QED
    BY <1>2, <1>5, AvailableIs

\* All steps: nothing is lost or made on the way unless a handler dies.
LEMMA StepBalance ==
    ASSUME TypeOK, TypeOK', ReturnsOfRows, overwritten' = {}, [Next]_vars, NEW t \in Tiers
    PROVE  /\ Available(t)' <= Available(t)
           /\ (\E h \in Handlers : Dies(h)) \/ Available(t)' = Available(t)
  <1>0. Available(t) \in Int
    BY AvailableType
  <1>1. overwritten = {}
    BY OverwrittenGrows
  <1>2. CASE Registering \/ UNCHANGED vars
    <2>1. UNCHANGED <<avail, req, res>>
      BY <1>2 DEF Registering, Checkout, SeatsReturn, vars
    <2>2. Available(t)' = Available(t)
      BY <2>1, IdleBalance
    <2> QED
      BY <1>0, <2>2
  <1>3. ASSUME NEW r \in ResIds, DeadlinePasses(r)
        PROVE  Available(t)' = Available(t)
    <2>1. UNCHANGED <<avail, req>> /\ res' = [res EXCEPT ![r].due = TRUE]
      BY <1>3 DEF DeadlinePasses
    <2>2. \A p \in ResIds : /\ res'[p].tier = res[p].tier /\ res'[p].qty = res[p].qty
                            /\ res'[p].status = res[p].status
      <3>1. \A p \in ResIds : res[p] \in Reservation
        BY DEF TypeOK
      <3> QED
        BY <2>1, <3>1 DEF TypeOK, Reservation
    <2> QED
      BY <2>1, <2>2, IdleBalance
  <1>4. ASSUME NEW h \in Handlers, Reserving(h) \/ Releasing(h) \/ Ordering(h)
        PROVE  Available(t)' = Available(t)
    BY <1>1, <1>4, ReservingBalance, ReleasingBalance, OrderingBalance
  <1>5. ASSUME NEW h \in Handlers, Dies(h)
        PROVE  Available(t)' <= Available(t)
    BY <1>1, <1>5, DiesLoses
  <1> QED
    BY <1>0, <1>2, <1>3, <1>4, <1>5 DEF Next

\* A row that was inserted stays; what is newly on its way back was active.
LEMMA ReturnsStep ==
    ASSUME TypeOK, TypeOK', ReturnsOfRows, [Next]_vars
    PROVE  ReturnsOfRows'
  <1> SUFFICES ASSUME overwritten' = {}, NEW h \in Handlers, req'[h].op = "return",
                      NEW r \in req'[h].listed
               PROVE  res'[r].status # "absent"
    BY DEF ReturnsOfRows
  <1>0. req'[h] \in UnderWay /\ r \in ResIds
    <2>1. req'[h] \in UnderWay
      BY DEF TypeOK, UnderWay
    <2> QED
      BY <2>1, RequestFields
  <1>1. overwritten = {}
    BY OverwrittenGrows
  <1>2. ASSUME NEW g \in Handlers, NEW ids, NEW status \in {"released", "expired"},
               Ends(g, ids, status)
        PROVE  res'[r].status # "absent"
    <2> DEFINE q == [op |-> "return", listed |-> ids]
    <2>1. /\ Reply(g, q) /\ res' = Ended(ids, status)
          /\ \A p \in ids : res[p].status = "active"
      BY <1>1, <1>2 DEF Ends
    <2>2. q.listed = ids
      OBVIOUS
    <2> HIDE DEF q
    <2>3. req'[g] = q /\ \A f \in Handlers : f # g => req'[f] = req[f]
      BY <2>1, ReplyIs
    <2>4. res[r].status # "absent"
      BY <1>1, <2>1, <2>2, <2>3 DEF ReturnsOfRows
    <2>5. res[r] \in Reservation
      BY <1>0 DEF TypeOK
    <2> QED
      BY <1>0, <2>1, <2>4, <2>5 DEF Ended, Reservation
  <1>3. ASSUME \A g \in Handlers : req'[g] = req[g] \/ req'[g].op # "return",
               \A p \in ResIds : res[p].status # "absent" => res'[p].status # "absent"
        PROVE  res'[r].status # "absent"
    BY <1>0, <1>1, <1>3 DEF ReturnsOfRows
  <1>4. \/ \A g \in Handlers : req'[g] = req[g] \/ req'[g].op # "return"
        \/ \E g \in Handlers : CancelWrites(g) \/ ExpiryWrites(g)
    <2>1. ASSUME NEW g \in Handlers, NEW q, Reply(g, q), q.op # "return"
          PROVE  \A f \in Handlers : req'[f] = req[f] \/ req'[f].op # "return"
      BY <2>1, ReplyIs
    <2>2. CASE Registering \/ (\E p \in ResIds : DeadlinePasses(p)) \/ UNCHANGED vars
      BY <2>2 DEF Registering, Checkout, SeatsReturn, DeadlinePasses, vars
    <2>3. ASSUME NEW g \in Handlers, Reserving(g)
          PROVE  \E q : Reply(g, q) /\ q.op # "return"
      <3>1. CASE \E u \in Users, t \in Tiers, n \in 1 .. MaxPerOrder, k \in Keys :
                    ReserveChecks(g, u, t, n, k)
        BY <3>1 DEF ReserveChecks
      <3>2. CASE ReserveTakes(g) \/ ReserveFails(g)
        <4>1. req[g] \in UnderWay
          BY DEF TypeOK, UnderWay
        <4>2. req[g] \in ReserveRequest
          BY <3>2, <4>1, RequestFields DEF ReserveTakes, ReserveFails
        <4>3. PICK o \in {"taken", "give_back"} : Reply(g, [req[g] EXCEPT !.op = o])
          BY <3>2 DEF ReserveTakes, ReserveFails
        <4>4. [req[g] EXCEPT !.op = o].op = o
          BY <4>2 DEF ReserveRequest
        <4> QED
          BY <4>3, <4>4
      <3>3. CASE GivesBack(g) \/ \E p \in ResIds : ReserveInserts(g, p)
        BY <3>3 DEF GivesBack, ReserveInserts, Idle
      <3> QED
        BY <2>3, <3>1, <3>2, <3>3 DEF Reserving
    <2>4. ASSUME NEW g \in Handlers, Releasing(g)
          PROVE  CancelWrites(g) \/ ExpiryWrites(g) \/ \E q : Reply(g, q) /\ q.op # "return"
      <3>1. CASE \E p \in ResIds : CancelReads(g, p)
        BY <3>1 DEF CancelReads
      <3>2. CASE ExpiryReads(g)
        <4> DEFINE q == [op |-> "expire",
                         listed |-> {p \in ResIds : res[p].status = "active" /\ res[p].due}]
        <4>1. Reply(g, q)
          BY <3>2 DEF ExpiryReads
        <4>2. q.op = "expire"
          OBVIOUS
        <4> HIDE DEF q
        <4> QED
          BY <4>1, <4>2
      <3>3. CASE Returns(g)
        BY <3>3 DEF Returns, Idle
      <3> QED
        BY <2>4, <3>1, <3>2, <3>3 DEF Releasing
    <2>5. ASSUME NEW g \in Handlers, Ordering(g) \/ Dies(g)
          PROVE  \E q : Reply(g, q) /\ q.op # "return"
      <3>1. CASE \E p \in ResIds : OrderReads(g, p) \/ ConfirmReads(g, p)
        BY <3>1 DEF OrderReads, ConfirmReads
      <3>2. CASE OrderCommits(g) \/ ConfirmCommits(g) \/ Dies(g)
        <4>1. Reply(g, Idle)
          BY <3>2 DEF OrderCommits, ConfirmCommits, Dies
        <4> QED
          BY <4>1 DEF Idle
      <3> QED
        BY <2>5, <3>1, <3>2 DEF Ordering
    <2>6. ASSUME NEW g \in Handlers, \E q : Reply(g, q) /\ q.op # "return"
          PROVE  \A f \in Handlers : req'[f] = req[f] \/ req'[f].op # "return"
      <3>1. PICK q : Reply(g, q) /\ q.op # "return"
        BY <2>6
      <3> QED
        BY <2>1, <3>1
    <2> QED
      BY <2>2, <2>3, <2>4, <2>5, <2>6 DEF Next
  <1>5. \/ \A p \in ResIds : res[p].status # "absent" => res'[p].status # "absent"
        \/ \E g \in Handlers : CancelWrites(g) \/ ExpiryWrites(g)
    <2> SUFFICES ASSUME ~\E g \in Handlers : CancelWrites(g) \/ ExpiryWrites(g),
                        NEW p \in ResIds, res[p].status # "absent"
                 PROVE  res'[p].status # "absent"
      OBVIOUS
    <2>1. res[p] \in Reservation /\ res \in [ResIds -> Reservation]
      BY DEF TypeOK
    <2>2. ASSUME NEW d \in ResIds, DeadlinePasses(d)
          PROVE  res'[p].status # "absent"
      BY <2>1, <2>2 DEF DeadlinePasses, Reservation
    <2>3. ASSUME NEW g \in Handlers, NEW d \in ResIds, ReserveInserts(g, d)
          PROVE  res'[p].status # "absent"
      BY <2>1, <2>3 DEF ReserveInserts
    <2>4. ASSUME NEW g \in Handlers, OrderCommits(g)
          PROVE  res'[p].status # "absent"
      BY <2>1, <2>4 DEF OrderCommits, Converted, Reservation
    <2>5. CASE UNCHANGED res
      BY <2>5
    <2> QED
      BY <2>2, <2>3, <2>4, <2>5
      DEF Next, Registering, Reserving, Releasing, Ordering, Checkout, SeatsReturn,
          ReserveChecks, ReserveTakes, ReserveFails, GivesBack, CancelReads, ExpiryReads,
          Returns, OrderReads, ConfirmReads, ConfirmCommits, Dies, vars
  <1> QED
    BY <1>2, <1>3, <1>4, <1>5 DEF CancelWrites, ExpiryWrites

LEMMA ReturnsInit == Init => ReturnsOfRows
  BY DEF Init, ReturnsOfRows, Idle

\* However reservations, cancellations, the expiry job and orders interleave, each
\* step leaves the units of a tier as they were, but for a handler that dies.
THEOREM UnitsAlwaysBalance == Spec => UnitsBalance
  <1>1. Init => TypeOK /\ ReturnsOfRows
    BY InitType, ReturnsInit
  <1>2. TypeOK /\ ReturnsOfRows /\ [Next]_vars => (TypeOK /\ ReturnsOfRows)'
    BY NextType, ReturnsStep
  <1>3. TypeOK /\ ReturnsOfRows /\ [Next]_vars =>
          [\/ overwritten' # {}
           \/ \E h \in Handlers : Dies(h)
           \/ \A t \in Tiers : Available(t)' = Available(t)]_vars
    BY NextType, StepBalance
  <1> QED
    BY <1>1, <1>2, <1>3, PTL DEF Spec, UnitsBalance

LEMMA InventoryInit == Init => InventoryConserved
  <1> SUFFICES ASSUME Init, NEW t \in Tiers
               PROVE  Available(t) + Issued[t] <= Capacity[t]
    BY DEF InventoryConserved
  <1>1. UnitSet(res, Holding(res), t) = {}
    BY DEF Init, Holding, UnitSet
  <1>2. Shares(Seat, TakenShares(req, t)) = {}
    BY DEF Init, Shares, TakenShares, Taken, Idle
  <1>3. Shares(ResIds \X Seat, ReturningShares(req, res, t)) = {}
    BY DEF Init, Shares, ReturningShares, ReturningOf, Idle
  <1>4. avail[t] = Capacity[t] - Issued[t] /\ Capacity[t] \in Nat /\ Issued[t] \in Nat
    BY SeatUsageAssumption, OrderFlowAssumption DEF Init
  <1>5. /\ TakenTotal(req, t) = 0 /\ ReturningTotal(req, res, t) = 0
        /\ UnitsOf(res, Holding(res), t) = 0
    BY <1>1, <1>2, <1>3, FS_EmptySet DEF TakenTotal, ReturningTotal, UnitsOf
  <1>6. Available(t) = avail[t] + (TakenTotal(req, t) + ReturningTotal(req, res, t))
                            + UnitsOf(res, Holding(res), t)
    BY AvailableIs
  <1> QED
    BY <1>4, <1>5, <1>6

\* Redis never has a unit to offer that a reservation, an order or a request on its
\* way has, for any number of handlers and whichever of them die.
THEOREM InventoryNeverOffersTwice == Spec => []InventoryConserved
  <1>1. Init => TypeOK /\ ReturnsOfRows /\ InventoryConserved
    BY InitType, ReturnsInit, InventoryInit
  <1>2. TypeOK /\ ReturnsOfRows /\ InventoryConserved /\ [Next]_vars
          => (TypeOK /\ ReturnsOfRows /\ InventoryConserved)'
    <2> SUFFICES ASSUME TypeOK, ReturnsOfRows, InventoryConserved, [Next]_vars
                 PROVE  (TypeOK /\ ReturnsOfRows /\ InventoryConserved)'
      OBVIOUS
    <2>1. TypeOK' /\ ReturnsOfRows'
      BY NextType, ReturnsStep
    <2>2. ASSUME overwritten' = {}, NEW t \in Tiers
          PROVE  (Available(t) + Issued[t] <= Capacity[t])'
      <3>1. Available(t)' <= Available(t)
        BY <2>1, <2>2, StepBalance
      <3>2. Available(t) + Issued[t] <= Capacity[t]
        BY <2>1, <2>2, OverwrittenGrows DEF InventoryConserved
      <3>3. /\ Issued[t] \in Nat /\ Capacity[t] \in Nat
            /\ Available(t) \in Int /\ Available(t)' \in Int
        BY <2>1, AvailableType, SeatUsageAssumption, OrderFlowAssumption
      <3> QED
        BY <3>1, <3>2, <3>3
    <2>3. InventoryConserved'
      BY <2>2 DEF InventoryConserved
    <2> QED
      BY <2>1, <2>3
  <1> QED
    BY <1>1, <1>2, PTL DEF Spec
=============================================================================
