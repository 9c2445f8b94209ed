-------------------------- MODULE TierCapacityProofs --------------------------
(***************************************************************************)
(* For every number of desks, editors, registrations and tiers: a seat     *)
(* beyond the capacity is a walk-in that was overtaken, one lock key       *)
(* admits one walk-in, and a deleted tier strands no registration.         *)
(***************************************************************************)
EXTENDS TierCapacity, SeatUsageProofs

Waiting == {"read", "looked", "counted"}

UnderWay == {Idle} \cup DeskRequest \cup EditRequest

LEMMA RequestFields ==
    ASSUME NEW q \in UnderWay
    PROVE  /\ q.op \in Waiting => /\ q \in DeskRequest
                                  /\ q.who \in Visitors /\ q.tier \in Tiers
                                  /\ q.cap \in 0 .. MaxCap /\ q.count \in Nat
                                  /\ q.overtaken \in BOOLEAN
           /\ q.op = "edit" => q \in EditRequest /\ q.tier \in Tiers
           /\ q.op \in {"idle", "edit"} \cup Waiting
           /\ q.op = "idle" => q = Idle
  BY DEF UnderWay, Idle, DeskRequest, EditRequest, Waiting

-----------------------------------------------------------------------------
(* Type correctness *)

\* Overtaking sets a flag and leaves the rest of every request alone.
LEMMA OvertakingKeeps ==
    ASSUME TypeOK, NEW t, NEW ops \in SUBSET Waiting, NEW h \in Desks \cup Admins
    PROVE  /\ DOMAIN Overtaking(t, ops) = Desks \cup Admins
           /\ Overtaking(t, ops)[h] \in UnderWay
           /\ Overtaking(t, ops)[h].op = req[h].op
           /\ req[h].op \in Waiting => /\ Overtaking(t, ops)[h].who = req[h].who
                                       /\ Overtaking(t, ops)[h].tier = req[h].tier
                                       /\ Overtaking(t, ops)[h].cap = req[h].cap
           /\ req[h].op \in ops /\ req[h].tier = t => Overtaking(t, ops)[h].overtaken
           /\ ~(req[h].op \in ops /\ req[h].tier = t) => Overtaking(t, ops)[h] = req[h]
  <1> DEFINE o == Overtaking(t, ops)
  <1>1. req[h] \in UnderWay
    BY DEF TypeOK, UnderWay
  <1>2. CASE req[h].op \in ops /\ req[h].tier = t
    <2>1. req[h] \in DeskRequest
      BY <1>1, <1>2, RequestFields
    <2>2. o[h] = [req[h] EXCEPT !.overtaken = TRUE]
      BY <1>2 DEF Overtaking
    <2>3. /\ o[h] \in DeskRequest /\ o[h].overtaken
          /\ o[h].op = req[h].op /\ o[h].who = req[h].who
          /\ o[h].tier = req[h].tier /\ o[h].cap = req[h].cap
      BY <2>1, <2>2 DEF DeskRequest
    <2> QED
      BY <1>2, <2>3 DEF Overtaking, UnderWay
  <1>3. CASE ~(req[h].op \in ops /\ req[h].tier = t)
    <2>1. o[h] = req[h]
      BY <1>3 DEF Overtaking
    <2> QED
      BY <1>1, <1>3, <2>1 DEF Overtaking
  <1> QED
    BY <1>2, <1>3

LEMMA InitType == Init => TypeOK
  <1> SUFFICES ASSUME Init PROVE TypeOK
    OBVIOUS
  <1>1. (CHOOSE t \in Tiers : TRUE) \in Tiers
    BY TierCapacityAssumption
  <1>2. 1 \in 1 .. MaxPerOrder
    BY SeatUsageAssumption
  <1>3. reg \in [RegIds -> Row]
    BY <1>1, <1>2 DEF Init, Row
  <1>4. tier \in [Tiers -> Tier]
    BY SeatUsageAssumption, TierCapacityAssumption DEF Init, Tier
  <1> QED
    BY <1>3, <1>4 DEF Init, TypeOK, Idle

LEMMA SellingType ==
    ASSUME TypeOK, Selling
    PROVE  TypeOK'
  <1>1. ASSUME NEW r \in RegIds, NEW t \in Tiers, NEW n \in 1 .. MaxPerOrder,
               Checkout(r, t, n)
        PROVE  TypeOK'
    <2>1. Occupied(reg, t) + n \in Nat
      BY OccupiedType, SeatUsageAssumption
    <2>2. tier[t] \in Tier
      BY DEF TypeOK
    <2>3. [tier[t] EXCEPT !.sold = Occupied(reg, t) + n] \in Tier
      BY <2>1, <2>2 DEF Tier
    <2>4. [status |-> "pending_payment", tier |-> t, seats |-> n, who |-> Nobody] \in Row
      BY DEF Row
    <2>5. reg' \in [RegIds -> Row] /\ tier' \in [Tiers -> Tier]
      BY <1>1, <2>3, <2>4 DEF Checkout, TypeOK
    <2>6. \A h \in Desks \cup Admins : req'[h] \in UnderWay /\ req'[h].op = req[h].op
      BY <1>1, OvertakingKeeps DEF Checkout, Waiting
    <2>7. req' \in [Desks \cup Admins -> UnderWay]
      BY <1>1, <2>6 DEF Checkout, Overtaking
    <2> QED
      BY <1>1, <2>5, <2>6, <2>7 DEF Checkout, TypeOK, UnderWay
  <1>2. ASSUME NEW r \in RegIds, SeatsReturn(r)
        PROVE  TypeOK'
    <2>1. reg[r] \in Row /\ reg[r].tier \in Tiers /\ reg[r].seats \in Nat
      BY SeatUsageAssumption DEF TypeOK, Row
    <2> DEFINE t == reg[r].tier  n == reg[r].seats
               sold == IF tier[t].sold > n THEN tier[t].sold - n ELSE 0
    <2>2. tier[t] \in Tier /\ tier[t].sold \in Nat
      BY <2>1 DEF TypeOK, Tier
    <2>3. sold \in Nat
      BY <2>1, <2>2
    <2> HIDE DEF sold
    <2>4. [tier[t] EXCEPT !.sold = sold] \in Tier
      BY <2>2, <2>3 DEF Tier
    <2>5. tier' \in [Tiers -> Tier]
      BY <1>2, <2>4 DEF SeatsReturn, Returned, TypeOK, sold
    <2>6. [reg[r] EXCEPT !.status = "cancelled"] \in Row
      BY <2>1 DEF Row
    <2>7. reg' \in [RegIds -> Row]
      BY <1>2, <2>6 DEF SeatsReturn, TypeOK
    <2> QED
      BY <1>2, <2>5, <2>7 DEF SeatsReturn, TypeOK
  <1> QED
    BY <1>1, <1>2 DEF Selling

\* A desk or an editor moves its own request and no other.
LEMMA RequestType ==
    ASSUME TypeOK, NEW h \in Desks \cup Admins, NEW q \in UnderWay,
           req' = [req EXCEPT ![h] = q],
           h \in Desks => q.op # "edit", h \in Admins => q.op \in {"idle", "edit"}
    PROVE  /\ req' \in [Desks \cup Admins -> UnderWay]
           /\ \A d \in Desks : req'[d].op # "edit"
           /\ \A a \in Admins : req'[a].op \in {"idle", "edit"}
  BY DEF TypeOK, UnderWay

LEMMA AdmittingType ==
    ASSUME TypeOK, Admitting
    PROVE  TypeOK'
  <1>1. ASSUME NEW h \in Desks, NEW who \in Visitors, NEW t \in Tiers, DeskReads(h, who, t)
        PROVE  TypeOK'
    <2> DEFINE q == [op |-> "read", who |-> who, tier |-> t, cap |-> tier[t].cap,
                     count |-> 0, overtaken |-> FALSE]
    <2>1. q \in UnderWay /\ q.op = "read"
      BY DEF TypeOK, Tier, UnderWay, DeskRequest
    <2>2. req' = [req EXCEPT ![h] = q] /\ h \notin Admins
      BY <1>1, TierCapacityAssumption DEF DeskReads
    <2> HIDE DEF q
    <2> QED
      BY <1>1, <2>1, <2>2, RequestType DEF DeskReads, TypeOK, UnderWay
  <1>2. ASSUME NEW h \in Desks, DeskLooks(h)
        PROVE  TypeOK'
    <2>1. req[h] \in DeskRequest
      BY <1>2, RequestFields DEF DeskLooks, TypeOK, UnderWay, Waiting
    <2> DEFINE q == [req[h] EXCEPT !.op = "looked"]
    <2>2. q \in UnderWay /\ q.op = "looked"
      BY <2>1 DEF UnderWay, DeskRequest
    <2>3. req' = [req EXCEPT ![h] = q] /\ h \notin Admins
      BY <1>2, TierCapacityAssumption DEF DeskLooks
    <2> HIDE DEF q
    <2> QED
      BY <1>2, <2>2, <2>3, RequestType DEF DeskLooks, TypeOK, UnderWay
  <1>3. ASSUME NEW h \in Desks, DeskCounts(h)
        PROVE  TypeOK'
    <2>1. req[h] \in DeskRequest /\ req[h].tier \in Tiers
      BY <1>3, RequestFields DEF DeskCounts, TypeOK, UnderWay, Waiting
    <2>2. Occupied(reg, req[h].tier) \in Nat
      BY <2>1, OccupiedType
    <2> DEFINE q == [req[h] EXCEPT !.op = "counted", !.count = Occupied(reg, req[h].tier)]
    <2>3. q \in UnderWay /\ q.op = "counted"
      BY <2>1, <2>2 DEF UnderWay, DeskRequest
    <2>4. req' = [req EXCEPT ![h] = q] /\ h \notin Admins
      BY <1>3, TierCapacityAssumption DEF DeskCounts
    <2> HIDE DEF q
    <2> QED
      BY <1>3, <2>3, <2>4, RequestType DEF DeskCounts, TypeOK, UnderWay
  <1>4. ASSUME NEW h \in Desks, NEW r \in RegIds, DeskCommits(h, r)
        PROVE  TypeOK'
    <2>1. /\ req[h] \in DeskRequest /\ req[h].tier \in Tiers /\ req[h].who \in Visitors
          /\ req[h].count + 1 \in Nat
      BY <1>4, RequestFields DEF DeskCommits, TypeOK, UnderWay, Waiting
    <2>2. [status |-> "verified", tier |-> req[h].tier, seats |-> 1, who |-> req[h].who] \in Row
      BY <2>1, SeatUsageAssumption DEF Row
    <2>3. reg' \in [RegIds -> Row]
      BY <1>4, <2>2 DEF DeskCommits, TypeOK
    <2>4. [tier[req[h].tier] EXCEPT !.sold = req[h].count + 1] \in Tier
      BY <2>1 DEF TypeOK, Tier
    <2>5. tier' \in [Tiers -> Tier]
      BY <1>4, <2>4 DEF DeskCommits, TypeOK
    <2>6. slipped' \subseteq RegIds /\ loose' \subseteq Tiers
      BY <1>4 DEF DeskCommits, TypeOK
    <2>7. req' = [req EXCEPT ![h] = Idle] /\ Idle \in UnderWay /\ Idle.op = "idle"
      BY <1>4 DEF DeskCommits, UnderWay, Idle
    <2> QED
      BY <2>3, <2>5, <2>6, <2>7, RequestType DEF TypeOK, UnderWay
  <1> QED
    BY <1>1, <1>2, <1>3, <1>4 DEF Admitting

LEMMA EditingType ==
    ASSUME TypeOK, Editing
    PROVE  TypeOK'
  <1>1. ASSUME NEW h \in Admins, NEW t \in Tiers, EditReads(h, t)
        PROVE  TypeOK'
    <2> DEFINE q == [op |-> "edit", tier |-> t, cap |-> tier[t].cap]
    <2>1. q \in UnderWay /\ q.op = "edit"
      BY DEF TypeOK, Tier, UnderWay, EditRequest
    <2>2. req' = [req EXCEPT ![h] = q] /\ h \notin Desks
      BY <1>1, TierCapacityAssumption DEF EditReads
    <2> HIDE DEF q
    <2> QED
      BY <1>1, <2>1, <2>2, RequestType DEF EditReads, TypeOK, UnderWay
  <1>2. ASSUME NEW h \in Admins, NEW cap \in 0 .. MaxCap, EditCommits(h, cap)
        PROVE  TypeOK'
    <2> DEFINE o == Overtaking(req[h].tier, Waiting)
    <2>1. req[h].tier \in Tiers
      BY <1>2, RequestFields DEF EditCommits, TypeOK, UnderWay
    <2>2. [tier[req[h].tier] EXCEPT !.cap = cap] \in Tier
      BY <2>1 DEF TypeOK, Tier
    <2>3. tier' \in [Tiers -> Tier]
      BY <1>2, <2>2 DEF EditCommits, TypeOK
    <2>4. \A d \in Desks \cup Admins : o[d] \in UnderWay /\ o[d].op = req[d].op
      BY OvertakingKeeps
    <2>5. o \in [Desks \cup Admins -> UnderWay]
      BY <2>4 DEF Overtaking
    <2>6. req' = [o EXCEPT ![h] = Idle] \/ req' = [req EXCEPT ![h] = Idle]
      BY <1>2 DEF EditCommits, Waiting
    <2>7. Idle \in UnderWay /\ Idle.op = "idle"
      BY DEF UnderWay, Idle
    <2> HIDE DEF o
    <2>8. /\ req' \in [Desks \cup Admins -> UnderWay]
          /\ \A d \in Desks : req'[d].op # "edit"
          /\ \A a \in Admins : req'[a].op \in {"idle", "edit"}
      BY <2>4, <2>5, <2>6, <2>7 DEF TypeOK, UnderWay
    <2>9. slipped' \subseteq RegIds /\ loose' \subseteq Tiers
      BY <1>2, <2>1 DEF EditCommits, TypeOK
    <2>10. reg' = reg
      BY <1>2 DEF EditCommits
    <2> QED
      BY <2>3, <2>8, <2>9, <2>10 DEF TypeOK, UnderWay
  <1>3. ASSUME NEW t \in Tiers, NEW s \in {"visible", "hidden", "deleted"},
               tier' = [tier EXCEPT ![t].shown = s], UNCHANGED <<reg, req, slipped, loose>>
        PROVE  TypeOK'
    BY <1>3 DEF TypeOK, Tier
  <1> QED
    BY <1>1, <1>2, <1>3 DEF Editing, Delete, SetVisible

LEMMA NextType == TypeOK /\ [Next]_vars => TypeOK'
  <1> SUFFICES ASSUME TypeOK, [Next]_vars PROVE TypeOK'
    OBVIOUS
  <1>1. ASSUME NEW h \in Desks \cup Admins, Ends(h) PROVE TypeOK'
    <2>1. req' = [req EXCEPT ![h] = Idle] /\ Idle \in UnderWay /\ Idle.op = "idle"
      BY <1>1 DEF Ends, UnderWay, Idle
    <2> QED
      BY <1>1, <2>1, RequestType DEF Ends, TypeOK, UnderWay
  <1>2. CASE UNCHANGED vars
    BY <1>2 DEF vars, TypeOK
  <1> QED
    BY <1>1, <1>2, SellingType, AdmittingType, EditingType DEF Next

\* Every reachable state of the tiers, the registrations and the requests under
\* way is well typed; the stored soldQuantity never falls below zero.
THEOREM TierTypeCorrect == Spec => []TypeOK
  <1>1. Init => TypeOK
    BY InitType
  <1>2. TypeOK /\ [Next]_vars => TypeOK'
    BY NextType
  <1> QED
    BY <1>1, <1>2, PTL DEF Spec

-----------------------------------------------------------------------------
(* Seats *)

Unslipped(rows, gone, t) ==
    Cardinality(SeatUnits(rows, RegIds \ gone, ACTIVE_REGISTRATION_STATUSES, t))

LEMMA UnslippedOccupy ==
    ASSUME NEW rows, NEW gone, NEW t \in Tiers
    PROVE  /\ Unslipped(rows, gone, t) \in Nat /\ Issued[t] \in Nat
           /\ Occupied(rows, t) \in Nat
           /\ Unslipped(rows, gone, t) + Issued[t] <= Occupied(rows, t)
  <1> DEFINE some == SeatUnits(rows, RegIds \ gone, ACTIVE_REGISTRATION_STATUSES, t)
             all == SeatUnits(rows, RegIds, ACTIVE_REGISTRATION_STATUSES, t)
  <1>1. some \subseteq all
    BY DEF SeatUnits
  <1>2. IsFiniteSet(all) /\ Cardinality(all) \in Nat /\ Cardinality(some) \in Nat
    <2>1. RegIds \ gone \in SUBSET RegIds /\ RegIds \in SUBSET RegIds
      OBVIOUS
    <2> QED
      BY <2>1, SeatUnitsFinite
  <1>3. Cardinality(some) <= Cardinality(all)
    BY <1>1, <1>2, FewerUnits
  <1>4. Issued[t] \in Nat
    BY SeatUsageAssumption
  <1> HIDE DEF some, all
  <1> QED
    BY <1>2, <1>3, <1>4, OccupiedType DEF Unslipped, Occupied, Seats, some, all

\* A row that was absent adds its seats to its tier, and none if it slipped.
LEMMA NewRowSeats ==
    ASSUME NEW r \in RegIds, reg[r].status = "absent", NEW row, row.seats \in Nat,
           NEW rows, rows = [reg EXCEPT ![r] = row],
           NEW gone, NEW before, before \subseteq gone, NEW t
    PROVE  /\ Unslipped(rows, gone, t) <= Unslipped(reg, before, t) + row.seats
           /\ row.tier # t \/ r \in gone =>
                Unslipped(rows, gone, t) <= Unslipped(reg, before, t)
  <1> DEFINE now == SeatUnits(rows, RegIds \ gone, ACTIVE_REGISTRATION_STATUSES, t)
             then == SeatUnits(reg, RegIds \ before, ACTIVE_REGISTRATION_STATUSES, t)
  <1>1. IsFiniteSet(then)
    <2>1. RegIds \ before \in SUBSET RegIds
      OBVIOUS
    <2> QED
      BY <2>1, SeatUnitsFinite
  <1>2. \A q \in RegIds \ {r} : rows[q] = reg[q]
    OBVIOUS
  <1>3. \A u \in now : u \in then \/ (u[1] = r /\ u \in {r} \X (1 .. row.seats))
    BY <1>2 DEF SeatUnits
  <1>4. now \subseteq then \cup ({r} \X (1 .. row.seats))
    BY <1>3
  <1>5. Cardinality(now) <= Cardinality(then) + row.seats
    <2> HIDE DEF now, then
    <2> QED
      BY <1>1, <1>4, OneMoreRow
  <1>6. ASSUME row.tier # t \/ r \in gone
        PROVE  Cardinality(now) <= Cardinality(then)
    <2>1. now \subseteq then
      BY <1>2, <1>6 DEF SeatUnits
    <2> QED
      BY <1>1, <2>1, FewerUnits
  <1> QED
    BY <1>5, <1>6 DEF Unslipped

\* A row that is no longer active gives its seats back.
LEMMA ReturnedSeats ==
    ASSUME NEW r \in RegIds, reg' = [reg EXCEPT ![r].status = "cancelled"],
           NEW t, slipped' = slipped
    PROVE  Unslipped(reg', slipped', t) <= Unslipped(reg, slipped, t)
  <1> DEFINE now == SeatUnits(reg', RegIds \ slipped, ACTIVE_REGISTRATION_STATUSES, t)
             then == SeatUnits(reg, RegIds \ slipped, ACTIVE_REGISTRATION_STATUSES, t)
  <1>1. IsFiniteSet(then)
    <2>1. RegIds \ slipped \in SUBSET RegIds
      OBVIOUS
    <2> QED
      BY <2>1, SeatUnitsFinite
  <1>2. now \subseteq then
    BY DEF SeatUnits, ACTIVE_REGISTRATION_STATUSES
  <1> QED
    BY <1>1, <1>2, FewerUnits DEF Unslipped

\* What a desk that nobody overtook has read is still so.
CapAsRead == \A d \in Desks :
    req[d].op \in Waiting /\ ~req[d].overtaken => req[d].cap <= tier[req[d].tier].cap

CountStillFits == \A d \in Desks :
    req[d].op = "counted" /\ ~req[d].overtaken =>
        Unslipped(reg, slipped, req[d].tier) + Issued[req[d].tier] + 1
            <= tier[req[d].tier].cap

TierHeldOnce == \A d, e \in Desks :
    req[d].op = "counted" /\ HoldsTier(e, req[d].tier) => d = e

SeatsSafe == CheckedSeatsFit /\ CapAsRead /\ CountStillFits /\ TierHeldOnce

\* Requests change, no other desk counts, and a desk's own request is as shown.
LEMMA RequestsMove ==
    ASSUME TypeOK, SeatsSafe, reg' = reg, tier' = tier, slipped' = slipped, loose' = loose,
           NEW h \in Desks \cup Admins, NEW q \in UnderWay, req' = [req EXCEPT ![h] = q],
           q.op \in Waiting /\ ~q.overtaken => q.cap <= tier[q.tier].cap,
           q.op = "counted" =>
              /\ Unslipped(reg, slipped, q.tier) + Issued[q.tier] + 1 <= tier[q.tier].cap
                    \/ q.overtaken
              /\ TierFree(h) /\ q.tier = req[h].tier
    PROVE  SeatsSafe'
  <1>1. \A d \in Desks : req'[d] = IF d = h THEN q ELSE req[d]
    BY DEF TypeOK
  <1>2. CheckedSeatsFit'
    BY DEF SeatsSafe, CheckedSeatsFit
  <1>3. CapAsRead'
    BY <1>1 DEF SeatsSafe, CapAsRead
  <1>4. CountStillFits'
    BY <1>1 DEF SeatsSafe, CountStillFits
  <1>5. TierHeldOnce'
    BY <1>1 DEF SeatsSafe, TierHeldOnce, HoldsTier, TierFree
  <1> QED
    BY <1>2, <1>3, <1>4, <1>5 DEF SeatsSafe

\* A checkout overtakes every desk that counted its tier.
LEMMA CheckoutSeats ==
    ASSUME TypeOK, SeatsSafe, NEW r \in RegIds, NEW t \in Tiers, NEW n \in 1 .. MaxPerOrder,
           Checkout(r, t, n)
    PROVE  SeatsSafe'
  <1> DEFINE row == [status |-> "pending_payment", tier |-> t, seats |-> n, who |-> Nobody]
  <1>1. /\ reg[r].status = "absent" /\ reg' = [reg EXCEPT ![r] = row]
        /\ row.tier = t /\ row.seats = n /\ n \in Nat
        /\ slipped' = slipped /\ loose' = loose
    BY SeatUsageAssumption DEF Checkout, NextId
  <1> HIDE DEF row
  <1>2. \A u \in Tiers : tier'[u].cap = tier[u].cap /\ tier[u].cap \in Nat
    BY TierCapacityAssumption DEF Checkout, TypeOK, Tier
  <1>3. \A u \in Tiers : u # t => Unslipped(reg', slipped', u) <= Unslipped(reg, slipped, u)
    BY <1>1, NewRowSeats
  <1>4. Unslipped(reg', slipped', t) <= Unslipped(reg, slipped, t) + n
    BY <1>1, NewRowSeats
  <1>5. \A u \in Tiers : /\ Unslipped(reg, slipped, u) \in Nat
                         /\ Unslipped(reg', slipped', u) \in Nat /\ Issued[u] \in Nat
                         /\ Occupied(reg, u) \in Nat
                         /\ Unslipped(reg, slipped, u) + Issued[u] <= Occupied(reg, u)
    BY UnslippedOccupy
  <1>6. Occupied(reg, t) + n <= tier[t].cap
    BY DEF Checkout, Fits
  <1>7. \A d \in Desks : /\ req'[d].op = req[d].op
                         /\ req[d].op \in Waiting => /\ req'[d].tier = req[d].tier
                                                     /\ req'[d].cap = req[d].cap
                                                     /\ req[d].tier \in Tiers
                         /\ req[d].op = "counted" /\ req[d].tier = t => req'[d].overtaken
                         /\ ~(req[d].op = "counted" /\ req[d].tier = t) => req'[d] = req[d]
    <2> TAKE d \in Desks
    <2>1. req' = Overtaking(t, {"counted"}) /\ {"counted"} \in SUBSET Waiting
      BY DEF Checkout, Waiting
    <2>2. req[d].op \in Waiting => req[d].tier \in Tiers
      BY RequestFields DEF TypeOK, UnderWay
    <2> QED
      BY <2>1, <2>2, OvertakingKeeps
  <1>8. CheckedSeatsFit'
    <2> SUFFICES ASSUME NEW u \in Tiers \ loose
                 PROVE  Unslipped(reg', slipped', u) + Issued[u] <= tier'[u].cap
      BY <1>1 DEF CheckedSeatsFit, Unslipped
    <2>1. Unslipped(reg, slipped, u) + Issued[u] <= tier[u].cap
      BY DEF SeatsSafe, CheckedSeatsFit, Unslipped
    <2>2. CASE u = t
      <3>1. n \in Nat
        BY <1>1
      <3>2. Unslipped(reg', slipped', t) + Issued[t] <= tier'[t].cap
        BY <3>1, <1>2, <1>4, <1>5, <1>6
      <3> QED
        BY <2>2, <3>2
    <2>3. CASE u # t
      BY <2>3, <2>1, <1>2, <1>3, <1>5
    <2> QED
      BY <2>2, <2>3
  <1>9. CapAsRead'
    <2> SUFFICES ASSUME NEW d \in Desks, req'[d].op \in Waiting, ~req'[d].overtaken
                 PROVE  req'[d].cap <= tier'[req'[d].tier].cap
      BY DEF CapAsRead
    <2>1. req'[d] = req[d] /\ req[d].tier \in Tiers
      BY <1>7
    <2> QED
      BY <1>2, <2>1 DEF SeatsSafe, CapAsRead
  <1>10. CountStillFits'
    <2> SUFFICES ASSUME NEW d \in Desks, req'[d].op = "counted", ~req'[d].overtaken
                 PROVE  Unslipped(reg', slipped', req'[d].tier) + Issued[req'[d].tier] + 1
                            <= tier'[req'[d].tier].cap
      BY DEF CountStillFits
    <2> DEFINE u == req[d].tier
    <2>1. req'[d] = req[d] /\ u \in Tiers /\ u # t
      BY <1>7 DEF Waiting
    <2>2. Unslipped(reg, slipped, u) + Issued[u] + 1 <= tier[u].cap
      BY <2>1 DEF SeatsSafe, CountStillFits
    <2> HIDE DEF u
    <2>3. Unslipped(reg', slipped', u) + Issued[u] + 1 <= tier'[u].cap
      BY <2>1, <2>2, <1>2, <1>3, <1>5
    <2> QED
      BY <2>1, <2>3 DEF u
  <1>11. TierHeldOnce'
    BY <1>7 DEF SeatsSafe, TierHeldOnce, HoldsTier, Waiting
  <1> QED
    BY <1>8, <1>9, <1>10, <1>11 DEF SeatsSafe

LEMMA ReturnKeepsSeats ==
    ASSUME TypeOK, SeatsSafe, NEW r \in RegIds, SeatsReturn(r)
    PROVE  SeatsSafe'
  <1>1. /\ req' = req /\ slipped' = slipped /\ loose' = loose
        /\ reg' = [reg EXCEPT ![r].status = "cancelled"]
    BY DEF SeatsReturn
  <1>2. reg[r].tier \in Tiers
    BY DEF TypeOK, Row
  <1>3. \A u \in Tiers : tier'[u].cap = tier[u].cap /\ tier[u].cap \in Nat
    BY <1>2, TierCapacityAssumption DEF SeatsReturn, Returned, TypeOK, Tier
  <1>4. \A u \in Tiers : /\ Unslipped(reg', slipped', u) <= Unslipped(reg, slipped, u)
                         /\ Unslipped(reg, slipped, u) \in Nat
                         /\ Unslipped(reg', slipped', u) \in Nat /\ Issued[u] \in Nat
    BY <1>1, ReturnedSeats, UnslippedOccupy
  <1>5. \A d \in Desks : req[d].op \in Waiting => req[d].tier \in Tiers
    BY RequestFields DEF TypeOK, UnderWay
  <1>6. CheckedSeatsFit'
    <2> SUFFICES ASSUME NEW u \in Tiers \ loose
                 PROVE  Unslipped(reg', slipped', u) + Issued[u] <= tier'[u].cap
      BY <1>1 DEF CheckedSeatsFit, Unslipped
    <2>1. Unslipped(reg, slipped, u) + Issued[u] <= tier[u].cap
      BY DEF SeatsSafe, CheckedSeatsFit, Unslipped
    <2> QED
      BY <2>1, <1>3, <1>4
  <1>7. CapAsRead'
    BY <1>1, <1>3, <1>5 DEF SeatsSafe, CapAsRead
  <1>8. CountStillFits'
    <2> SUFFICES ASSUME NEW d \in Desks, req[d].op = "counted", ~req[d].overtaken
                 PROVE  Unslipped(reg', slipped', req[d].tier) + Issued[req[d].tier] + 1
                            <= tier'[req[d].tier].cap
      BY <1>1 DEF CountStillFits
    <2>1. req[d].tier \in Tiers
      BY <1>5 DEF Waiting
    <2>2. Unslipped(reg, slipped, req[d].tier) + Issued[req[d].tier] + 1 <= tier[req[d].tier].cap
      BY DEF SeatsSafe, CountStillFits
    <2> QED
      BY <2>1, <2>2, <1>3, <1>4
  <1>9. TierHeldOnce'
    BY <1>1 DEF SeatsSafe, TierHeldOnce, HoldsTier
  <1> QED
    BY <1>6, <1>7, <1>8, <1>9 DEF SeatsSafe

\* A walk-in that nobody overtook has its seat counted; one that was overtaken
\* slips.
LEMMA CommitSeats ==
    ASSUME TypeOK, SeatsSafe, NEW h \in Desks, NEW r \in RegIds, DeskCommits(h, r)
    PROVE  SeatsSafe'
  <1> DEFINE t == req[h].tier
             row == [status |-> "verified", tier |-> t, seats |-> 1, who |-> req[h].who]
  <1>1. /\ reg[r].status = "absent" /\ reg' = [reg EXCEPT ![r] = row]
        /\ row.tier = t /\ row.seats = 1
        /\ slipped' = IF req[h].overtaken THEN slipped \cup {r} ELSE slipped
        /\ loose' = loose /\ req[h].op = "counted"
    BY DEF DeskCommits, NextId
  <1>2. t \in Tiers /\ req[h].overtaken \in BOOLEAN
    BY <1>1, RequestFields DEF TypeOK, UnderWay, Waiting
  <1> HIDE DEF row
  <1>3. \A u \in Tiers : tier'[u].cap = tier[u].cap /\ tier[u].cap \in Nat
    BY TierCapacityAssumption DEF DeskCommits, TypeOK, Tier
  <1>4. /\ \A u \in Tiers : u # t => Unslipped(reg', slipped', u) <= Unslipped(reg, slipped, u)
        /\ Unslipped(reg', slipped', t) <= Unslipped(reg, slipped, t) + 1
        /\ req[h].overtaken => Unslipped(reg', slipped', t) <= Unslipped(reg, slipped, t)
    <2>1. slipped \subseteq slipped' /\ (req[h].overtaken => r \in slipped')
      BY <1>1
    <2>2. \A u \in Tiers :
              /\ Unslipped(reg', slipped', u) <= Unslipped(reg, slipped, u) + row.seats
              /\ row.tier # u \/ r \in slipped' =>
                    Unslipped(reg', slipped', u) <= Unslipped(reg, slipped, u)
      <3>1. /\ reg[r].status = "absent" /\ row.seats \in Nat
            /\ reg' = [reg EXCEPT ![r] = row] /\ slipped \subseteq slipped'
        BY <1>1, <2>1
      <3> QED
        BY <3>1, NewRowSeats
    <2> QED
      BY <1>1, <1>2, <2>1, <2>2
  <1>5. \A u \in Tiers : /\ Unslipped(reg, slipped, u) \in Nat
                         /\ Unslipped(reg', slipped', u) \in Nat /\ Issued[u] \in Nat
    BY UnslippedOccupy
  <1>6. \A d \in Desks : req'[d] = IF d = h THEN Idle ELSE req[d]
    BY DEF DeskCommits, TypeOK
  <1>7. Idle.op = "idle" /\ (\A d \in Desks : req[d].op \in Waiting => req[d].tier \in Tiers)
    BY RequestFields DEF TypeOK, UnderWay, Idle
  <1>8. CheckedSeatsFit'
    <2> SUFFICES ASSUME NEW u \in Tiers \ loose
                 PROVE  Unslipped(reg', slipped', u) + Issued[u] <= tier'[u].cap
      BY <1>1 DEF CheckedSeatsFit, Unslipped
    <2>1. Unslipped(reg, slipped, u) + Issued[u] <= tier[u].cap
      BY DEF SeatsSafe, CheckedSeatsFit, Unslipped
    <2>2. CASE u # t \/ req[h].overtaken
      BY <2>1, <2>2, <1>3, <1>4, <1>5
    <2>3. CASE u = t /\ ~req[h].overtaken
      <3>1. Unslipped(reg, slipped, t) + Issued[t] + 1 <= tier[t].cap
        BY <2>3, <1>1 DEF SeatsSafe, CountStillFits
      <3>2. Unslipped(reg', slipped', t) + Issued[t] <= tier'[t].cap
        <4> HIDE DEF t
        <4> QED
          BY <3>1, <1>2, <1>3, <1>4, <1>5
      <3> QED
        BY <2>3, <3>2
    <2> QED
      BY <2>2, <2>3
  <1>9. CapAsRead'
    BY <1>3, <1>6, <1>7 DEF SeatsSafe, CapAsRead, Waiting
  <1>10. CountStillFits'
    <2> SUFFICES ASSUME NEW d \in Desks, req'[d].op = "counted", ~req'[d].overtaken
                 PROVE  Unslipped(reg', slipped', req'[d].tier) + Issued[req'[d].tier] + 1
                            <= tier'[req'[d].tier].cap
      BY DEF CountStillFits
    <2> DEFINE u == req[d].tier
    <2>1. d # h /\ req'[d] = req[d] /\ u \in Tiers
      BY <1>6, <1>7 DEF Waiting
    <2>2. u # t
      BY <1>1, <2>1 DEF SeatsSafe, TierHeldOnce, HoldsTier
    <2>3. Unslipped(reg, slipped, u) + Issued[u] + 1 <= tier[u].cap
      BY <2>1 DEF SeatsSafe, CountStillFits
    <2> HIDE DEF u
    <2>4. Unslipped(reg', slipped', u) + Issued[u] + 1 <= tier'[u].cap
      BY <2>1, <2>2, <2>3, <1>3, <1>4, <1>5
    <2> QED
      BY <2>1, <2>4 DEF u
  <1>11. TierHeldOnce'
    BY <1>6, <1>7 DEF SeatsSafe, TierHeldOnce, HoldsTier
  <1> QED
    BY <1>8, <1>9, <1>10, <1>11 DEF SeatsSafe

\* A lower capacity overtakes every request that read the old one; a capacity
\* that was compared with the count leaves room for it.
LEMMA EditSeats ==
    ASSUME TypeOK, SeatsSafe, NEW h \in Admins, NEW cap \in 0 .. MaxCap, EditCommits(h, cap)
    PROVE  SeatsSafe'
  <1> DEFINE t == req[h].tier
             o == IF cap < tier[t].cap THEN Overtaking(t, Waiting) ELSE req
  <1>1. t \in Tiers /\ h \notin Desks
    BY RequestFields, TierCapacityAssumption DEF EditCommits, TypeOK, UnderWay
  <1>2. cap \in Nat /\ \A u \in Tiers : /\ tier[u].cap \in Nat
                                       /\ tier'[u].cap = IF u = t THEN cap ELSE tier[u].cap
    BY <1>1, TierCapacityAssumption DEF EditCommits, TypeOK, Tier
  <1>3. reg' = reg /\ slipped' = slipped
    BY DEF EditCommits
  <1>4. \A d \in Desks : req'[d] = o[d]
    <2>1. req' = [o EXCEPT ![h] = Idle]
      BY DEF EditCommits, Waiting
    <2>2. DOMAIN o = Desks \cup Admins
      BY DEF Overtaking, TypeOK
    <2> HIDE DEF o
    <2> QED
      BY <1>1, <2>1, <2>2
  <1>5. \A d \in Desks : /\ req'[d].op = req[d].op
                         /\ req[d].op \in Waiting =>
                              /\ req'[d].tier = req[d].tier /\ req'[d].cap = req[d].cap
                              /\ req[d].tier \in Tiers /\ req[d].cap \in Nat
                         /\ req[d].op \in Waiting /\ req[d].tier = t /\ cap < tier[t].cap =>
                              req'[d].overtaken
                         /\ ~req'[d].overtaken /\ req[d].op \in Waiting => req'[d] = req[d]
    <2> TAKE d \in Desks
    <2>1. req[d].op \in Waiting => req[d].tier \in Tiers /\ req[d].cap \in Nat
      BY RequestFields, TierCapacityAssumption DEF TypeOK, UnderWay
    <2>2. CASE cap < tier[t].cap
      <3>1. req'[d] = Overtaking(t, Waiting)[d]
        BY <1>4, <2>2
      <3> HIDE DEF t
      <3> QED
        BY <2>1, <2>2, <3>1, OvertakingKeeps
    <2>3. CASE ~(cap < tier[t].cap)
      BY <1>4, <2>1, <2>3
    <2> QED
      BY <2>2, <2>3
  <1>6. \A u \in Tiers : /\ Unslipped(reg, slipped, u) \in Nat /\ Issued[u] \in Nat
                         /\ Occupied(reg, u) \in Nat
                         /\ Unslipped(reg, slipped, u) + Issued[u] <= Occupied(reg, u)
    BY UnslippedOccupy
  <1> HIDE DEF o
  <1>7. CheckedSeatsFit'
    <2> SUFFICES ASSUME NEW u \in Tiers, u \notin loose'
                 PROVE  Unslipped(reg, slipped, u) + Issued[u] <= tier'[u].cap
      BY <1>3 DEF CheckedSeatsFit, Unslipped
    <2>1. u \notin loose => Unslipped(reg, slipped, u) + Issued[u] <= tier[u].cap
      BY DEF SeatsSafe, CheckedSeatsFit, Unslipped
    <2>2. CASE u # t
      <3>1. u \notin loose
        BY <2>2 DEF EditCommits
      <3> QED
        BY <2>1, <2>2, <3>1, <1>2
    <2>3. CASE u = t /\ cap # req[h].cap
      <3>1. Occupied(reg, t) <= cap
        BY <1>1, <2>3, ReservedIsOccupied DEF EditCommits, CutAllowed
      <3> HIDE DEF t
      <3> QED
        BY <2>3, <3>1, <1>2, <1>6
    <2>4. CASE u = t /\ cap = req[h].cap
      <3>1. u \notin loose /\ ~(cap < tier[t].cap)
        BY <2>4 DEF EditCommits
      <3> HIDE DEF t
      <3> QED
        BY <2>1, <2>4, <3>1, <1>2, <1>6
    <2> QED
      BY <2>2, <2>3, <2>4
  <1> HIDE DEF t
  <1>8. CapAsRead'
    <2> SUFFICES ASSUME NEW d \in Desks, req'[d].op \in Waiting, ~req'[d].overtaken
                 PROVE  req'[d].cap <= tier'[req'[d].tier].cap
      BY DEF CapAsRead
    <2>1. req'[d] = req[d] /\ req[d].tier \in Tiers /\ req[d].cap \in Nat
      BY <1>5
    <2>2. req[d].cap <= tier[req[d].tier].cap
      BY <2>1 DEF SeatsSafe, CapAsRead
    <2>3. req[d].tier = t => ~(cap < tier[t].cap)
      BY <1>5, <2>1
    <2> QED
      BY <2>1, <2>2, <2>3, <1>2
  <1>9. CountStillFits'
    <2> SUFFICES ASSUME NEW d \in Desks, req'[d].op = "counted", ~req'[d].overtaken
                 PROVE  Unslipped(reg, slipped, req'[d].tier) + Issued[req'[d].tier] + 1
                            <= tier'[req'[d].tier].cap
      BY <1>3 DEF CountStillFits
    <2> DEFINE u == req[d].tier
    <2>1. req'[d] = req[d] /\ u \in Tiers
      BY <1>5 DEF Waiting
    <2>2. Unslipped(reg, slipped, u) + Issued[u] + 1 <= tier[u].cap
      BY <2>1 DEF SeatsSafe, CountStillFits
    <2>3. u = t => ~(cap < tier[t].cap)
      BY <1>5, <2>1 DEF Waiting
    <2> HIDE DEF u
    <2>4. Unslipped(reg, slipped, u) + Issued[u] + 1 <= tier'[u].cap
      BY <2>1, <2>2, <2>3, <1>2, <1>6
    <2> QED
      BY <2>1, <2>4 DEF u
  <1>10. TierHeldOnce'
    BY <1>5 DEF SeatsSafe, TierHeldOnce, HoldsTier, Waiting
  <1> QED
    BY <1>7, <1>8, <1>9, <1>10 DEF SeatsSafe

LEMMA InitSeats == Init => SeatsSafe
  <1> SUFFICES ASSUME Init PROVE SeatsSafe
    OBVIOUS
  <1>1. ASSUME NEW t \in Tiers
        PROVE  Unslipped(reg, slipped, t) + Issued[t] <= tier[t].cap
    <2>1. SeatUnits(reg, RegIds \ slipped, ACTIVE_REGISTRATION_STATUSES, t) = {}
      BY DEF Init, SeatUnits, ACTIVE_REGISTRATION_STATUSES
    <2>2. Unslipped(reg, slipped, t) = 0
      BY <2>1, FS_EmptySet DEF Unslipped
    <2>3. Issued[t] <= StartCap[t] /\ Issued[t] \in Nat /\ tier[t].cap = StartCap[t]
      BY TierCapacityAssumption, SeatUsageAssumption DEF Init
    <2> QED
      BY <2>2, <2>3
  <1>2. \A d \in Desks : req[d].op = "idle"
    BY DEF Init, Idle
  <1> QED
    BY <1>1, <1>2
       DEF SeatsSafe, CheckedSeatsFit, Unslipped, CapAsRead, CountStillFits, TierHeldOnce, Waiting

LEMMA NextSeats == TypeOK /\ SeatsSafe /\ [Next]_vars => SeatsSafe'
  <1> SUFFICES ASSUME TypeOK, SeatsSafe, [Next]_vars PROVE SeatsSafe'
    OBVIOUS
  <1>1. CASE Selling
    BY <1>1, CheckoutSeats, ReturnKeepsSeats DEF Selling
  <1>2. ASSUME NEW h \in Desks, NEW who \in Visitors, NEW t \in Tiers, DeskReads(h, who, t)
        PROVE  SeatsSafe'
    <2> DEFINE q == [op |-> "read", who |-> who, tier |-> t, cap |-> tier[t].cap,
                     count |-> 0, overtaken |-> FALSE]
    <2>1. tier[t].cap \in 0 .. MaxCap /\ MaxCap \in Nat
      BY TierCapacityAssumption DEF TypeOK, Tier
    <2>2. /\ q \in UnderWay /\ q.op = "read" /\ q.cap <= tier[q.tier].cap
          /\ req' = [req EXCEPT ![h] = q]
      BY <1>2, <2>1 DEF DeskReads, UnderWay, DeskRequest
    <2>3. reg' = reg /\ tier' = tier /\ slipped' = slipped /\ loose' = loose
      BY <1>2 DEF DeskReads
    <2> HIDE DEF q
    <2> QED
      BY <2>2, <2>3, RequestsMove
  <1>3. ASSUME NEW h \in Desks, DeskLooks(h) PROVE SeatsSafe'
    <2> DEFINE q == [req[h] EXCEPT !.op = "looked"]
    <2>1. req[h] \in DeskRequest /\ req[h].op = "read"
      BY <1>3, RequestFields DEF DeskLooks, TypeOK, UnderWay, Waiting
    <2>2. /\ q \in UnderWay /\ q.op = "looked" /\ q.tier = req[h].tier
          /\ q.cap = req[h].cap /\ q.overtaken = req[h].overtaken
          /\ req' = [req EXCEPT ![h] = q]
      BY <1>3, <2>1 DEF DeskLooks, UnderWay, DeskRequest
    <2>3. reg' = reg /\ tier' = tier /\ slipped' = slipped /\ loose' = loose
      BY <1>3 DEF DeskLooks
    <2> HIDE DEF q
    <2>4. ~q.overtaken => q.cap <= tier[q.tier].cap
      BY <2>1, <2>2 DEF SeatsSafe, CapAsRead, Waiting
    <2> QED
      BY <2>2, <2>3, <2>4, RequestsMove
  <1>4. ASSUME NEW h \in Desks, DeskCounts(h) PROVE SeatsSafe'
    <2> DEFINE t == req[h].tier
               q == [req[h] EXCEPT !.op = "counted", !.count = Occupied(reg, t)]
    <2>1. req[h] \in DeskRequest /\ req[h].op = "looked" /\ t \in Tiers /\ req[h].cap \in 0 .. MaxCap
      BY <1>4, RequestFields DEF DeskCounts, TypeOK, UnderWay, Waiting
    <2>2. /\ Unslipped(reg, slipped, t) \in Nat /\ Issued[t] \in Nat
          /\ Occupied(reg, t) \in Nat
          /\ Unslipped(reg, slipped, t) + Issued[t] <= Occupied(reg, t)
          /\ tier[t].cap \in Nat /\ req[h].cap \in Nat
      BY <2>1, UnslippedOccupy, TierCapacityAssumption DEF TypeOK, Tier
    <2>3. /\ q \in UnderWay /\ q.op = "counted" /\ q.tier = t
          /\ q.cap = req[h].cap /\ q.overtaken = req[h].overtaken
          /\ req' = [req EXCEPT ![h] = q]
      BY <1>4, <2>1, <2>2 DEF DeskCounts, UnderWay, DeskRequest
    <2>4. /\ reg' = reg /\ tier' = tier /\ slipped' = slipped /\ loose' = loose
          /\ Occupied(reg, t) < req[h].cap /\ TierFree(h)
      BY <1>4 DEF DeskCounts
    <2>5. ~req[h].overtaken => req[h].cap <= tier[t].cap
      BY <2>1 DEF SeatsSafe, CapAsRead, Waiting
    <2> HIDE DEF q, t
    <2>6. ~q.overtaken => Unslipped(reg, slipped, t) + Issued[t] + 1 <= tier[t].cap
      BY <2>2, <2>3, <2>4, <2>5
    <2> QED
      BY <2>3, <2>4, <2>5, <2>6, RequestsMove DEF t
  <1>5. ASSUME NEW h \in Desks, NEW r \in RegIds, DeskCommits(h, r) PROVE SeatsSafe'
    BY <1>5, CommitSeats
  <1>6. ASSUME NEW h \in Desks \cup Admins, Ends(h) PROVE SeatsSafe'
    <2>1. /\ req' = [req EXCEPT ![h] = Idle] /\ Idle \in UnderWay
          /\ Idle.op \notin Waiting /\ Idle.op # "counted"
          /\ reg' = reg /\ tier' = tier /\ slipped' = slipped /\ loose' = loose
      BY <1>6 DEF Ends, UnderWay, Idle, Waiting
    <2> QED
      BY <2>1, RequestsMove
  <1>7. ASSUME NEW h \in Admins, NEW t \in Tiers, EditReads(h, t) PROVE SeatsSafe'
    <2> DEFINE q == [op |-> "edit", tier |-> t, cap |-> tier[t].cap]
    <2>1. /\ q \in UnderWay /\ q.op \notin Waiting /\ q.op # "counted"
          /\ req' = [req EXCEPT ![h] = q]
          /\ reg' = reg /\ tier' = tier /\ slipped' = slipped /\ loose' = loose
      BY <1>7 DEF EditReads, TypeOK, Tier, UnderWay, EditRequest, Waiting
    <2> HIDE DEF q
    <2> QED
      BY <2>1, RequestsMove
  <1>8. ASSUME NEW h \in Admins, NEW cap \in 0 .. MaxCap, EditCommits(h, cap) PROVE SeatsSafe'
    BY <1>8, EditSeats
  <1>9. ASSUME NEW t \in Tiers, NEW s, tier' = [tier EXCEPT ![t].shown = s],
               UNCHANGED <<reg, req, slipped, loose>>
        PROVE  SeatsSafe'
    <2>1. \A u \in Tiers : tier'[u].cap = tier[u].cap
      BY <1>9 DEF TypeOK, Tier
    <2>2. \A d \in Desks : req[d].op \in Waiting => req[d].tier \in Tiers
      BY RequestFields DEF TypeOK, UnderWay
    <2> QED
      BY <1>9, <2>1, <2>2
         DEF SeatsSafe, CheckedSeatsFit, CapAsRead, CountStillFits, TierHeldOnce, HoldsTier, Waiting
  <1>10. CASE UNCHANGED vars
    BY <1>10 DEF vars, SeatsSafe, CheckedSeatsFit, CapAsRead, CountStillFits, TierHeldOnce, HoldsTier
  <1>11. CASE Admitting
    BY <1>2, <1>3, <1>4, <1>5, <1>11 DEF Admitting
  <1>12. CASE Editing
    BY <1>7, <1>8, <1>9, <1>12 DEF Editing, SetVisible, Delete
  <1> QED
    BY <1>1, <1>6, <1>10, <1>11, <1>12 DEF Next

\* Checkout, the walk-in desk, capacity edits and deletions together exceed a
\* capacity only by walk-ins that were overtaken after the desk read or counted,
\* or in a tier whose capacity an edit wrote without a count.
THEOREM OnlyOvertakenSlip == Spec => []CheckedSeatsFit
  <1>1. Init => TypeOK /\ SeatsSafe
    BY InitType, InitSeats
  <1>2. (TypeOK /\ SeatsSafe) /\ [Next]_vars => (TypeOK /\ SeatsSafe)'
    BY NextType, NextSeats
  <1>3. SeatsSafe => CheckedSeatsFit
    BY DEF SeatsSafe
  <1> QED
    BY <1>1, <1>2, <1>3, PTL DEF Spec

-----------------------------------------------------------------------------
(* Persons *)

Inside == {"looked", "counted"}

PersonHeldOnce == \A d, e \in Desks :
    req[d].op \in Inside /\ HoldsPerson(e, LockKey(req[d].who)) => d = e

KeyIsFree == \A d \in Desks, r \in RegIds :
    req[d].op \in Inside /\ Active(r) /\ reg[r].who # Nobody =>
        LockKey(reg[r].who) # LockKey(req[d].who)

PersonsSafe == OneWalkInPerKey /\ PersonHeldOnce /\ KeyIsFree

\* Whoever shares a lock key is the same person to the duplicate lookup.
LEMMA SameKeySamePerson ==
    ASSUME NEW a, NEW b, LockKey(a) = LockKey(b)
    PROVE  SamePerson(a, b)
  BY DEF LockKey, SamePerson

\* Requests keep their persons or end, and the only new holder of a key is a
\* desk that found it free.
LEMMA PersonsMove ==
    ASSUME PersonsSafe,
           \A r \in RegIds : Active(r)' => \/ Active(r) /\ reg'[r].who = reg[r].who
                                          \/ reg'[r].who = Nobody,
           \A d \in Desks : req'[d].op \in Inside =>
               req[d].op \in Inside /\ req'[d].who = req[d].who
    PROVE  PersonsSafe'
  <1>1. OneWalkInPerKey'
    BY DEF PersonsSafe, OneWalkInPerKey
  <1>2. PersonHeldOnce'
    BY DEF PersonsSafe, PersonHeldOnce, HoldsPerson, Inside
  <1>3. KeyIsFree'
    BY DEF PersonsSafe, KeyIsFree
  <1> QED
    BY <1>1, <1>2, <1>3 DEF PersonsSafe

LEMMA NextPersons == TypeOK /\ PersonsSafe /\ [Next]_vars => PersonsSafe'
  <1> SUFFICES ASSUME TypeOK, PersonsSafe, [Next]_vars PROVE PersonsSafe'
    OBVIOUS
  <1>1. ASSUME NEW r \in RegIds, NEW t \in Tiers, NEW n \in 1 .. MaxPerOrder,
               Checkout(r, t, n)
        PROVE  PersonsSafe'
    <2>1. \A d \in Desks : req'[d].op = req[d].op
                           /\ (req[d].op \in Inside => req'[d].who = req[d].who)
      BY <1>1, OvertakingKeeps DEF Checkout, Waiting, Inside
    <2>2. \A q \in RegIds : reg'[q] = reg[q] \/ reg'[q].who = Nobody
      BY <1>1 DEF Checkout, TypeOK
    <2> QED
      BY <2>1, <2>2, PersonsMove DEF Active
  <1>2. ASSUME NEW r \in RegIds, SeatsReturn(r) PROVE PersonsSafe'
    <2>1. \A q \in RegIds : Active(q)' => reg'[q] = reg[q]
      BY <1>2 DEF SeatsReturn, TypeOK, Active, ACTIVE_REGISTRATION_STATUSES
    <2>2. req' = req
      BY <1>2 DEF SeatsReturn
    <2> QED
      BY <2>1, <2>2, PersonsMove DEF Active
  <1>3. ASSUME NEW h \in Desks, DeskLooks(h) PROVE PersonsSafe'
    <2> DEFINE w == req[h].who
    <2>1. req[h] \in DeskRequest
      BY <1>3, RequestFields DEF DeskLooks, TypeOK, UnderWay, Waiting
    <2>2. /\ reg' = reg
          /\ \A d \in Desks \ {h} : req'[d] = req[d]
          /\ req'[h].op = "looked" /\ req'[h].who = w
      BY <1>3, <2>1 DEF DeskLooks, TypeOK, DeskRequest
    <2>3. \A d \in Desks \ {h} : ~HoldsPerson(d, LockKey(w))
      BY <1>3 DEF DeskLooks, PersonFree
    <2>4. \A r \in RegIds : Active(r) /\ reg[r].who # Nobody => LockKey(reg[r].who) # LockKey(w)
      BY <1>3, SameKeySamePerson DEF DeskLooks
    <2> HIDE DEF w
    <2>5. OneWalkInPerKey'
      BY <2>2 DEF PersonsSafe, OneWalkInPerKey, Active
    <2>6. PersonHeldOnce'
      BY <2>2, <2>3 DEF PersonsSafe, PersonHeldOnce, HoldsPerson, Inside
    <2>7. KeyIsFree'
      BY <2>2, <2>4 DEF PersonsSafe, KeyIsFree, Active
    <2> QED
      BY <2>5, <2>6, <2>7 DEF PersonsSafe
  <1>4. ASSUME NEW h \in Desks, NEW r \in RegIds, DeskCommits(h, r) PROVE PersonsSafe'
    <2> DEFINE w == req[h].who
    <2>1. req[h].op = "counted"
      BY <1>4 DEF DeskCommits
    <2>2. /\ \A d \in Desks \ {h} : req'[d] = req[d]
          /\ req'[h] = Idle /\ Idle.op \notin Inside
      BY <1>4 DEF DeskCommits, TypeOK, Idle, Inside
    <2>3. /\ \A q \in RegIds \ {r} : reg'[q] = reg[q]
          /\ reg'[r].who = w
      BY <1>4 DEF DeskCommits, TypeOK
    <2>4. \A q \in RegIds : Active(q) /\ reg[q].who # Nobody => LockKey(reg[q].who) # LockKey(w)
      BY <2>1 DEF PersonsSafe, KeyIsFree, Inside
    <2>5. \A d \in Desks \ {h} : req[d].op \in Inside => LockKey(req[d].who) # LockKey(w)
      BY <2>1 DEF PersonsSafe, PersonHeldOnce, HoldsPerson, Inside
    <2> HIDE DEF w
    <2>6. OneWalkInPerKey'
      BY <2>3, <2>4 DEF PersonsSafe, OneWalkInPerKey, Active
    <2>7. PersonHeldOnce'
      BY <2>2 DEF PersonsSafe, PersonHeldOnce, HoldsPerson, Inside
    <2>8. KeyIsFree'
      BY <2>2, <2>3, <2>5 DEF PersonsSafe, KeyIsFree, Active
    <2> QED
      BY <2>6, <2>7, <2>8 DEF PersonsSafe
  <1>5. ASSUME NEW h \in Desks, DeskCounts(h) PROVE PersonsSafe'
    <2>1. req[h] \in DeskRequest /\ req[h].op = "looked"
      BY <1>5, RequestFields DEF DeskCounts, TypeOK, UnderWay, Waiting
    <2>2. /\ \A d \in Desks \ {h} : req'[d] = req[d]
          /\ req'[h].who = req[h].who /\ reg' = reg
      BY <1>5, <2>1 DEF DeskCounts, TypeOK, DeskRequest
    <2> QED
      BY <2>1, <2>2, PersonsMove DEF Active, Inside
  <1>6. ASSUME NEW h \in Desks \cup Admins, NEW q, q.op \notin Inside,
               req' = [req EXCEPT ![h] = q], reg' = reg
        PROVE  PersonsSafe'
    <2>1. \A d \in Desks : req'[d] = q \/ req'[d] = req[d]
      BY <1>6 DEF TypeOK
    <2> QED
      BY <1>6, <2>1, PersonsMove DEF Active
  <1>7. ASSUME NEW h \in Desks, NEW who \in Visitors, NEW t \in Tiers, DeskReads(h, who, t)
        PROVE  PersonsSafe'
    <2> DEFINE q == [op |-> "read", who |-> who, tier |-> t, cap |-> tier[t].cap,
                     count |-> 0, overtaken |-> FALSE]
    <2>1. q.op \notin Inside /\ req' = [req EXCEPT ![h] = q] /\ reg' = reg
      BY <1>7 DEF DeskReads, Inside
    <2> HIDE DEF q
    <2> QED
      BY <1>6, <2>1
  <1>8. ASSUME NEW h \in Admins, NEW t \in Tiers, EditReads(h, t) PROVE PersonsSafe'
    <2> DEFINE q == [op |-> "edit", tier |-> t, cap |-> tier[t].cap]
    <2>1. q.op \notin Inside /\ req' = [req EXCEPT ![h] = q] /\ reg' = reg
      BY <1>8 DEF EditReads, Inside
    <2> HIDE DEF q
    <2> QED
      BY <1>6, <2>1
  <1>9. ASSUME NEW h \in Desks \cup Admins, Ends(h) PROVE PersonsSafe'
    <2>1. Idle.op \notin Inside
      BY DEF Idle, Inside
    <2> QED
      BY <1>6, <1>9, <2>1 DEF Ends
  <1>10. ASSUME NEW h \in Admins, NEW cap \in 0 .. MaxCap, EditCommits(h, cap)
         PROVE  PersonsSafe'
    <2> DEFINE o == Overtaking(req[h].tier, Waiting)
    <2>1. \A d \in Desks : o[d].op = req[d].op
                           /\ (req[d].op \in Inside => o[d].who = req[d].who)
      BY OvertakingKeeps DEF Waiting, Inside
    <2>2. /\ req' = [o EXCEPT ![h] = Idle] \/ req' = [req EXCEPT ![h] = Idle]
          /\ reg' = reg
      BY <1>10 DEF EditCommits, Waiting
    <2>3. DOMAIN o = Desks \cup Admins /\ h \notin Desks
      BY TierCapacityAssumption DEF Overtaking
    <2> HIDE DEF o
    <2>4. \A d \in Desks : req'[d].op \in Inside =>
              req[d].op \in Inside /\ req'[d].who = req[d].who
      BY <2>1, <2>2, <2>3 DEF TypeOK
    <2> QED
      BY <2>2, <2>4, PersonsMove DEF Active
  <1>11. CASE UNCHANGED <<reg, req>>
    BY <1>11, PersonsMove DEF Active
  <1>12. CASE Admitting
    BY <1>3, <1>4, <1>5, <1>7, <1>12 DEF Admitting
  <1>13. CASE Editing
    BY <1>8, <1>10, <1>11, <1>13 DEF Editing, SetVisible, Delete
  <1>14. CASE Selling
    BY <1>1, <1>2, <1>14 DEF Selling
  <1>15. CASE UNCHANGED vars
    BY <1>11, <1>15 DEF vars
  <1> QED
    BY <1>9, <1>12, <1>13, <1>14, <1>15 DEF Next

\* However many devices send a person at the same time, one lock key has at most
\* one active walk-in.
THEOREM OneWalkIn == Spec => []OneWalkInPerKey
  <1>1. Init => TypeOK /\ PersonsSafe
    <2> SUFFICES ASSUME Init PROVE PersonsSafe
      BY InitType
    <2>1. \A r \in RegIds : ~Active(r)
      BY DEF Init, Active, ACTIVE_REGISTRATION_STATUSES
    <2>2. \A d \in Desks : req[d].op \notin Inside
      BY DEF Init, Idle, Inside
    <2> QED
      BY <2>1, <2>2 DEF PersonsSafe, OneWalkInPerKey, PersonHeldOnce, KeyIsFree
  <1>2. (TypeOK /\ PersonsSafe) /\ [Next]_vars => (TypeOK /\ PersonsSafe)'
    BY NextType, NextPersons
  <1>3. PersonsSafe => OneWalkInPerKey
    BY DEF PersonsSafe
  <1> QED
    BY <1>1, <1>2, <1>3, PTL DEF Spec

-----------------------------------------------------------------------------
(* Deletion *)

\* A tier without reserved seats has no active registration.
LEMMA EmptyTier ==
    ASSUME TypeOK, NEW t \in Tiers, Empty(t), NEW r \in RegIds, Active(r)
    PROVE  reg[r].tier # t
  <1> SUFFICES ASSUME reg[r].tier = t PROVE FALSE
    OBVIOUS
  <1> DEFINE units == SeatUnits(reg, RegIds, ACTIVE_REGISTRATION_STATUSES, t)
  <1>1. <<r, 1>> \in units
    <2>1. reg[r].seats \in 1 .. MaxPerOrder
      BY DEF TypeOK, Row
    <2> QED
      BY <2>1, SeatUsageAssumption DEF SeatUnits, Active
  <1>2. IsFiniteSet(units) /\ Cardinality(units) \in Nat
    <2>1. RegIds \in SUBSET RegIds
      OBVIOUS
    <2> QED
      BY <2>1, SeatUnitsFinite
  <1>3. Cardinality(units) + Issued[t] = 0 /\ Issued[t] \in Nat
    BY ReservedIsOccupied, SeatUsageAssumption DEF Empty, Occupied, Seats
  <1> HIDE DEF units
  <1>4. Cardinality(units) = 0
    BY <1>2, <1>3
  <1> QED
    BY <1>1, <1>2, <1>4, FS_EmptySet

LEMMA NextDeleted == TypeOK /\ DeletedTierIsEmpty /\ [Next]_vars => DeletedTierIsEmpty'
  <1> SUFFICES ASSUME TypeOK, DeletedTierIsEmpty, [Next]_vars,
                      NEW r \in RegIds, Active(r)'
               PROVE  Exists(reg[r].tier)'
    BY DEF DeletedTierIsEmpty
  <1>1. ASSUME NEW q \in RegIds, NEW t \in Tiers, NEW n \in 1 .. MaxPerOrder,
               Checkout(q, t, n)
        PROVE  Exists(reg[r].tier)'
    <2>1. \A u \in Tiers : tier'[u].shown = tier[u].shown
      BY <1>1 DEF Checkout, TypeOK, Tier
    <2>2. (r = q /\ reg'[r].tier = t) \/ (r # q /\ reg'[r] = reg[r])
      BY <1>1 DEF Checkout, TypeOK
    <2>3. reg[r].tier \in Tiers
      BY DEF TypeOK, Row
    <2> QED
      BY <1>1, <2>1, <2>2, <2>3 DEF Checkout, Exists, DeletedTierIsEmpty, Active
  <1>2. ASSUME NEW q \in RegIds, SeatsReturn(q) PROVE Exists(reg[r].tier)'
    <2>1. \A u \in Tiers : tier'[u].shown = tier[u].shown
      <3>1. reg[q].tier \in Tiers
        BY DEF TypeOK, Row
      <3> QED
        BY <1>2, <3>1 DEF SeatsReturn, Returned, TypeOK, Tier
    <2>2. reg'[r] = reg[r] /\ reg[r].tier \in Tiers
      BY <1>2 DEF SeatsReturn, TypeOK, Row, Active, ACTIVE_REGISTRATION_STATUSES
    <2> QED
      BY <2>1, <2>2 DEF Exists, DeletedTierIsEmpty, Active
  <1>3. ASSUME NEW h \in Desks, NEW q \in RegIds, DeskCommits(h, q)
        PROVE  Exists(reg[r].tier)'
    <2>1. req[h].tier \in Tiers
      BY <1>3, RequestFields DEF DeskCommits, TypeOK, UnderWay, Waiting
    <2>2. \A u \in Tiers : tier'[u].shown = tier[u].shown
      BY <1>3, <2>1 DEF DeskCommits, TypeOK, Tier
    <2>3. (r = q /\ reg'[r].tier = req[h].tier) \/ (r # q /\ reg'[r] = reg[r])
      BY <1>3 DEF DeskCommits, TypeOK
    <2>4. reg[r].tier \in Tiers
      BY DEF TypeOK, Row
    <2> QED
      BY <1>3, <2>1, <2>2, <2>3, <2>4 DEF DeskCommits, Exists, DeletedTierIsEmpty, Active
  <1>4. ASSUME NEW h \in Admins, NEW cap \in 0 .. MaxCap, EditCommits(h, cap)
        PROVE  Exists(reg[r].tier)'
    <2>1. reg' = reg /\ \A u \in Tiers : tier'[u].shown = tier[u].shown
      BY <1>4 DEF EditCommits, TypeOK, Tier
    <2>2. reg[r].tier \in Tiers
      BY DEF TypeOK, Row
    <2> QED
      BY <2>1, <2>2 DEF Exists, DeletedTierIsEmpty, Active
  <1>5. ASSUME NEW t \in Tiers, NEW s \in {"visible", "hidden"}, SetVisible(t, s)
        PROVE  Exists(reg[r].tier)'
    <2>1. reg' = reg /\ \A u \in Tiers : tier'[u].shown = IF u = t THEN s ELSE tier[u].shown
      BY <1>5 DEF SetVisible, TypeOK, Tier
    <2>2. reg[r].tier \in Tiers
      BY DEF TypeOK, Row
    <2> QED
      BY <2>1, <2>2 DEF Exists, DeletedTierIsEmpty, Active
  <1>6. ASSUME NEW t \in Tiers, Delete(t) PROVE Exists(reg[r].tier)'
    <2>1. reg' = reg /\ \A u \in Tiers : u # t => tier'[u].shown = tier[u].shown
      BY <1>6 DEF Delete, TypeOK, Tier
    <2>2. reg[r].tier \in Tiers /\ reg[r].tier # t
      <3>1. Active(r)
        BY <2>1 DEF Active
      <3> QED
        BY <1>6, <3>1, EmptyTier DEF Delete, TypeOK, Row
    <2> QED
      BY <2>1, <2>2 DEF Exists, DeletedTierIsEmpty, Active
  <1>7. CASE UNCHANGED <<reg, tier>>
    BY <1>7 DEF Exists, DeletedTierIsEmpty, Active
  <1>8. CASE Selling
    BY <1>1, <1>2, <1>8 DEF Selling
  <1>9. CASE Admitting
    BY <1>3, <1>7, <1>9 DEF Admitting, DeskReads, DeskLooks, DeskCounts
  <1>10. CASE Editing
    BY <1>4, <1>5, <1>6, <1>7, <1>10 DEF Editing, EditReads
  <1> QED
    BY <1>7, <1>8, <1>9, <1>10 DEF Next, Ends, vars

\* A deletion that meets a checkout or a walk-in leaves no active registration
\* without its tier.
THEOREM DeletionIsClean == Spec => []DeletedTierIsEmpty
  <1>1. Init => TypeOK /\ DeletedTierIsEmpty
    BY InitType DEF Init, DeletedTierIsEmpty, Active, ACTIVE_REGISTRATION_STATUSES
  <1>2. (TypeOK /\ DeletedTierIsEmpty) /\ [Next]_vars => (TypeOK /\ DeletedTierIsEmpty)'
    BY NextType, NextDeleted
  <1> QED
    BY <1>1, <1>2, PTL DEF Spec

=============================================================================
