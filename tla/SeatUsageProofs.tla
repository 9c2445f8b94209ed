--------------------------- MODULE SeatUsageProofs ---------------------------
(***************************************************************************)
(* Counting seats by cardinality: the lemmas every capacity proof cites,   *)
(* and that the admin's three counts add up to the public one.             *)
(***************************************************************************)
EXTENDS SeatUsage, FiniteSetTheorems, TLAPS

LEMMA SeatUnitsFinite ==
    ASSUME NEW rows, NEW ids \in SUBSET RegIds, NEW statuses, NEW t
    PROVE  /\ IsFiniteSet(SeatUnits(rows, ids, statuses, t))
           /\ Cardinality(SeatUnits(rows, ids, statuses, t)) \in Nat
  <1>1. IsFiniteSet(1 .. MaxRegs) /\ IsFiniteSet(1 .. MaxPerOrder)
    BY SeatUsageAssumption, FS_Interval
  <1>2. IsFiniteSet(ids)
    BY <1>1, FS_Subset DEF RegIds
  <1>3. IsFiniteSet(ids \X (1 .. MaxPerOrder))
    BY <1>1, <1>2, FS_Product
  <1>4. SeatUnits(rows, ids, statuses, t) \in SUBSET (ids \X (1 .. MaxPerOrder))
    BY DEF SeatUnits
  <1>5. IsFiniteSet(SeatUnits(rows, ids, statuses, t))
    BY <1>3, <1>4, FS_Subset
  <1> QED
    BY <1>5, FS_CardinalityType

LEMMA OccupiedType ==
    ASSUME NEW rows, NEW t \in Tiers
    PROVE  Occupied(rows, t) \in Nat
  <1>1. Seats(rows, ACTIVE_REGISTRATION_STATUSES, t) \in Nat
    BY SeatUnitsFinite DEF Seats
  <1>2. Issued[t] \in Nat
    BY SeatUsageAssumption
  <1> QED
    BY <1>1, <1>2 DEF Occupied

\* Units that are all among others are no more than they.
LEMMA FewerUnits ==
    ASSUME NEW units, NEW others, IsFiniteSet(others), units \subseteq others
    PROVE  Cardinality(units) <= Cardinality(others)
  BY FS_Subset

LEMMA RowUnits ==
    ASSUME NEW r, NEW n \in Nat
    PROVE  IsFiniteSet({r} \X (1 .. n)) /\ Cardinality({r} \X (1 .. n)) = n
  <1>1. IsFiniteSet({r}) /\ Cardinality({r}) = 1
    BY FS_Singleton
  <1>2. IsFiniteSet(1 .. n) /\ Cardinality(1 .. n) = n
    BY FS_Interval
  <1>3. IsFiniteSet({r} \X (1 .. n)) /\ Cardinality({r} \X (1 .. n)) = 1 * n
    BY <1>1, <1>2, FS_Product
  <1> QED
    BY <1>3

\* A row of n seats adds n units at most.
LEMMA OneMoreRow ==
    ASSUME NEW units, NEW others, IsFiniteSet(others), NEW r, NEW n \in Nat,
           units \subseteq others \cup ({r} \X (1 .. n))
    PROVE  Cardinality(units) <= Cardinality(others) + n
  <1> DEFINE new == {r} \X (1 .. n)
  <1>3. IsFiniteSet(new) /\ Cardinality(new) = n
    BY RowUnits
  <1>4. /\ IsFiniteSet(others \cup new)
        /\ Cardinality(others \cup new) =
             Cardinality(others) + Cardinality(new) - Cardinality(others \cap new)
    BY <1>3, FS_Union
  <1>5. Cardinality(others \cap new) \in Nat /\ Cardinality(others) \in Nat
    BY FS_Intersection, FS_CardinalityType
  <1>6. Cardinality(units) <= Cardinality(others \cup new) /\ Cardinality(units) \in Nat
    BY <1>4, FS_Subset, FS_CardinalityType
  <1> QED
    BY <1>3, <1>4, <1>5, <1>6

\* Among others, units and the n units of a row they leave out are no more.
LEMMA RowBesides ==
    ASSUME NEW units, NEW others, IsFiniteSet(others), NEW r, NEW n \in Nat,
           units \subseteq others, {r} \X (1 .. n) \subseteq others,
           units \cap ({r} \X (1 .. n)) = {}
    PROVE  Cardinality(units) + n <= Cardinality(others)
  <1> DEFINE new == {r} \X (1 .. n)
  <1>3. IsFiniteSet(new) /\ Cardinality(new) = n
    BY RowUnits
  <1>4. IsFiniteSet(units) /\ Cardinality(units) \in Nat /\ Cardinality(others) \in Nat
    BY FS_Subset, FS_CardinalityType
  <1> HIDE DEF new
  <1>5. Cardinality(units \cup new) =
            Cardinality(units) + Cardinality(new) - Cardinality(units \cap new)
    BY <1>3, <1>4, FS_Union
  <1>6. Cardinality(units \cap new) = 0
    BY FS_EmptySet DEF new
  <1>7. Cardinality(units \cup new) <= Cardinality(others)
    <2>1. units \cup new \subseteq others
      BY DEF new
    <2> QED
      BY <2>1, FS_Subset
  <1> QED
    BY <1>3, <1>4, <1>5, <1>6, <1>7

\* Units in disjoint sets of statuses add up.
LEMMA DisjointStatuses ==
    ASSUME NEW rows, NEW A, NEW B, NEW t, A \cap B = {}
    PROVE  Seats(rows, A \cup B, t) = Seats(rows, A, t) + Seats(rows, B, t)
  <1> DEFINE a == SeatUnits(rows, RegIds, A, t)
             b == SeatUnits(rows, RegIds, B, t)
  <1>1. IsFiniteSet(a) /\ IsFiniteSet(b)
        /\ Cardinality(a) \in Nat /\ Cardinality(b) \in Nat
    BY SeatUnitsFinite
  <1>2. SeatUnits(rows, RegIds, A \cup B, t) = a \cup b /\ a \cap b = {}
    BY DEF SeatUnits
  <1>3. Cardinality(a \cup b) = Cardinality(a) + Cardinality(b) - Cardinality(a \cap b)
    BY <1>1, FS_Union
  <1>4. Cardinality(a \cap b) = 0
    BY <1>2, FS_EmptySet
  <1> QED
    <2> HIDE DEF a, b
    <2>1. Cardinality(a \cup b) = Cardinality(a) + Cardinality(b)
      BY <1>1, <1>3, <1>4
    <2> QED
      BY <1>2, <2>1 DEF Seats, a, b

\* reservedSeats: Sold, Awaiting review and Pending payment, the three counts
\* an organizer is shown, add up to the count that checkout compares with the
\* capacity, whatever the rows are.
THEOREM ReservedIsOccupied ==
    ASSUME NEW rows, NEW t \in Tiers
    PROVE  ReservedSeats(rows, t) = Occupied(rows, t)
  <1> DEFINE held == {"pending_payment"}
             review == AWAITING_REVIEW_STATUSES
             sold == {"verified"}
  <1>1. ACTIVE_REGISTRATION_STATUSES = (sold \cup review) \cup held
        /\ sold \cap review = {} /\ (sold \cup review) \cap held = {}
    BY DEF ACTIVE_REGISTRATION_STATUSES, AWAITING_REVIEW_STATUSES
  <1> HIDE DEF held, review, sold
  <1>2. Seats(rows, (sold \cup review) \cup held, t)
            = Seats(rows, sold, t) + Seats(rows, review, t) + Seats(rows, held, t)
    <2>1. Seats(rows, (sold \cup review) \cup held, t)
              = Seats(rows, sold \cup review, t) + Seats(rows, held, t)
      BY <1>1, DisjointStatuses
    <2>2. Seats(rows, sold \cup review, t) = Seats(rows, sold, t) + Seats(rows, review, t)
      BY <1>1, DisjointStatuses
    <2> QED
      BY <2>1, <2>2
  <1>3. \A statuses : Seats(rows, statuses, t) \in Nat
    BY SeatUnitsFinite DEF Seats
  <1>4. Issued[t] \in Nat
    BY SeatUsageAssumption
  <1> QED
    BY <1>1, <1>2, <1>3, <1>4
       DEF ReservedSeats, Occupied, Confirmed, AwaitingReview, Held, held, review, sold

=============================================================================
