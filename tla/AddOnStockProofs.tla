--------------------------- MODULE AddOnStockProofs ---------------------------
(***************************************************************************)
(* The stock of add-ons for every number of registrations, quotes and      *)
(* variants: the counters are the reservations they count, nothing is      *)
(* promised twice, and stock follows the status of its registration.       *)
(***************************************************************************)
EXTENDS AddOnStock, SeatUsageProofs

-----------------------------------------------------------------------------
(* Units of add-ons *)

Own(row, v, s) == IF row.res = s THEN row.lines[v] ELSE 0

LEMMA OwnType ==
    ASSUME NEW row \in Row, NEW v \in Variants, NEW s
    PROVE  Own(row, v, s) \in 0 .. MaxLine /\ Own(row, v, s) \in Nat
  BY AddOnStockAssumption DEF Own, Row, Lines

\* The units of a status are those of one row and those of the others.
LEMMA UnitsSplit ==
    ASSUME NEW rows \in [RegIds -> Row], NEW r \in RegIds, NEW v \in Variants, NEW s
    PROVE  LET others == {u \in AddOnUnits(rows, v, s) : u[1] # r} IN
           /\ IsFiniteSet(others) /\ Cardinality(others) \in Nat
           /\ Cardinality(AddOnUnits(rows, v, s)) =
                Cardinality(others) + Own(rows[r], v, s)
  <1> DEFINE others == {u \in AddOnUnits(rows, v, s) : u[1] # r}
             n == Own(rows[r], v, s)
             own == {r} \X (1 .. n)
  <1>1. n \in Nat /\ n <= MaxLine
    BY OwnType, AddOnStockAssumption
  <1>2. IsFiniteSet(1 .. MaxRegs) /\ IsFiniteSet(1 .. MaxLine)
    <2>1. MaxRegs \in Int /\ MaxLine \in Int /\ 1 \in Int
      BY SeatUsageAssumption, AddOnStockAssumption
    <2> QED
      BY <2>1, FS_Interval
  <1>3. IsFiniteSet(RegIds \X (1 .. MaxLine))
    BY <1>2, FS_Product DEF RegIds
  <1>4. IsFiniteSet(others) /\ Cardinality(others) \in Nat
    BY <1>3, FS_Subset, FS_CardinalityType DEF AddOnUnits
  <1>5. IsFiniteSet(own) /\ Cardinality(own) = n
    <2>1. IsFiniteSet({r}) /\ Cardinality({r}) = 1
      BY FS_Singleton
    <2>2. IsFiniteSet(1 .. n) /\ Cardinality(1 .. n) = n
      BY <1>1, FS_Interval
    <2>3. IsFiniteSet(own) /\ Cardinality(own) = 1 * n
      BY <2>1, <2>2, FS_Product
    <2> QED
      BY <1>1, <2>3
  <1>6. AddOnUnits(rows, v, s) = others \cup own
    <2>1. CASE rows[r].res = s
      <3>1. n = rows[r].lines[v]
        BY <2>1 DEF Own
      <3> HIDE DEF n
      <3>2. {u \in AddOnUnits(rows, v, s) : u[1] = r} = own
        BY <1>1, <2>1, <3>1, AddOnStockAssumption DEF AddOnUnits
      <3> QED
        BY <3>2
    <2>2. CASE rows[r].res # s
      BY <1>1, <2>2 DEF AddOnUnits, Own
    <2> QED
      BY <2>1, <2>2
  <1>7. others \cap own = {}
    OBVIOUS
  <1>8. Cardinality(others \cup own) =
          Cardinality(others) + Cardinality(own) - Cardinality(others \cap own)
    BY <1>4, <1>5, FS_Union
  <1>9. Cardinality(others \cap own) = 0
    BY <1>7, FS_EmptySet
  <1> QED
    <2> HIDE DEF others, own, n
    <2>1. Cardinality(AddOnUnits(rows, v, s)) = Cardinality(others) + n
      BY <1>1, <1>4, <1>5, <1>6, <1>8, <1>9
    <2> QED
      BY <1>4, <2>1 DEF others, n

\* A change of one row changes the count by what that row holds.
LEMMA UnitsChange ==
    ASSUME NEW rows \in [RegIds -> Row], NEW then \in [RegIds -> Row],
           NEW r \in RegIds, \A q \in RegIds \ {r} : then[q] = rows[q],
           NEW v \in Variants, NEW s
    PROVE  /\ Cardinality(AddOnUnits(rows, v, s)) \in Nat
           /\ Cardinality(AddOnUnits(then, v, s)) \in Nat
           /\ Cardinality(AddOnUnits(then, v, s)) - Own(then[r], v, s) =
                Cardinality(AddOnUnits(rows, v, s)) - Own(rows[r], v, s)
  <1> DEFINE before == {u \in AddOnUnits(rows, v, s) : u[1] # r}
             after == {u \in AddOnUnits(then, v, s) : u[1] # r}
  <1>1. before = after
    BY DEF AddOnUnits
  <1>2. /\ Cardinality(before) \in Nat
        /\ Cardinality(AddOnUnits(rows, v, s)) = Cardinality(before) + Own(rows[r], v, s)
    BY UnitsSplit
  <1>3. Cardinality(AddOnUnits(then, v, s)) = Cardinality(after) + Own(then[r], v, s)
    BY UnitsSplit
  <1>4. Own(rows[r], v, s) \in Nat /\ Own(then[r], v, s) \in Nat
    BY OwnType
  <1> QED
    <2> HIDE DEF before, after
    <2> QED
      BY <1>1, <1>2, <1>3, <1>4

-----------------------------------------------------------------------------
(* What a step does to rows and counters *)

Others(r) == reg' = [q \in RegIds |-> IF q = r THEN reg'[r] ELSE reg[q]]

\* Row r moves its units by d among the reserved and by s among the sold.
Moves(r, from, to, d, s) ==
    /\ Others(r)
    /\ reg[r].res = from /\ reg'[r].res \in to
    /\ reg'[r].lines = reg[r].lines \/ from = "none"
    /\ stock' = Moved(reg'[r].lines, d, s)

Reserves(r) == /\ Moves(r, "none", {"reserved"}, 1, 0)
               /\ \A v \in Variants : reg'[r].lines[v] > 0 =>
                     reg'[r].lines[v] <= Available(v)
Confirms(r) == Moves(r, "reserved", {"confirmed"}, -1, 1)
Releases(r) == Moves(r, "reserved", {"released", "expired"}, -1, 0)

Keeps(r) == /\ Others(r)
            /\ reg'[r].res = reg[r].res /\ reg'[r].lines = reg[r].lines
            /\ stock' = stock

Restocks(v, total) ==
    /\ reg' = reg
    /\ total >= stock[v].reserved + stock[v].sold
    /\ stock' = [stock EXCEPT ![v].total = total]

NoRow == reg' = reg /\ stock' = stock

Effects == \/ NoRow
           \/ \E v \in Variants, total \in 0 .. MaxStock : Restocks(v, total)
           \/ \E r \in RegIds : Reserves(r) \/ Confirms(r) \/ Releases(r) \/ Keeps(r)

BlankRows == \A r \in RegIds : reg[r].status = "absent" =>
                reg[r].res = "none" /\ \A v \in Variants : reg[r].given[v] = "pending"

LEMMA CancelledEffect ==
    ASSUME TypeOK, NEW r \in RegIds, NEW how \in {"released", "expired"}, Cancelled(r, how)
    PROVE  Releases(r) \/ Keeps(r)
  <1>1. reg' = [reg EXCEPT ![r].status = "cancelled", ![r].res = ReleasedRes(r, how)]
        /\ stock' = ReleasedStock(r) /\ reg \in [RegIds -> Row]
    BY DEF Cancelled, TypeOK
  <1>2. Others(r)
    BY <1>1 DEF Others
  <1>3. reg'[r].lines = reg[r].lines /\ reg'[r].res = ReleasedRes(r, how)
    BY <1>1 DEF Row
  <1> QED
    BY <1>1, <1>2, <1>3 DEF ReleasedRes, ReleasedStock, Releases, Keeps, Moves

LEMMA CheckoutEffect ==
    ASSUME TypeOK, BlankRows, NEW r \in RegIds, NEW q \in QuoteIds, NEW o \in Owners,
           Checkout(r, q, o)
    PROVE  Reserves(r)
  <1>1. reg'[r].lines = quote[q].lines /\ reg'[r].res = "reserved" /\ Others(r)
    BY DEF Checkout, TypeOK, Others
  <1>2. reg[r].res = "none"
    BY DEF Checkout, NextId, BlankRows
  <1> QED
    BY <1>1, <1>2 DEF Checkout, Reserves, Moves, StillOffered

LEMMA LifecycleEffect ==
    ASSUME TypeOK, NEW r \in RegIds, Lifecycle(r)
    PROVE  Releases(r) \/ Confirms(r) \/ Keeps(r)
  <1>1. CASE HoldDeadlinePasses(r) \/ SubmitProof(r) \/ Reject(r)
    BY <1>1 DEF HoldDeadlinePasses, SubmitProof, Reject, Keeps, Others, TypeOK, Row
  <1>6. ASSUME NEW v \in Variants, Fulfill(r, v) \/ ReverseFulfillment(r, v)
        PROVE  Keeps(r)
    BY <1>6 DEF Fulfill, ReverseFulfillment, Keeps, Others, TypeOK, Row
  <1>2. CASE Approve(r)
    <2>1. /\ reg' = [reg EXCEPT ![r].status = "verified",
                         ![r].res = IF @ = "reserved" THEN "confirmed" ELSE @]
          /\ stock' = IF reg[r].res = "reserved" THEN ConfirmedStock(r) ELSE stock
          /\ reg \in [RegIds -> Row]
      BY <1>2 DEF Approve, TypeOK
    <2>2. Others(r)
      BY <2>1 DEF Others
    <2>3. /\ reg'[r].lines = reg[r].lines
          /\ reg'[r].res = IF reg[r].res = "reserved" THEN "confirmed" ELSE reg[r].res
      BY <2>1 DEF Row
    <2> QED
      BY <2>1, <2>2, <2>3 DEF ConfirmedStock, Confirms, Keeps, Moves
  <1>3. CASE \E how \in {"released", "expired"} : ReleasePendingHold(r, how)
    BY <1>3, CancelledEffect DEF ReleasePendingHold
  <1>4. CASE CustomerCancels(r)
    BY <1>4, CancelledEffect DEF CustomerCancels
  <1>5. CASE ExpireListed(r)
    <2>1. CASE CancelledByExpiry(r)
      BY <1>5, <2>1, CancelledEffect DEF ExpireListed
    <2>2. CASE ~CancelledByExpiry(r)
      <3>1. /\ reg' = [reg EXCEPT ![r].res = ReleasedRes(r, "expired")]
            /\ stock' = ReleasedStock(r)
        BY <1>5, <2>2 DEF ExpireListed
      <3>2. /\ Others(r) /\ reg'[r].lines = reg[r].lines
            /\ reg'[r].res = ReleasedRes(r, "expired")
        BY <3>1 DEF Others, TypeOK, Row
      <3> QED
        BY <3>1, <3>2 DEF ReleasedRes, ReleasedStock, Releases, Keeps, Moves
    <2> QED
      BY <2>1, <2>2
  <1> QED
    BY <1>1, <1>2, <1>3, <1>4, <1>5, <1>6 DEF Lifecycle

LEMMA StepEffects ==
    ASSUME TypeOK, BlankRows, [Next]_vars
    PROVE  Effects
  <1>1. CASE Shopping
    BY <1>1, CheckoutEffect DEF Shopping, CreateQuote, QuoteDeadlinePasses, Effects, NoRow
  <1>2. CASE \E r \in RegIds : Lifecycle(r)
    BY <1>2, LifecycleEffect DEF Effects
  <1>3. CASE Organizing
    BY <1>3 DEF Organizing, AdjustStock, UpdateVariant, UpdateInclusion, SetEventEnabled,
                Effects, Restocks, NoRow
  <1>4. CASE ExpiryScan \/ ExpiryDies \/ UNCHANGED vars
    BY <1>4 DEF ExpiryScan, ExpiryDies, vars, Effects, NoRow
  <1> QED
    BY <1>1, <1>2, <1>3, <1>4 DEF Next

-----------------------------------------------------------------------------
(* The counters *)

\* Reserving, confirming and releasing move exactly the units of their row.
LEMMA MovesCount ==
    ASSUME TypeOK, CountersMatchReservations, reg' \in [RegIds -> Row],
           NEW r \in RegIds, NEW from \in {"none", "reserved"}, NEW to,
           NEW d \in {-1, 1}, NEW s \in {0, 1}, Moves(r, from, to, d, s),
           \/ from = "none" /\ to = {"reserved"} /\ d = 1 /\ s = 0
           \/ from = "reserved" /\ to = {"confirmed"} /\ d = -1 /\ s = 1
           \/ from = "reserved" /\ to = {"released", "expired"} /\ d = -1 /\ s = 0
    PROVE  CountersMatchReservations'
  <1> SUFFICES ASSUME NEW v \in Variants
               PROVE  /\ stock'[v].reserved = Cardinality(AddOnUnits(reg', v, "reserved"))
                      /\ stock'[v].sold = Cardinality(AddOnUnits(reg', v, "confirmed"))
    BY DEF CountersMatchReservations
  <1> DEFINE n == reg'[r].lines[v]
  <1>1. n \in Nat
    BY AddOnStockAssumption DEF Row, Lines
  <1>2. /\ stock[v].reserved \in Nat /\ stock[v].sold \in Nat
        /\ stock'[v].reserved = stock[v].reserved + d * n
        /\ stock'[v].sold = stock[v].sold + s * n
    BY DEF Moves, Moved, TypeOK, Stock
  <1>3. /\ stock[v].reserved = Cardinality(AddOnUnits(reg, v, "reserved"))
        /\ stock[v].sold = Cardinality(AddOnUnits(reg, v, "confirmed"))
    BY DEF CountersMatchReservations
  <1>4. \A x \in {"reserved", "confirmed"} :
          /\ Cardinality(AddOnUnits(reg, v, x)) \in Nat
          /\ Cardinality(AddOnUnits(reg', v, x)) \in Nat
          /\ Cardinality(AddOnUnits(reg', v, x)) - Own(reg'[r], v, x) =
               Cardinality(AddOnUnits(reg, v, x)) - Own(reg[r], v, x)
    BY UnitsChange DEF Moves, Others, TypeOK
  <1>9. /\ Cardinality(AddOnUnits(reg', v, "reserved")) \in Nat
        /\ Cardinality(AddOnUnits(reg', v, "reserved")) - Own(reg'[r], v, "reserved") =
             stock[v].reserved - Own(reg[r], v, "reserved")
        /\ Cardinality(AddOnUnits(reg', v, "confirmed")) \in Nat
        /\ Cardinality(AddOnUnits(reg', v, "confirmed")) - Own(reg'[r], v, "confirmed") =
             stock[v].sold - Own(reg[r], v, "confirmed")
    BY <1>3, <1>4
  <1>5. /\ Own(reg[r], v, "reserved") = IF from = "reserved" THEN n ELSE 0
        /\ Own(reg[r], v, "confirmed") = 0
        /\ Own(reg'[r], v, "reserved") = IF to = {"reserved"} THEN n ELSE 0
        /\ Own(reg'[r], v, "confirmed") = IF to = {"confirmed"} THEN n ELSE 0
    BY DEF Moves, Own
  <1> HIDE DEF n
  <1>6. CASE from = "none" /\ to = {"reserved"} /\ d = 1 /\ s = 0
    <2>1. Own(reg[r], v, "reserved") = 0 /\ Own(reg'[r], v, "reserved") = n
          /\ Own(reg[r], v, "confirmed") = 0 /\ Own(reg'[r], v, "confirmed") = 0
      BY <1>5, <1>6
    <2>2. stock'[v].reserved = stock[v].reserved + n /\ stock'[v].sold = stock[v].sold
      BY <1>1, <1>2, <1>6
    <2> QED
      BY <1>1, <1>2, <1>9, <2>1, <2>2
  <1>7. CASE from = "reserved" /\ to = {"confirmed"} /\ d = -1 /\ s = 1
    <2>1. Own(reg[r], v, "reserved") = n /\ Own(reg'[r], v, "reserved") = 0
          /\ Own(reg[r], v, "confirmed") = 0 /\ Own(reg'[r], v, "confirmed") = n
      BY <1>5, <1>7
    <2>2. stock'[v].reserved = stock[v].reserved - n /\ stock'[v].sold = stock[v].sold + n
      BY <1>1, <1>2, <1>7
    <2> QED
      BY <1>1, <1>2, <1>9, <2>1, <2>2
  <1>8. CASE from = "reserved" /\ to = {"released", "expired"} /\ d = -1 /\ s = 0
    <2>1. Own(reg[r], v, "reserved") = n /\ Own(reg'[r], v, "reserved") = 0
          /\ Own(reg[r], v, "confirmed") = 0 /\ Own(reg'[r], v, "confirmed") = 0
      BY <1>5, <1>8
    <2>2. stock'[v].reserved = stock[v].reserved - n /\ stock'[v].sold = stock[v].sold
      BY <1>1, <1>2, <1>8
    <2> QED
      BY <1>1, <1>2, <1>9, <2>1, <2>2
  <1> QED
    BY <1>6, <1>7, <1>8

LEMMA CountersStep ==
    ASSUME TypeOK, CountersMatchReservations, reg' \in [RegIds -> Row], Effects
    PROVE  CountersMatchReservations'
  <1>1. CASE NoRow
    BY <1>1 DEF NoRow, CountersMatchReservations
  <1>2. ASSUME NEW v \in Variants, NEW total \in 0 .. MaxStock, Restocks(v, total)
        PROVE  CountersMatchReservations'
    BY <1>2 DEF Restocks, CountersMatchReservations, TypeOK, Stock
  <1>3. ASSUME NEW r \in RegIds, Reserves(r) \/ Confirms(r) \/ Releases(r)
        PROVE  CountersMatchReservations'
    BY <1>3, MovesCount DEF Reserves, Confirms, Releases
  <1>4. ASSUME NEW r \in RegIds, Keeps(r)
        PROVE  CountersMatchReservations'
    <2>1. \A v \in Variants : \A s : AddOnUnits(reg', v, s) = AddOnUnits(reg, v, s)
      BY <1>4 DEF Keeps, Others, AddOnUnits
    <2> QED
      BY <1>4, <2>1 DEF Keeps, CountersMatchReservations
  <1> QED
    BY <1>1, <1>2, <1>3, <1>4 DEF Effects

LEMMA StockStep ==
    ASSUME TypeOK, StockNotOversold, CountersMatchReservations',
           reg' \in [RegIds -> Row], Effects
    PROVE  stock' \in Stock /\ StockNotOversold'
  <1>1. CASE NoRow
    BY <1>1 DEF NoRow, TypeOK, StockNotOversold
  <1>2. ASSUME NEW v \in Variants, NEW total \in 0 .. MaxStock, Restocks(v, total)
        PROVE  stock' \in Stock /\ StockNotOversold'
    BY <1>2 DEF Restocks, TypeOK, Stock, StockNotOversold
  <1>3. ASSUME NEW r \in RegIds, Keeps(r)
        PROVE  stock' \in Stock /\ StockNotOversold'
    BY <1>3 DEF Keeps, TypeOK, StockNotOversold
  <1>4. ASSUME NEW r \in RegIds, Reserves(r) \/ Confirms(r) \/ Releases(r)
        PROVE  stock' \in Stock /\ StockNotOversold'
    <2>1. \A v \in Variants : reg'[r].lines[v] \in Nat
      BY AddOnStockAssumption DEF Row, Lines
    <2>2. \A v \in Variants :
             /\ stock[v].total \in 0 .. MaxStock
             /\ stock[v].reserved \in Nat /\ stock[v].sold \in Nat
             /\ stock[v].reserved + stock[v].sold <= stock[v].total
      BY DEF TypeOK, Stock, StockNotOversold
    <2>3. \A v \in Variants : stock'[v].reserved \in Nat /\ stock'[v].sold \in Nat
      BY UnitsChange DEF CountersMatchReservations, TypeOK
    <2>4. \A v \in Variants :
             /\ stock'[v].total = stock[v].total
             /\ stock'[v].reserved + stock'[v].sold <= stock[v].total
      <3> TAKE v \in Variants
      <3> DEFINE n == reg'[r].lines[v]
      <3>1. n \in Nat
        BY <2>1
      <3>2. CASE Reserves(r)
        <4>1. /\ stock'[v].total = stock[v].total
              /\ stock'[v].reserved = stock[v].reserved + 1 * n
              /\ stock'[v].sold = stock[v].sold + 0 * n
          BY <3>2 DEF Reserves, Moves, Moved, TypeOK, Stock
        <4>2. n > 0 => n <= stock[v].total - stock[v].reserved - stock[v].sold
          BY <3>2 DEF Reserves, Available
        <4> HIDE DEF n
        <4> QED
          BY <2>2, <3>1, <4>1, <4>2
      <3>3. CASE Confirms(r)
        <4>1. /\ stock'[v].total = stock[v].total
              /\ stock'[v].reserved = stock[v].reserved + (-1) * n
              /\ stock'[v].sold = stock[v].sold + 1 * n
          BY <3>3 DEF Confirms, Moves, Moved, TypeOK, Stock
        <4> HIDE DEF n
        <4> QED
          BY <2>2, <3>1, <4>1
      <3>4. CASE Releases(r)
        <4>1. /\ stock'[v].total = stock[v].total
              /\ stock'[v].reserved = stock[v].reserved + (-1) * n
              /\ stock'[v].sold = stock[v].sold + 0 * n
          BY <3>4 DEF Releases, Moves, Moved, TypeOK, Stock
        <4> HIDE DEF n
        <4> QED
          BY <2>2, <3>1, <4>1
      <3> QED
        BY <1>4, <3>2, <3>3, <3>4
    <2>5. stock' = [v \in Variants |-> [total |-> stock[v].total,
              reserved |-> stock'[v].reserved, sold |-> stock'[v].sold]]
      BY <1>4 DEF Reserves, Confirms, Releases, Moves, Moved, TypeOK, Stock
    <2> QED
      BY <2>2, <2>3, <2>4, <2>5 DEF Stock, StockNotOversold
  <1> QED
    BY <1>1, <1>2, <1>3, <1>4 DEF Effects

-----------------------------------------------------------------------------
(* The rows: what status, reservation and handover say of each other *)

RowSound(row) ==
    /\ row.status \in Cancellable => row.res = "reserved"
    /\ row.status = "verified" => row.res = "confirmed"
    /\ row.status = "cancelled" => row.res \in {"released", "expired"}
    /\ row.status = "absent" =>
          row.res = "none" /\ \A v \in Variants : row.given[v] = "pending"
    /\ (\E v \in Variants : row.given[v] = "fulfilled") =>
          row.status = "verified" /\ row.res = "confirmed"

RowsSound == \A r \in RegIds : RowSound(reg[r])

\* A quote that made a registration is consumed, and stays so.
SpentQuotes == \A r \in RegIds :
    reg[r].status # "absent" => quote[reg[r].quote].status = "consumed"

IInv == /\ TypeOK /\ CountersMatchReservations /\ StockNotOversold
        /\ RowsSound /\ SpentQuotes /\ QuoteSpentOnce

\* Row r may change its status, its reservation and its handover.
RowMoves(r) ==
    /\ Others(r)
    /\ reg'[r] \in Row /\ RowSound(reg'[r])
    /\ reg'[r].quote = reg[r].quote
    /\ reg'[r].status = "absent" <=> reg[r].status = "absent"
    /\ reg[r].res = "confirmed" => reg'[r].res = "confirmed"
    /\ quote' = quote /\ catalog' = catalog
    /\ sold' \in [Tiers -> Nat] /\ listed' \subseteq RegIds

LEMMA SeatsReturnedType ==
    ASSUME TypeOK, NEW r \in RegIds
    PROVE  SeatsReturned(r) \in [Tiers -> Nat]
  <1>1. reg[r].tier \in Tiers /\ reg[r].seats \in 1 .. MaxPerOrder
    BY DEF TypeOK, Row
  <1>2. reg[r].seats \in Nat /\ sold \in [Tiers -> Nat]
    BY <1>1, SeatUsageAssumption DEF TypeOK
  <1> QED
    BY <1>1, <1>2 DEF SeatsReturned

LEMMA RowUpdated ==
    ASSUME NEW row \in Row, NEW status \in RegistrationStatus, NEW res \in ReservationStatus
    PROVE  [row EXCEPT !.status = status, !.res = res] \in Row
  BY DEF Row

LEMMA CancelledMoves ==
    ASSUME TypeOK, RowsSound, NEW r \in RegIds, NEW how \in {"released", "expired"},
           reg[r].status \in Cancellable, Cancelled(r, how),
           quote' = quote, catalog' = catalog, listed' \subseteq RegIds
    PROVE  RowMoves(r)
  <1>1. sold' \in [Tiers -> Nat]
    BY SeatsReturnedType DEF Cancelled
  <1>2. /\ reg[r] \in Row /\ RowSound(reg[r]) /\ reg[r].res = "reserved"
        /\ reg' = [reg EXCEPT ![r].status = "cancelled", ![r].res = how]
    BY DEF TypeOK, RowsSound, RowSound, Cancelled, ReleasedRes
  <1>3. /\ reg'[r] = [reg[r] EXCEPT !.status = "cancelled", !.res = how]
        /\ Others(r)
    BY <1>2 DEF TypeOK, Others
  <1>4. reg'[r] \in Row
    <2>1. "cancelled" \in RegistrationStatus /\ how \in ReservationStatus
      BY DEF RegistrationStatus, ReservationStatus
    <2>2. [reg[r] EXCEPT !.status = "cancelled", !.res = how] \in Row
      BY <1>2, <2>1, RowUpdated, Zenon
    <2> QED
      BY <1>3, <2>2, Zenon
  <1>5. /\ reg'[r].status = "cancelled" /\ reg'[r].res = how
        /\ reg'[r].given = reg[r].given /\ reg'[r].quote = reg[r].quote
    BY <1>2, <1>3 DEF Row
  <1>6. RowSound(reg'[r])
    BY <1>2, <1>5 DEF RowSound, Cancellable
  <1> QED
    BY <1>1, <1>2, <1>3, <1>4, <1>5, <1>6 DEF RowMoves, Cancellable

LEMMA LifecycleMoves ==
    ASSUME TypeOK, RowsSound, NEW r \in RegIds, Lifecycle(r)
    PROVE  RowMoves(r)
  <1>1. reg[r] \in Row /\ RowSound(reg[r]) /\ sold \in [Tiers -> Nat]
        /\ listed \subseteq RegIds /\ reg \in [RegIds -> Row]
    BY DEF TypeOK, RowsSound
  <1>2. CASE HoldDeadlinePasses(r)
    <2>1. reg'[r] = [reg[r] EXCEPT !.due = TRUE] /\ Others(r)
      BY <1>1, <1>2 DEF HoldDeadlinePasses, Others
    <2> QED
      BY <1>1, <1>2, <2>1 DEF HoldDeadlinePasses, RowMoves, RowSound, Row
  <1>3. CASE SubmitProof(r)
    <2>1. /\ reg'[r] = [reg[r] EXCEPT !.status = "pending_approval", !.due = Extended(reg[r])]
          /\ Others(r)
      BY <1>1, <1>3 DEF SubmitProof, Others
    <2>2. Extended(reg[r]) \in BOOLEAN /\ reg[r].res = "reserved"
      BY <1>1, <1>3 DEF SubmitProof, Extended, Row, RowSound, Cancellable
    <2> QED
      BY <1>1, <1>3, <2>1, <2>2
      DEF SubmitProof, RowMoves, RowSound, Row, Cancellable, RegistrationStatus
  <1>4. CASE Reject(r)
    <2>1. /\ reg'[r] = [reg[r] EXCEPT !.status = "rejected", !.due = Extended(reg[r])]
          /\ Others(r)
      BY <1>1, <1>4 DEF Reject, Others
    <2>2. Extended(reg[r]) \in BOOLEAN /\ reg[r].res = "reserved"
      BY <1>1, <1>4 DEF Reject, Extended, Row, RowSound, Cancellable, UnderReview
    <2> QED
      BY <1>1, <1>4, <2>1, <2>2
      DEF Reject, RowMoves, RowSound, Row, Cancellable, UnderReview, RegistrationStatus
  <1>5. CASE Approve(r)
    <2>1. reg[r].res = "reserved"
      BY <1>1, <1>5 DEF Approve, RowSound, Cancellable, UnderReview
    <2>2. /\ reg'[r] = [reg[r] EXCEPT !.status = "verified", !.res = "confirmed"]
          /\ Others(r)
      BY <1>1, <1>5, <2>1 DEF Approve, Others
    <2> QED
      BY <1>1, <1>5, <2>1, <2>2
      DEF Approve, RowMoves, RowSound, Row, Cancellable, UnderReview, RegistrationStatus,
          ReservationStatus
  <1>6. CASE \E how \in {"released", "expired"} : ReleasePendingHold(r, how)
    BY <1>1, <1>6, CancelledMoves DEF ReleasePendingHold, Cancellable
  <1>7. CASE CustomerCancels(r)
    BY <1>1, <1>7, CancelledMoves DEF CustomerCancels
  <1>8. CASE ExpireListed(r)
    <2>1. CASE CancelledByExpiry(r)
      BY <1>1, <1>8, <2>1, CancelledMoves DEF ExpireListed, CancelledByExpiry
    <2>2. CASE ~CancelledByExpiry(r)
      <3>1. reg[r].res # "reserved"
        BY <1>1, <2>2 DEF RowSound, CancelledByExpiry, Row, RegistrationStatus, Cancellable
      <3>2. /\ reg'[r] = [reg[r] EXCEPT !.res = reg[r].res] /\ Others(r)
        BY <1>1, <1>8, <2>2, <3>1 DEF ExpireListed, ReleasedRes, Others
      <3>3. reg'[r] = reg[r]
        BY <1>1, <3>2 DEF Row
      <3> QED
        BY <1>1, <1>8, <2>2, <3>2, <3>3 DEF ExpireListed, RowMoves
    <2> QED
      BY <2>1, <2>2
  <1>9. ASSUME NEW v \in Variants, Fulfill(r, v)
        PROVE  RowMoves(r)
    <2>1. /\ reg'[r] = [reg[r] EXCEPT !.given[v] = "fulfilled"] /\ Others(r)
      BY <1>1, <1>9 DEF Fulfill, Others
    <2> QED
      BY <1>1, <1>9, <2>1 DEF Fulfill, VerifiedLine, RowMoves, RowSound, Row, Cancellable
  <1>10. ASSUME NEW v \in Variants, ReverseFulfillment(r, v)
         PROVE  RowMoves(r)
    <2>1. /\ reg'[r] = [reg[r] EXCEPT !.given[v] = "reversed"] /\ Others(r)
      BY <1>1, <1>10 DEF ReverseFulfillment, Others
    <2>2. reg[r].status = "verified" /\ reg[r].res = "confirmed"
      BY <1>1, <1>10 DEF ReverseFulfillment, RowSound
    <2> QED
      BY <1>1, <1>10, <2>1, <2>2 DEF ReverseFulfillment, RowMoves, RowSound, Row, Cancellable
  <1> QED
    BY <1>2, <1>3, <1>4, <1>5, <1>6, <1>7, <1>8, <1>9, <1>10 DEF Lifecycle

\* A checkout writes a row with the quote it consumes.
LEMMA CheckoutMoves ==
    ASSUME TypeOK, RowsSound, NEW r \in RegIds, NEW q \in QuoteIds, NEW o \in Owners,
           Checkout(r, q, o)
    PROVE  /\ Others(r) /\ reg[r].status = "absent"
           /\ reg'[r] \in Row /\ RowSound(reg'[r])
           /\ reg'[r].status # "absent" /\ reg'[r].quote = q
           /\ quote[q].status = "active"
           /\ quote' = [quote EXCEPT ![q].status = "consumed"]
           /\ sold' \in [Tiers -> Nat]
           /\ UNCHANGED <<catalog, listed>>
  <1> DEFINE c == quote[q]
             row == [status |-> IF c.free THEN "pending_approval" ELSE "pending_payment",
                     owner |-> o, tier |-> c.tier, seats |-> c.seats, free |-> c.free,
                     quote |-> q, lines |-> c.lines, res |-> "reserved", due |-> FALSE,
                     given |-> [v \in Variants |-> "pending"]]
  <1>1. c.tier \in Tiers /\ c.seats \in 1 .. MaxPerOrder /\ c.free \in BOOLEAN
        /\ c.lines \in Lines
    BY DEF TypeOK, Quote
  <1>2. reg'[r] = row /\ Others(r)
    BY DEF Checkout, TypeOK, Others
  <1>3. row \in Row /\ row.status \in {"pending_approval", "pending_payment"}
    BY <1>1 DEF Row, RegistrationStatus, ReservationStatus
  <1>4. RowSound(row)
    <2>1. /\ row.res = "reserved" /\ \A v \in Variants : row.given[v] = "pending"
          /\ row.status # "absent" /\ row.status # "verified" /\ row.status # "cancelled"
      OBVIOUS
    <2> HIDE DEF row
    <2> QED
      BY <2>1 DEF RowSound
  <1>5. sold' \in [Tiers -> Nat]
    <2>1. Occupied(reg, c.tier) \in Nat
      BY <1>1, OccupiedType
    <2>2. c.seats \in Nat
      BY <1>1, SeatUsageAssumption
    <2>3. sold' = [sold EXCEPT ![c.tier] = Occupied(reg, c.tier) + c.seats]
      BY DEF Checkout
    <2>4. Occupied(reg, c.tier) + c.seats \in Nat /\ sold \in [Tiers -> Nat]
      BY <2>1, <2>2 DEF TypeOK
    <2> HIDE DEF c
    <2> QED
      BY <2>3, <2>4, Zenon
  <1>6. row.quote = q
    OBVIOUS
  <1>7. /\ reg[r].status = "absent" /\ quote[q].status = "active"
        /\ quote' = [quote EXCEPT ![q].status = "consumed"]
        /\ UNCHANGED <<catalog, listed>>
    BY DEF Checkout, NextId, Consumable
  <1> HIDE DEF row
  <1> QED
    BY <1>2, <1>3, <1>4, <1>5, <1>6, <1>7

-----------------------------------------------------------------------------
(* The quotes: consumed by one registration, for good *)

\* Consumed quotes stay as they are, and no row changes.
QuotesMove ==
    /\ reg' = reg /\ sold' = sold
    /\ quote' \in [QuoteIds -> Quote]
    /\ \A q \in QuoteIds : quote[q].status = "consumed" => quote'[q].status = "consumed"
    /\ listed' \subseteq RegIds
    /\ catalog' \in Catalog

LEMMA OtherMoves ==
    ASSUME TypeOK, [Next]_vars,
           ~ \E r \in RegIds : Lifecycle(r),
           ~ \E q \in QuoteIds, r \in RegIds, o \in Owners : Checkout(r, q, o)
    PROVE  QuotesMove
  <1>1. /\ quote \in [QuoteIds -> Quote] /\ catalog \in Catalog /\ listed \subseteq RegIds
    BY DEF TypeOK
  <1>2. ASSUME NEW q \in QuoteIds, NEW o \in Members \cup {"anyone"}, NEW t \in Tiers,
               NEW n \in 1 .. MaxPerOrder, NEW free \in BOOLEAN, NEW lines \in Lines,
               CreateQuote(q, o, t, n, free, lines)
        PROVE  QuotesMove
    <2> DEFINE c == [status |-> "active", due |-> FALSE, owner |-> o, tier |-> t,
                     seats |-> n, free |-> free, lines |-> lines, price |-> catalog.price]
    <2>1. c \in Quote
      BY <1>1, <1>2 DEF Quote, Catalog, Owners
    <2>2. quote' = [quote EXCEPT ![q] = c] /\ quote[q].status = "absent"
      BY <1>2 DEF CreateQuote
    <2> HIDE DEF c
    <2>3. /\ quote' \in [QuoteIds -> Quote]
          /\ \A p \in QuoteIds : quote[p].status = "consumed" => quote'[p].status = "consumed"
      BY <1>1, <2>1, <2>2
    <2> QED
      BY <1>1, <1>2, <2>3 DEF CreateQuote, QuotesMove
  <1>3. ASSUME NEW q \in QuoteIds, QuoteDeadlinePasses(q)
        PROVE  QuotesMove
    <2>1. quote' = [quote EXCEPT ![q].due = TRUE]
      BY <1>3 DEF QuoteDeadlinePasses
    <2>2. /\ quote' \in [QuoteIds -> Quote]
          /\ \A p \in QuoteIds : quote'[p].status = quote[p].status
      BY <1>1, <2>1 DEF Quote
    <2> QED
      BY <1>1, <1>3, <2>2 DEF QuoteDeadlinePasses, QuotesMove
  <1>4. CASE ExpiryScan
    <2>1. quote' = [q \in QuoteIds |->
              IF quote[q].status = "active" /\ quote[q].due
              THEN [quote[q] EXCEPT !.status = "expired"] ELSE quote[q]]
      BY <1>4 DEF ExpiryScan
    <2>2. \A q \in QuoteIds : [quote[q] EXCEPT !.status = "expired"] \in Quote
      BY <1>1 DEF Quote
    <2>3. /\ quote' \in [QuoteIds -> Quote]
          /\ \A p \in QuoteIds : quote[p].status = "consumed" => quote'[p].status = "consumed"
      BY <1>1, <2>1, <2>2
    <2> QED
      BY <1>1, <1>4, <2>3 DEF ExpiryScan, Due, QuotesMove
  <1>5. CASE ExpiryDies \/ UNCHANGED vars
    BY <1>1, <1>5 DEF ExpiryDies, vars, QuotesMove
  <1>6. CASE Organizing
    <2>1. ASSUME NEW v \in Variants, NEW on \in BOOLEAN, NEW p \in Prices,
                 UpdateVariant(v, on, p)
          PROVE  QuotesMove
      <3>1. catalog' \in Catalog
        BY <1>1, <2>1 DEF UpdateVariant, Catalog
      <3> QED
        BY <1>1, <2>1, <3>1 DEF UpdateVariant, QuotesMove
    <2>2. ASSUME NEW b \in BOOLEAN, UpdateInclusion(b) \/ SetEventEnabled(b)
          PROVE  QuotesMove
      <3>1. catalog' \in Catalog
        BY <1>1, <2>2 DEF UpdateInclusion, SetEventEnabled, Catalog
      <3> QED
        BY <1>1, <2>2, <3>1 DEF UpdateInclusion, SetEventEnabled, QuotesMove
    <2>3. ASSUME NEW v \in Variants, NEW total \in 0 .. MaxStock, AdjustStock(v, total)
          PROVE  QuotesMove
      BY <1>1, <2>3 DEF AdjustStock, QuotesMove
    <2> QED
      BY <1>6, <2>1, <2>2, <2>3 DEF Organizing
  <1> QED
    BY <1>2, <1>3, <1>4, <1>5, <1>6 DEF Next, Shopping

-----------------------------------------------------------------------------
(* The inductive invariant *)

LEMMA RowsStep ==
    ASSUME IInv, [Next]_vars
    PROVE  /\ reg' \in [RegIds -> Row] /\ sold' \in [Tiers -> Nat]
           /\ catalog' \in Catalog /\ quote' \in [QuoteIds -> Quote]
           /\ listed' \subseteq RegIds
           /\ RowsSound' /\ SpentQuotes' /\ QuoteSpentOnce'
           /\ \A r \in RegIds : reg[r].res = "confirmed" => reg'[r].res = "confirmed"
  <1> DEFINE Goal == /\ reg' \in [RegIds -> Row] /\ sold' \in [Tiers -> Nat]
                     /\ catalog' \in Catalog /\ quote' \in [QuoteIds -> Quote]
                     /\ listed' \subseteq RegIds
                     /\ RowsSound' /\ SpentQuotes' /\ QuoteSpentOnce'
                     /\ \A r \in RegIds : reg[r].res = "confirmed" => reg'[r].res = "confirmed"
  <1>1. /\ TypeOK /\ RowsSound /\ SpentQuotes /\ QuoteSpentOnce
        /\ reg \in [RegIds -> Row] /\ sold \in [Tiers -> Nat] /\ catalog \in Catalog
        /\ quote \in [QuoteIds -> Quote] /\ listed \subseteq RegIds
        /\ \A r \in RegIds : reg[r].quote \in QuoteIds
    BY DEF IInv, TypeOK, Row
  <1>2. ASSUME NEW r \in RegIds, Lifecycle(r)
        PROVE  Goal
    <2>1. RowMoves(r)
      BY <1>1, <1>2, LifecycleMoves
    <2>2. \A p \in RegIds : p # r => reg'[p] = reg[p]
      BY <2>1 DEF RowMoves, Others
    <2>3. reg' \in [RegIds -> Row]
      BY <1>1, <2>1 DEF RowMoves, Others
    <2>4. RowsSound'
      BY <1>1, <2>1, <2>2 DEF RowsSound, RowSound, RowMoves
    <2>5. SpentQuotes' /\ QuoteSpentOnce'
      BY <1>1, <2>1, <2>2 DEF SpentQuotes, QuoteSpentOnce, RowMoves
    <2> QED
      BY <1>1, <2>1, <2>2, <2>3, <2>4, <2>5 DEF RowMoves
  <1>3. ASSUME NEW r \in RegIds, NEW q \in QuoteIds, NEW o \in Owners, Checkout(r, q, o)
        PROVE  Goal
    <2>1. /\ Others(r) /\ reg[r].status = "absent"
          /\ reg'[r] \in Row /\ RowSound(reg'[r])
          /\ reg'[r].status # "absent" /\ reg'[r].quote = q
          /\ quote[q].status = "active"
          /\ quote' = [quote EXCEPT ![q].status = "consumed"]
          /\ sold' \in [Tiers -> Nat]
          /\ UNCHANGED <<catalog, listed>>
      BY <1>1, <1>3, CheckoutMoves
    <2>2. \A p \in RegIds : p # r => reg'[p] = reg[p]
      BY <2>1 DEF Others
    <2>3. reg' \in [RegIds -> Row]
      BY <1>1, <2>1 DEF Others
    <2>4. RowsSound'
      BY <1>1, <2>1, <2>2 DEF RowsSound, RowSound
    <2>5. /\ quote' \in [QuoteIds -> Quote] /\ quote'[q].status = "consumed"
          /\ \A p \in QuoteIds : p # q => quote'[p] = quote[p]
      BY <1>1, <2>1 DEF Quote
    <2>6. SpentQuotes'
      BY <1>1, <2>1, <2>2, <2>5 DEF SpentQuotes
    <2>7. \A p \in RegIds : reg[p].status # "absent" => reg[p].quote # q
      BY <1>1, <2>1 DEF SpentQuotes
    <2>8. QuoteSpentOnce'
      BY <1>1, <2>1, <2>2, <2>7 DEF QuoteSpentOnce
    <2>9. reg[r].res # "confirmed"
      BY <1>1, <2>1 DEF RowsSound, RowSound
    <2> QED
      BY <1>1, <2>1, <2>2, <2>3, <2>4, <2>5, <2>6, <2>8, <2>9
  <1>4. CASE QuotesMove
    <2>1. SpentQuotes'
      BY <1>1, <1>4 DEF SpentQuotes, QuotesMove
    <2>2. RowsSound' /\ QuoteSpentOnce'
      BY <1>1, <1>4 DEF RowsSound, RowSound, QuoteSpentOnce, QuotesMove
    <2> QED
      BY <1>1, <1>4, <2>1, <2>2 DEF QuotesMove
  <1> QED
    BY <1>1, <1>2, <1>3, <1>4, OtherMoves

LEMMA InitIInv == Init => IInv
  <1> SUFFICES ASSUME Init PROVE IInv
    OBVIOUS
  <1> DEFINE t == CHOOSE t \in Tiers : TRUE
             o == CHOOSE o \in Owners : TRUE
             q0 == CHOOSE q \in QuoteIds : TRUE
             none == [v \in Variants |-> 0]
             p == [v \in Variants |-> CHOOSE p \in Prices : TRUE]
             row == [status |-> "absent", owner |-> o, tier |-> t, seats |-> 1,
                     free |-> FALSE, quote |-> q0, lines |-> none,
                     res |-> "none", due |-> FALSE, given |-> [v \in Variants |-> "pending"]]
             c == [status |-> "absent", due |-> FALSE, owner |-> "anyone", tier |-> t,
                   seats |-> 1, free |-> FALSE, lines |-> none, price |-> p]
  <1>1. /\ t \in Tiers /\ o \in Owners /\ q0 \in QuoteIds /\ none \in Lines
        /\ p \in [Variants -> Prices] /\ 1 \in 1 .. MaxPerOrder
    BY AddOnStockAssumption, SeatUsageAssumption DEF Lines, Owners
  <1>2. /\ reg = [r \in RegIds |-> row] /\ quote = [q \in QuoteIds |-> c]
        /\ sold = Issued /\ listed = {}
        /\ stock = [v \in Variants |-> [total |-> StartStock[v], reserved |-> 0, sold |-> 0]]
        /\ catalog = [enabled |-> TRUE, active |-> TRUE,
                      onSale |-> [v \in Variants |-> TRUE], price |-> p]
    BY DEF Init
  <1> HIDE DEF t, o, q0, none, p
  <1>3. row \in Row /\ c \in Quote
    BY <1>1 DEF Row, Quote, RegistrationStatus, ReservationStatus
  <1>4. /\ row.status = "absent" /\ row.res = "none"
        /\ \A v \in Variants : row.given[v] = "pending"
    OBVIOUS
  <1> HIDE DEF row, c
  <1>5. stock \in Stock
    BY <1>2, AddOnStockAssumption DEF Stock
  <1>6. catalog \in Catalog
    BY <1>1, <1>2 DEF Catalog
  <1>7. TypeOK
    BY <1>2, <1>3, <1>5, <1>6, SeatUsageAssumption DEF TypeOK
  <1>8. \A v \in Variants : /\ AddOnUnits(reg, v, "reserved") = {}
                            /\ AddOnUnits(reg, v, "confirmed") = {}
    BY <1>2, <1>4 DEF AddOnUnits
  <1>9. CountersMatchReservations
    BY <1>2, <1>8, FS_EmptySet DEF CountersMatchReservations
  <1>10. StockNotOversold
    BY <1>2, AddOnStockAssumption DEF StockNotOversold
  <1>11. RowsSound
    BY <1>2, <1>4 DEF RowsSound, RowSound, Cancellable
  <1>12. SpentQuotes /\ QuoteSpentOnce
    BY <1>2, <1>4 DEF SpentQuotes, QuoteSpentOnce
  <1> QED
    BY <1>7, <1>9, <1>10, <1>11, <1>12 DEF IInv

LEMMA NextIInv == IInv /\ [Next]_vars => IInv'
  <1> SUFFICES ASSUME IInv, [Next]_vars PROVE IInv'
    OBVIOUS
  <1>1. TypeOK /\ CountersMatchReservations /\ StockNotOversold /\ BlankRows
    BY DEF IInv, RowsSound, RowSound, BlankRows
  <1>2. Effects
    BY <1>1, StepEffects
  <1>3. /\ reg' \in [RegIds -> Row] /\ sold' \in [Tiers -> Nat]
        /\ catalog' \in Catalog /\ quote' \in [QuoteIds -> Quote]
        /\ listed' \subseteq RegIds
        /\ RowsSound' /\ SpentQuotes' /\ QuoteSpentOnce'
    BY RowsStep
  <1>4. CountersMatchReservations'
    BY <1>1, <1>2, <1>3, CountersStep
  <1>5. stock' \in Stock /\ StockNotOversold'
    BY <1>1, <1>2, <1>3, <1>4, StockStep
  <1> QED
    BY <1>3, <1>4, <1>5 DEF IInv, TypeOK

\* No interleaving of checkouts, reviews, cancellations, stock changes and expiry
\* runs leaves the inductive invariant.
THEOREM StockInvariance == Spec => []IInv
  BY InitIInv, NextIInv, PTL DEF Spec

-----------------------------------------------------------------------------
(* The results *)

\* Every state is well typed: no counter of a variant falls below zero.
THEOREM StockTypeCorrect == Spec => []TypeOK
  <1>1. IInv => TypeOK
    BY DEF IInv
  <1> QED
    BY <1>1, StockInvariance, PTL

\* The counters that checkouts decide on are exactly the units the registrations
\* hold and own, however often releases, approvals and the expiry job meet.
THEOREM CountersAreExact == Spec => []CountersMatchReservations
  <1>1. IInv => CountersMatchReservations
    BY DEF IInv
  <1> QED
    BY <1>1, StockInvariance, PTL

\* No number of concurrent checkouts, and no stock adjustment between a quote and
\* its checkout, promises more units than there are.
THEOREM NeverOversold == Spec => []StockNotOversold
  <1>1. IInv => StockNotOversold
    BY DEF IInv
  <1> QED
    BY <1>1, StockInvariance, PTL

\* A registration's add-ons follow it: held until it is decided, owned once it
\* is verified, given back when it is cancelled, by whatever path.
THEOREM AddOnsFollowRegistration == Spec => []StockFollowsStatus
  <1>1. IInv => StockFollowsStatus
    BY DEF IInv, RowsSound, RowSound, StockFollowsStatus
  <1> QED
    BY <1>1, StockInvariance, PTL

\* A quote makes one registration at most, for any number of retries.
THEOREM OneRegistrationPerQuote == Spec => []QuoteSpentOnce
  <1>1. IInv => QuoteSpentOnce
    BY DEF IInv
  <1> QED
    BY <1>1, StockInvariance, PTL

\* What the desk handed over was paid for, and its registration is never taken
\* back from verified.
THEOREM HandoverIsSafe == Spec => []HandedOverIsPaidFor
  <1>1. IInv => HandedOverIsPaidFor
    BY DEF IInv, RowsSound, RowSound, HandedOverIsPaidFor
  <1> QED
    BY <1>1, StockInvariance, PTL

\* The expiry job never takes back units that were confirmed after it listed
\* their registration.
THEOREM ConfirmedStands == Spec => ConfirmedIsFinal
  <1>1. IInv /\ [Next]_vars =>
          [\A r \in RegIds : reg[r].res = "confirmed" => reg'[r].res = "confirmed"]_vars
    BY RowsStep
  <1> QED
    BY <1>1, StockInvariance, PTL DEF Spec, ConfirmedIsFinal

-----------------------------------------------------------------------------
(* The ledger of claims.  The counters stand for the claims                *)
(* (CountersMatchReservations), so a checkout that looks at the counters   *)
(* alone does what the ledger allows.                                      *)

LEMMA ClaimsAre ==
    ASSUME NEW res \in ReservationStatus
    PROVE  /\ ClaimOf(res) = "none" <=> res = "none"
           /\ ClaimOf(res) = "held" <=> res = "reserved"
           /\ ClaimOf(res) = "sold" <=> res = "confirmed"
           /\ ClaimOf(res) = "returned" <=> res \in {"released", "expired"}
  BY DEF ClaimOf, ReservationStatus

\* The ledger counts with its own instance of the library.
LEMMA SameCount == \A S : Ledger!Cardinality(S) = Cardinality(S)
  BY DEF Ledger!Cardinality, Cardinality

\* What the ledger has promised of a variant is what its two counters say.
LEMMA PromisedIsCounted ==
    ASSUME TypeOK, CountersMatchReservations, NEW v \in Variants
    PROVE  Cardinality(Ledger!Promised(v)) = stock[v].reserved + stock[v].sold
  <1> DEFINE held == AddOnUnits(reg, v, "reserved")
             owned == AddOnUnits(reg, v, "confirmed")
  <1>1. \A r \in RegIds : reg[r].res \in ReservationStatus
    BY DEF TypeOK, Row
  <1>2. Ledger!Promised(v) = held \cup owned
    <2>1. \A r \in RegIds : Claims[r] \in {"held", "sold"}
                               <=> reg[r].res \in {"reserved", "confirmed"}
      BY <1>1, ClaimsAre DEF Claims
    <2>2. \A r \in RegIds : ClaimedUnits[r][v] = reg[r].lines[v]
      BY DEF ClaimedUnits
    <2> QED
      BY <2>1, <2>2 DEF Ledger!Promised, AddOnUnits
  <1>3. held \cap owned = {}
    BY DEF AddOnUnits
  <1>4. IsFiniteSet(RegIds \X (1 .. MaxLine))
    <2>1. MaxRegs \in Int /\ MaxLine \in Int /\ 1 \in Int
      BY SeatUsageAssumption, AddOnStockAssumption
    <2>2. IsFiniteSet(1 .. MaxRegs) /\ IsFiniteSet(1 .. MaxLine)
      BY <2>1, FS_Interval
    <2> QED
      BY <2>2, FS_Product DEF RegIds
  <1>5. IsFiniteSet(held) /\ IsFiniteSet(owned)
    BY <1>4, FS_Subset DEF AddOnUnits
  <1>6. stock[v].reserved = Cardinality(held) /\ stock[v].sold = Cardinality(owned)
    BY DEF CountersMatchReservations
  <1>7. Cardinality(held) \in Nat /\ Cardinality(owned) \in Nat
    BY <1>5, FS_CardinalityType
  <1> HIDE DEF held, owned
  <1>8. Cardinality(held \cup owned) =
          Cardinality(held) + Cardinality(owned) - Cardinality(held \cap owned)
    BY <1>5, FS_Union
  <1>9. Cardinality(held \cap owned) = 0
    BY <1>3, FS_EmptySet
  <1> QED
    BY <1>2, <1>6, <1>7, <1>8, <1>9

-----------------------------------------------------------------------------
(* Each effect of a step is a step of the ledger, or none *)

LEMMA NothingClaimed ==
    ASSUME TypeOK, NoRow \/ \E r \in RegIds : Keeps(r)
    PROVE  UNCHANGED Ledger!vars
  <1>1. CASE NoRow
    BY <1>1 DEF NoRow, Ledger!vars, Claims, ClaimedUnits, Totals
  <1>2. ASSUME NEW r \in RegIds, Keeps(r)
        PROVE  UNCHANGED Ledger!vars
    <2>1. \A q \in RegIds : reg'[q].res = reg[q].res /\ reg'[q].lines = reg[q].lines
      BY <1>2 DEF Keeps, Others
    <2> QED
      BY <1>2, <2>1 DEF Keeps, Ledger!vars, Claims, ClaimedUnits, Totals
  <1> QED
    BY <1>1, <1>2

LEMMA RestockAllowed ==
    ASSUME TypeOK, CountersMatchReservations, StockNotOversold,
           NEW v \in Variants, NEW n \in 0 .. MaxStock, Restocks(v, n)
    PROVE  Ledger!Restock
  <1>1. \A w \in Variants : stock[w].total \in Nat /\ stock[w].reserved \in Nat
                              /\ stock[w].sold \in Nat
    BY AddOnStockAssumption DEF TypeOK, Stock
  <1>2. \A w \in Variants : stock'[w].total = IF w = v THEN n ELSE stock[w].total
    BY DEF Restocks, TypeOK, Stock
  <1>3. Totals' = [w \in Variants |-> IF w = v THEN n ELSE stock[w].total]
    BY <1>2 DEF Totals
  <1>4. Totals' \in [Variants -> Nat]
    BY <1>1, <1>3, AddOnStockAssumption
  <1>5. \A w \in Variants : Cardinality(Ledger!Promised(w)) = stock[w].reserved + stock[w].sold
    BY PromisedIsCounted
  <1>6. \A w \in Variants : stock[w].reserved + stock[w].sold <= Totals'[w]
    BY <1>1, <1>3 DEF Restocks, StockNotOversold
  <1>7. UNCHANGED <<Claims, ClaimedUnits>>
    BY DEF Restocks, Claims, ClaimedUnits
  <1> QED
    BY <1>4, <1>5, <1>6, <1>7, SameCount DEF Ledger!Restock

\* The claim of one registration moves.
LEMMA ClaimMoves ==
    ASSUME TypeOK, reg' \in [RegIds -> Row], NEW r \in RegIds, NEW from, NEW to,
           NEW d \in {-1, 1}, NEW s \in {0, 1}, Moves(r, from, to, d, s)
    PROVE  /\ Claims' = [Claims EXCEPT ![r] = ClaimOf(reg'[r].res)]
           /\ ClaimedUnits' = [ClaimedUnits EXCEPT ![r] = reg'[r].lines]
           /\ UNCHANGED Totals
  <1>1. \A q \in RegIds \ {r} : reg'[q] = reg[q]
    BY DEF Moves, Others
  <1>2. \A v \in Variants : stock'[v].total = stock[v].total
    BY DEF Moves, Moved, TypeOK, Stock
  <1> QED
    BY <1>1, <1>2 DEF Claims, ClaimedUnits, Totals

LEMMA HoldAllowed ==
    ASSUME TypeOK, CountersMatchReservations, StockNotOversold,
           reg' \in [RegIds -> Row], NEW r \in RegIds, Reserves(r)
    PROVE  Ledger!Hold(r, reg'[r].lines)
  <1> DEFINE lines == reg'[r].lines
  <1>1. Moves(r, "none", {"reserved"}, 1, 0)
    BY DEF Reserves
  <1>2. /\ Claims' = [Claims EXCEPT ![r] = ClaimOf(reg'[r].res)]
        /\ ClaimedUnits' = [ClaimedUnits EXCEPT ![r] = lines]
        /\ UNCHANGED Totals
    BY <1>1, ClaimMoves
  <1>3. Claims[r] = "none" /\ ClaimOf(reg'[r].res) = "held"
    <2>1. reg[r].res = "none" /\ reg'[r].res = "reserved"
      BY <1>1 DEF Moves
    <2> QED
      BY <2>1 DEF Claims, ClaimOf
  <1>4. ASSUME NEW v \in Variants
        PROVE  Cardinality(Ledger!Promised(v)) + lines[v] <= Totals[v]
    <2>1. /\ stock[v].total \in Nat /\ stock[v].reserved \in Nat /\ stock[v].sold \in Nat
          /\ stock[v].reserved + stock[v].sold <= stock[v].total
      BY AddOnStockAssumption DEF TypeOK, Stock, StockNotOversold
    <2>2. lines[v] \in Nat
      BY AddOnStockAssumption DEF Row, Lines
    <2>3. lines[v] > 0 => lines[v] <= stock[v].total - stock[v].reserved - stock[v].sold
      BY DEF Reserves, Available
    <2>4. Cardinality(Ledger!Promised(v)) = stock[v].reserved + stock[v].sold
      BY PromisedIsCounted
    <2>5. Totals[v] = stock[v].total
      BY DEF Totals
    <2> HIDE DEF lines
    <2> QED
      BY <2>1, <2>2, <2>3, <2>4, <2>5
  <1> QED
    BY <1>2, <1>3, <1>4, SameCount DEF Ledger!Hold

LEMMA ClaimEnds ==
    ASSUME TypeOK, reg' \in [RegIds -> Row], NEW r \in RegIds
    PROVE  /\ Confirms(r) => Ledger!Sell(r)
           /\ Releases(r) => Ledger!Return(r)
  <1>1. ASSUME NEW to, NEW s \in {0, 1}, Moves(r, "reserved", to, -1, s)
        PROVE  /\ Claims[r] = "held"
               /\ Claims' = [Claims EXCEPT ![r] = ClaimOf(reg'[r].res)]
               /\ UNCHANGED <<ClaimedUnits, Totals>>
               /\ reg'[r].res \in to
    <2>1. /\ Claims' = [Claims EXCEPT ![r] = ClaimOf(reg'[r].res)]
          /\ ClaimedUnits' = [ClaimedUnits EXCEPT ![r] = reg'[r].lines]
          /\ UNCHANGED Totals
      BY <1>1, ClaimMoves
    <2>2. reg[r].res = "reserved" /\ reg'[r].lines = reg[r].lines /\ reg'[r].res \in to
      BY <1>1 DEF Moves
    <2>3. UNCHANGED ClaimedUnits
      BY <2>1, <2>2 DEF ClaimedUnits
    <2> QED
      BY <2>1, <2>2, <2>3 DEF Claims, ClaimOf
  <1>2. ASSUME Confirms(r) PROVE Ledger!Sell(r)
    <2>1. Moves(r, "reserved", {"confirmed"}, -1, 1)
      BY <1>2 DEF Confirms
    <2>2. ClaimOf("confirmed") = "sold"
      BY DEF ClaimOf
    <2> QED
      BY <1>1, <2>1, <2>2 DEF Ledger!Sell
  <1>3. ASSUME Releases(r) PROVE Ledger!Return(r)
    <2>1. Moves(r, "reserved", {"released", "expired"}, -1, 0)
      BY <1>3 DEF Releases
    <2>2. ClaimOf("released") = "returned" /\ ClaimOf("expired") = "returned"
      BY DEF ClaimOf
    <2> QED
      BY <1>1, <2>1, <2>2 DEF Ledger!Return
  <1> QED
    BY <1>2, <1>3

-----------------------------------------------------------------------------
(* The refinement *)

LEMMA LedgerInit == Init => Ledger!Init
  <1> SUFFICES ASSUME Init PROVE Ledger!Init
    OBVIOUS
  <1>1. \A r \in RegIds : reg[r].res = "none" /\ reg[r].lines = [v \in Variants |-> 0]
    BY DEF Init
  <1>2. \A v \in Variants : stock[v].total = StartStock[v]
    BY DEF Init
  <1>3. Claims = [r \in RegIds |-> "none"]
    BY <1>1 DEF Claims, ClaimOf
  <1>4. ClaimedUnits = [r \in RegIds |-> [v \in Variants |-> 0]]
    BY <1>1 DEF ClaimedUnits
  <1>5. Totals = StartStock
    BY <1>2, AddOnStockAssumption DEF Totals
  <1> QED
    BY <1>3, <1>4, <1>5 DEF Ledger!Init

LEMMA LedgerStep == IInv /\ [Next]_vars => [Ledger!Next]_(Ledger!vars)
  <1> SUFFICES ASSUME IInv, [Next]_vars PROVE [Ledger!Next]_(Ledger!vars)
    OBVIOUS
  <1>1. TypeOK /\ CountersMatchReservations /\ StockNotOversold /\ BlankRows
    BY DEF IInv, RowsSound, RowSound, BlankRows
  <1>2. Effects
    BY <1>1, StepEffects
  <1>3. reg' \in [RegIds -> Row]
    BY RowsStep
  <1>4. CASE NoRow \/ \E r \in RegIds : Keeps(r)
    BY <1>1, <1>4, NothingClaimed
  <1>5. ASSUME NEW v \in Variants, NEW n \in 0 .. MaxStock, Restocks(v, n)
        PROVE  Ledger!Next
    BY <1>1, <1>5, RestockAllowed DEF Ledger!Next
  <1>6. ASSUME NEW r \in RegIds, Reserves(r)
        PROVE  Ledger!Next
    <2>1. Ledger!Hold(r, reg'[r].lines)
      BY <1>1, <1>3, <1>6, HoldAllowed
    <2>2. reg'[r].lines \in [Variants -> 0 .. MaxLine]
      BY <1>3 DEF Row, Lines
    <2> QED
      BY <2>1, <2>2 DEF Ledger!Next
  <1>7. ASSUME NEW r \in RegIds, Confirms(r) \/ Releases(r)
        PROVE  Ledger!Next
    BY <1>1, <1>3, <1>7, ClaimEnds DEF Ledger!Next
  <1> QED
    BY <1>2, <1>4, <1>5, <1>6, <1>7 DEF Effects

\* Checkouts, reviews, cancellations, the hold release, the expiry job and the
\* organizer's stock changes, in any interleaving, do nothing a ledger of claims
\* would not do: claims are whole, fit the stock, and end once.
THEOREM StockImplementsLedger == Spec => ImplementsLedger
  <1>1. Init => Ledger!Init
    BY LedgerInit
  <1>2. IInv /\ [Next]_vars => [Ledger!Next]_(Ledger!vars)
    BY LedgerStep
  <1> QED
    BY <1>1, <1>2, StockInvariance, PTL DEF Spec, ImplementsLedger, Ledger!Spec
=============================================================================
