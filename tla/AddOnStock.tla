------------------------------ MODULE AddOnStock ------------------------------
(***************************************************************************)
(* Optional inclusions: add-ons with finite stock that a checkout reserves *)
(* through a quote (optional-inclusions.service.ts), and what happens to   *)
(* the stock as the registration is paid, reviewed, cancelled or expires   *)
(* (the callers in registrations.service.ts, registration-hold.service.ts, *)
(* payment-proofs.service.ts and scheduler.service.ts).                    *)
(*                                                                         *)
(* Every transaction here locks the registration row, the quote or the     *)
(* variants before it reads them, so each is one action; what a handler    *)
(* reads before its transaction can only make it refuse earlier.  The one  *)
(* decision that rests on an earlier read is the expiry job's: it lists    *)
(* the due registrations (ExpiryScan) and then runs one transaction for    *)
(* each (ExpireListed), the process may end in between (ExpiryDies).       *)
(*                                                                         *)
(* A registration with add-ons has its attendees from the start, so a      *)
(* proof always puts it under review; it has no stored admission deadline. *)
(* Proof rows and the races on them are in module Registrations.  The      *)
(* variants belong to one inclusion without a sale window.                 *)
(***************************************************************************)
EXTENDS SeatUsage

CONSTANTS Capacity,   \* TicketTier.totalQuantity of each tier
          Members,    \* accounts
          Emails,     \* guests who gave their email
          Variants,   \* the variants of the inclusion
          QuoteIds,   \* bound: the quotes ever created
          MaxLine,    \* bound: units of one variant in one registration
          MaxStock,   \* bound: units of one variant ever in stock
          Prices,     \* the prices a variant is given
          StartStock  \* units of each variant when sales open

ASSUME AddOnStockAssumption ==
    /\ Capacity \in [Tiers -> Nat]
    /\ \A t \in Tiers : Issued[t] <= Capacity[t]
    /\ MaxLine \in Nat /\ MaxStock \in Nat
    /\ StartStock \in [Variants -> 0 .. MaxStock]
    /\ \E v \in Variants : StartStock[v] > 0
    /\ Prices # {} /\ QuoteIds # {} /\ Tiers # {} /\ Members \cup Emails # {}
    /\ Members \cap Emails = {}

VARIABLES
    reg,      \* registrations with their line items and inventory reservations
    sold,     \* TicketTier.soldQuantity
    stock,    \* inclusion_variants: the three counters
    catalog,  \* what is on sale: feature switch, inclusion, variants and prices
    quote,    \* checkout_quotes
    listed    \* registrations the running expiry job has yet to release

vars == <<reg, sold, stock, catalog, quote, listed>>

-----------------------------------------------------------------------------
Owners == Members \cup Emails
Lines == [Variants -> 0 .. MaxLine]
ReservationStatus == {"none", "reserved", "confirmed", "released", "expired"}

\* The reservations of a registration are made together and move together:
\* res is their status, due whether their deadline has passed.  given: the
\* fulfilment of each line, pending until it is handed over.
Row == [status : RegistrationStatus, owner : Owners, tier : Tiers,
        seats : 1 .. MaxPerOrder, free : BOOLEAN, quote : QuoteIds,
        lines : Lines, res : ReservationStatus, due : BOOLEAN,
        given : [Variants -> {"pending", "fulfilled", "reversed"}]]

Quote == [status : {"absent", "active", "consumed", "expired"}, due : BOOLEAN,
          owner : Owners \cup {"anyone"}, tier : Tiers, seats : 1 .. MaxPerOrder,
          free : BOOLEAN, lines : Lines, price : [Variants -> Prices]]

Stock == [Variants -> [total : 0 .. MaxStock, reserved : Nat, sold : Nat]]

Catalog == [enabled : BOOLEAN, active : BOOLEAN,
            onSale : [Variants -> BOOLEAN], price : [Variants -> Prices]]

UnderReview == {"proof_submitted", "pending_approval"}
Cancellable == {"pending_payment", "proof_submitted", "pending_approval", "rejected"}

Available(v) == stock[v].total - stock[v].reserved - stock[v].sold

\* n[v] units of each variant move by d to or from the reserved units, and by
\* s to the sold ones.
Moved(n, d, s) == [v \in Variants |->
    [stock[v] EXCEPT !.reserved = @ + d * n[v], !.sold = @ + s * n[v]]]

NextId(r) == /\ reg[r].status = "absent"
             /\ \A q \in RegIds : q < r => reg[q].status # "absent"

HasActive(o) ==
    \E q \in RegIds : reg[q].owner = o /\ reg[q].status \in ACTIVE_REGISTRATION_STATUSES

\* The owner of the check is the account alone: a guest without one is stopped
\* by the rejected registration of any other guest.
RejectedHoldsAddOns(o) ==
    \E q \in RegIds :
        /\ reg[q].owner = o \/ {o, reg[q].owner} \cap Members = {}
        /\ reg[q].status = "rejected" /\ reg[q].res = "reserved"

\* assertActiveInclusionHasViableVariantTx, after the change
Viable(s, c) == c.active => \E v \in Variants : c.onSale[v] /\ s[v].total > 0

SeatsReturned(r) == LET t == reg[r].tier IN
    [sold EXCEPT ![t] = IF @ > reg[r].seats THEN @ - reg[r].seats ELSE 0]

-----------------------------------------------------------------------------
Init ==
    LET t == CHOOSE t \in Tiers : TRUE
        o == CHOOSE o \in Owners : TRUE
        none == [v \in Variants |-> 0]
        p == [v \in Variants |-> CHOOSE p \in Prices : TRUE] IN
    /\ reg = [r \in RegIds |->
          [status |-> "absent", owner |-> o, tier |-> t, seats |-> 1,
           free |-> FALSE, quote |-> CHOOSE q \in QuoteIds : TRUE, lines |-> none,
           res |-> "none", due |-> FALSE, given |-> [v \in Variants |-> "pending"]]]
    /\ sold = Issued
    /\ stock = [v \in Variants |->
          [total |-> StartStock[v], reserved |-> 0, sold |-> 0]]
    /\ catalog = [enabled |-> TRUE, active |-> TRUE,
                  onSale |-> [v \in Variants |-> TRUE], price |-> p]
    /\ quote = [q \in QuoteIds |->
          [status |-> "absent", due |-> FALSE, owner |-> "anyone", tier |-> t,
           seats |-> 1, free |-> FALSE, lines |-> none, price |-> p]]
    /\ listed = {}

\* createQuote: prices and availability now; nothing is reserved.
CreateQuote(q, o, t, n, free, lines) ==
    /\ quote[q].status = "absent"
    /\ catalog.enabled
    /\ \E v \in Variants : lines[v] > 0
    /\ \A v \in Variants : lines[v] > 0 =>
          catalog.active /\ catalog.onSale[v] /\ lines[v] <= Available(v)
    /\ quote' = [quote EXCEPT ![q] =
          [status |-> "active", due |-> FALSE, owner |-> o, tier |-> t,
           seats |-> n, free |-> free, lines |-> lines, price |-> catalog.price]]
    /\ UNCHANGED <<reg, sold, stock, catalog, listed>>

QuoteDeadlinePasses(q) ==
    /\ quote[q].status = "active" /\ ~quote[q].due
    /\ quote' = [quote EXCEPT ![q].due = TRUE]
    /\ UNCHANGED <<reg, sold, stock, catalog, listed>>

\* Mutant: the quote is only read, never found used.
QuoteReadable(q, o) ==
    /\ quote[q].status # "absent" /\ ~quote[q].due
    /\ quote[q].owner \in {o, "anyone"}

\* validateConsumableQuote, under the quote's row lock
Consumable(q, o) ==
    /\ quote[q].status = "active" /\ ~quote[q].due
    /\ quote[q].owner \in {o, "anyone"}

\* Mutant: what was reserved by others is left out of account.
StillOfferedUnreserved(v, q) ==
    /\ catalog.active /\ catalog.onSale[v]
    /\ catalog.price[v] = quote[q].price[v]
    /\ quote[q].lines[v] <= stock[v].total - stock[v].sold

\* The variant under its row lock, against the quoted line.
StillOffered(v, q) ==
    /\ catalog.active /\ catalog.onSale[v]
    /\ catalog.price[v] = quote[q].price[v]
    /\ quote[q].lines[v] <= Available(v)

\* createImpl with a quote, consumeQuoteTx included: one transaction.
Checkout(r, q, o) == LET c == quote[q] IN
    /\ NextId(r)
    /\ Consumable(q, o)
    /\ catalog.enabled
    /\ ~HasActive(o) /\ ~RejectedHoldsAddOns(o)
    /\ Occupied(reg, c.tier) + c.seats <= Capacity[c.tier]
    /\ \A v \in Variants : c.lines[v] > 0 => StillOffered(v, q)
    /\ reg' = [reg EXCEPT ![r] =
          [status |-> IF c.free THEN "pending_approval" ELSE "pending_payment",
           owner |-> o, tier |-> c.tier, seats |-> c.seats, free |-> c.free,
           quote |-> q, lines |-> c.lines, res |-> "reserved", due |-> FALSE,
           given |-> [v \in Variants |-> "pending"]]]
    /\ sold' = [sold EXCEPT ![c.tier] = Occupied(reg, c.tier) + c.seats]
    /\ stock' = Moved(c.lines, 1, 0)
    /\ quote' = [quote EXCEPT ![q].status = "consumed"]
    /\ UNCHANGED <<catalog, listed>>

HoldDeadlinePasses(r) ==
    /\ reg[r].res = "reserved" /\ ~reg[r].due
    /\ reg' = [reg EXCEPT ![r].due = TRUE]
    /\ UNCHANGED <<sold, stock, catalog, quote, listed>>

-----------------------------------------------------------------------------
(* The life of a registration that holds stock. *)

\* A new deadline: the review hold of a submitted proof, the grace after a
\* rejection.
Extended(row) == IF row.res = "reserved" THEN FALSE ELSE row.due

\* PaymentProofsService.create: only a rejected registration is asked whether
\* its stock is still reserved and in time.
SubmitProof(r) ==
    /\ reg[r].status \in {"pending_payment", "rejected"}
    /\ reg[r].status = "rejected" =>
          reg[r].res \notin {"released", "expired"}
          /\ ~(reg[r].res = "reserved" /\ reg[r].due)
    /\ reg' = [reg EXCEPT ![r].status = "pending_approval", ![r].due = Extended(reg[r])]
    /\ UNCHANGED <<sold, stock, catalog, quote, listed>>

\* reject, with markProofRejectedGraceTx
Reject(r) ==
    /\ reg[r].status \in UnderReview
    /\ reg' = [reg EXCEPT ![r].status = "rejected", ![r].due = Extended(reg[r])]
    /\ UNCHANGED <<sold, stock, catalog, quote, listed>>

\* Mutant: the confirmed units stay counted as reserved.
ConfirmedTwice(r) == Moved(reg[r].lines, 0, 1)

ConfirmedStock(r) == Moved(reg[r].lines, -1, 1)

\* approve, with confirmRegistrationReservationsTx
Approve(r) ==
    /\ reg[r].status \in UnderReview
    /\ ~(reg[r].res = "reserved" /\ reg[r].due)
    /\ reg' = [reg EXCEPT ![r].status = "verified",
                          ![r].res = IF @ = "reserved" THEN "confirmed" ELSE @]
    /\ stock' = IF reg[r].res = "reserved" THEN ConfirmedStock(r) ELSE stock
    /\ UNCHANGED <<sold, catalog, quote, listed>>

\* Mutant: everything listed goes back, whatever became of it.
ReleasedAnyway(r, how) == how

\* releaseRegistrationReservationsTx: what is still reserved goes back.
ReleasedStock(r) == IF reg[r].res = "reserved" THEN Moved(reg[r].lines, -1, 0) ELSE stock
ReleasedRes(r, how) == IF reg[r].res = "reserved" THEN how ELSE reg[r].res

Cancelled(r, how) ==
    /\ reg' = [reg EXCEPT ![r].status = "cancelled", ![r].res = ReleasedRes(r, how)]
    /\ sold' = SeatsReturned(r)
    /\ stock' = ReleasedStock(r)

\* releasePendingHold, whoever calls it: module Registrations has the callers.
ReleasePendingHold(r, how) ==
    /\ reg[r].status = "pending_payment"
    /\ Cancelled(r, how)
    /\ UNCHANGED <<catalog, quote, listed>>

\* cancel
CustomerCancels(r) ==
    /\ reg[r].owner \in Members
    /\ reg[r].status \in Cancellable
    /\ Cancelled(r, "released")
    /\ UNCHANGED <<catalog, quote, listed>>

-----------------------------------------------------------------------------
(* expireDueReservations, at the start of the cron's hold cleanup. *)

\* Mutant: holds under review are left to the organizer.
DueUnpaid == {r \in RegIds : /\ reg[r].res = "reserved" /\ reg[r].due
                            /\ reg[r].status = "pending_payment"}

Due == {r \in RegIds : reg[r].res = "reserved" /\ reg[r].due}

ExpiryScan ==
    /\ listed = {}
    /\ Due # {} \/ \E q \in QuoteIds : quote[q].status = "active" /\ quote[q].due
    /\ quote' = [q \in QuoteIds |->
          IF quote[q].status = "active" /\ quote[q].due
          THEN [quote[q] EXCEPT !.status = "expired"] ELSE quote[q]]
    /\ listed' = Due
    /\ UNCHANGED <<reg, sold, stock, catalog>>

\* Mutant: a rejected registration is left as it is once its stock is gone.
CancelledByExpiryUnrejected(r) == reg[r].status \in Cancellable \ {"rejected"}

CancelledByExpiry(r) == reg[r].status \in Cancellable

\* The transaction for one listed registration asks for its status, and not
\* whether the hold is still due.
ExpireListed(r) ==
    /\ r \in listed
    /\ listed' = listed \ {r}
    /\ IF CancelledByExpiry(r)
          THEN Cancelled(r, "expired")
          ELSE /\ reg' = [reg EXCEPT ![r].res = ReleasedRes(r, "expired")]
               /\ stock' = ReleasedStock(r)
               /\ UNCHANGED sold
    /\ UNCHANGED <<catalog, quote>>

\* A failed transaction ends the run: nothing catches it inside the loop.
ExpiryDies ==
    /\ listed # {}
    /\ listed' = {}
    /\ UNCHANGED <<reg, sold, stock, catalog, quote>>

-----------------------------------------------------------------------------
(* The organizer's side: stock, catalogue and handover. *)

AdjustStock(v, total) ==
    /\ total # stock[v].total
    /\ total >= stock[v].reserved + stock[v].sold
    /\ stock' = [stock EXCEPT ![v].total = total]
    /\ Viable(stock', catalog)
    /\ UNCHANGED <<reg, sold, catalog, quote, listed>>

UpdateVariant(v, onSale, price) ==
    /\ catalog' = [catalog EXCEPT !.onSale[v] = onSale, !.price[v] = price]
    /\ Viable(stock, catalog')
    /\ UNCHANGED <<reg, sold, stock, quote, listed>>

UpdateInclusion(active) ==
    /\ catalog' = [catalog EXCEPT !.active = active]
    /\ Viable(stock, catalog')
    /\ UNCHANGED <<reg, sold, stock, quote, listed>>

SetEventEnabled(enabled) ==
    /\ catalog' = [catalog EXCEPT !.enabled = enabled]
    /\ UNCHANGED <<reg, sold, stock, quote, listed>>

\* Mutant: whoever has a line can collect it.
AnyLine(r, v) == reg[r].lines[v] > 0 /\ reg[r].status # "cancelled"

VerifiedLine(r, v) == reg[r].lines[v] > 0 /\ reg[r].status = "verified"

Fulfill(r, v) ==
    /\ VerifiedLine(r, v)
    /\ reg[r].given[v] # "fulfilled"
    /\ reg' = [reg EXCEPT ![r].given[v] = "fulfilled"]
    /\ UNCHANGED <<sold, stock, catalog, quote, listed>>

ReverseFulfillment(r, v) ==
    /\ reg[r].given[v] = "fulfilled"
    /\ reg' = [reg EXCEPT ![r].given[v] = "reversed"]
    /\ UNCHANGED <<sold, stock, catalog, quote, listed>>

-----------------------------------------------------------------------------
Shopping ==
    \/ \E q \in QuoteIds :
          \/ \E o \in Members \cup {"anyone"}, t \in Tiers, n \in 1 .. MaxPerOrder,
                free \in BOOLEAN, lines \in Lines : CreateQuote(q, o, t, n, free, lines)
          \/ QuoteDeadlinePasses(q)
          \/ \E r \in RegIds, o \in Owners : Checkout(r, q, o)

Lifecycle(r) ==
    \/ HoldDeadlinePasses(r) \/ SubmitProof(r) \/ Reject(r) \/ Approve(r)
    \/ \E how \in {"released", "expired"} : ReleasePendingHold(r, how)
    \/ CustomerCancels(r) \/ ExpireListed(r)
    \/ \E v \in Variants : Fulfill(r, v) \/ ReverseFulfillment(r, v)

Organizing ==
    \/ \E v \in Variants :
          \/ \E total \in 0 .. MaxStock : AdjustStock(v, total)
          \/ \E on \in BOOLEAN, p \in Prices : UpdateVariant(v, on, p)
    \/ \E b \in BOOLEAN : UpdateInclusion(b) \/ SetEventEnabled(b)

Next == Shopping \/ (\E r \in RegIds : Lifecycle(r)) \/ ExpiryScan \/ ExpiryDies
        \/ Organizing

\* The cron calls the job every five minutes, and no registration's transaction
\* fails in every run.
Fairness == WF_vars(ExpiryScan) /\ \A r \in RegIds : SF_vars(ExpireListed(r))

Spec == Init /\ [][Next]_vars
FairSpec == Spec /\ Fairness

-----------------------------------------------------------------------------
(* Properties *)

TypeOK ==
    /\ reg \in [RegIds -> Row]
    /\ sold \in [Tiers -> Nat]
    /\ stock \in Stock
    /\ catalog \in Catalog
    /\ quote \in [QuoteIds -> Quote]
    /\ listed \subseteq RegIds

\* The units of v that registrations hold in a reservation status.
AddOnUnits(rows, v, res) ==
    {u \in RegIds \X (1 .. MaxLine) : rows[u[1]].res = res /\ u[2] <= rows[u[1]].lines[v]}

\* The counters of a variant are the reservations they count, although six
\* handlers move them with increments, some of them racing the expiry job.
CountersMatchReservations ==
    \A v \in Variants :
        /\ stock[v].reserved = Cardinality(AddOnUnits(reg, v, "reserved"))
        /\ stock[v].sold = Cardinality(AddOnUnits(reg, v, "confirmed"))

\* Stock is never promised twice: the database constraint on the counters is
\* never what stops a checkout or a stock adjustment.
StockNotOversold ==
    \A v \in Variants : stock[v].reserved + stock[v].sold <= stock[v].total

\* A registration holds its add-ons as long as it can still be approved, owns
\* them once it is verified, and has given them back when it is cancelled.
StockFollowsStatus ==
    \A r \in RegIds :
        /\ reg[r].status \in Cancellable => reg[r].res = "reserved"
        /\ reg[r].status = "verified" => reg[r].res = "confirmed"
        /\ reg[r].status = "cancelled" => reg[r].res \in {"released", "expired"}

\* A quote is spent once, however often its checkout is retried and whoever
\* holds its token.
QuoteSpentOnce ==
    \A p, r \in RegIds :
        /\ p # r /\ reg[p].status # "absent" /\ reg[r].status # "absent"
        => reg[p].quote # reg[r].quote

\* Add-ons that were handed over stay with a verified registration that paid
\* for them.
HandedOverIsPaidFor ==
    \A r \in RegIds : (\E v \in Variants : reg[r].given[v] = "fulfilled") =>
        reg[r].status = "verified" /\ reg[r].res = "confirmed"

\* Stock that is confirmed never goes back, whatever the expiry job listed.
ConfirmedIsFinal ==
    [][\A r \in RegIds : reg[r].res = "confirmed" => reg'[r].res = "confirmed"]_vars

\* To its callers the stock is a ledger of claims (module StockLedger).
ClaimOf(res) ==
    CASE res = "none" -> "none"
      [] res = "reserved" -> "held"
      [] res = "confirmed" -> "sold"
      [] OTHER -> "returned"

Claims == [r \in RegIds |-> ClaimOf(reg[r].res)]
ClaimedUnits == [r \in RegIds |-> reg[r].lines]
Totals == [v \in Variants |-> stock[v].total]

Ledger == INSTANCE StockLedger WITH
    Orders <- RegIds, claim <- Claims, units <- ClaimedUnits, total <- Totals

\* Counters, quotes, retries and the two jobs together keep the ledger's word:
\* every order gets all its units or none, from units nobody else was promised
\* (although checkout and stock adjustment only look at the counters), and its
\* claim ends once.
ImplementsLedger == Ledger!Spec

\* Every reservation past its deadline is released, sold or given a new one.
DueHoldsEnd ==
    \A r \in RegIds :
        reg[r].res = "reserved" /\ reg[r].due
            ~> reg[r].res # "reserved" \/ ~reg[r].due

-----------------------------------------------------------------------------
\* docs/OPTIONAL-INCLUSIONS-V1.md: "A submitted proof keeps stock reserved
\* during organizer review": it does not expire while the review hold runs.
ProofKeepsStock ==
    [][\A r \in RegIds :
          reg[r].status = "pending_approval" /\ reg[r].res = "reserved" /\ ~reg[r].due
              => reg'[r].res # "expired"]_vars

=============================================================================
