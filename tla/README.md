# Formal model of Tixora / Axon Tickets

This directory holds a TLA+ model of the ticketing API in `src/apps/api`: the
modules, the TLC configurations that check them on small instances, and proofs
of the most important results that hold for instances of any size.
`PROJECT.json` ties every definition to the source lines it models and lists
the runs, mutants, hazards, findings and theorems.

## 1. Inventory

The repository is a monorepo. The logic that must be right is the NestJS API in
`src/apps/api/src` (Prisma over PostgreSQL, and Redis). It runs as serverless
functions: each request, and each cron call that `.github/workflows/cron.yml`
makes every five minutes, is a process of its own. Processes share nothing but
the database and Redis, and the platform may end one at any point.
`src/apps/web` is a Next.js client; the API trusts none of its state, but its tabs
share a session and a remembered hold, which can go wrong on their own.
`src/packages` holds types and helpers.

| Component | State | Operations that change it | Hard behaviour | Correct means |
|---|---|---|---|---|
| Registrations (`registrations.service.ts`) | registration rows, attendees, `TicketTier.soldQuantity` | create (account, guest with email, anonymous guest), save for later, complete attendees, claim, cancel, approve, reject | concurrent checkouts for the last seats; decisions on rows read before the transaction | seats fit the tier; one active registration per owner; verified means paid; a final decision stands |
| Holds (`registration-hold.service.ts`) | the unpaid rows and their deadline | releasePendingHold, from five callers | release races proof upload and extension | only an unpaid hold is released, and only when due |
| Payment proofs (`payment-proofs.service.ts`) | proof rows | create | upload races cleanup; resubmission after rejection | a paid hold is kept |
| Scheduler (`scheduler.service.ts`, `cron.yml`) | none of its own | hold cleanup, sale-end cancellation, event closing, reminders | capped batches, time budget, retries by the next run; the add-on expiry comes first, on the same clock | every stale hold ends, as long as runs reach rows |
| Seat usage (`common/seats/seat-usage.ts`) | none | counts | one definition used by four callers | the three shown counts add up to what checkout counts |
| Add-ons (`optional-inclusions.service.ts`) | variants (total, reserved, sold), reservations, quotes, movements, fulfilments | quote, consume, confirm, release, expire, adjust, fulfil, reverse | holds of its own deadline; expiry scan and later transaction | stock is conserved and never oversold |
| Guest hold policy (`guest-hold.service.ts`) | Redis counters and markers | acquire, bind, undo, release slots; mail limits; reminder markers | keys expire between two calls; Redis fails | caps hold; a key never goes below zero |
| Ticket tiers (`ticket-tiers.service.ts`) | capacity, visibility, Redis inventory | create, update, remove | capacity edit races checkout | capacity never below what is reserved |
| Events, doors and bibs (`events.service.ts`, `admin.service.ts`) | events, walk-in registrations, attendance, bibs and their counters | edit, publish, walk-in, check in, number, move to another distance | walk-in desk and checkout lock different things; two scanners; details that arrive after the approval read them; a distance is held by its name or by its code | nobody enters twice; no printed bib twice |
| Order flow (`reservations`, `orders`, `tickets`) | reservations, orders, tickets, Redis inventory | reserve, cancel, expire, order, confirm payment | database and Redis in two steps; replayed confirmations | inventory is conserved |
| Authentication (`auth.service.ts`) with its clients (`lib/session.ts`, `lib/api.ts`, `providers.tsx`) | one-time codes, refresh tokens in Redis; tokens in each tab and in localStorage | request, verify, refresh, restore, log out | a token is revoked on first use while two tabs hold it; revocation and new token are two calls; lost answers | nobody is signed out, or signed in again, by a race |
| Organizations, workspaces (`organizations`, `workspaces`, `admin` services) | applications, members, invitations, workspace rows, tasks, merch claims | apply, decide, add, invite, accept, remove, assign, claim | no transactions: each statement can be overtaken | one organization per person; who is removed keeps nothing |
| Users, email, uploads, QR, audit, funnel, health, analytics | single rows, logs | append, read | none beyond I/O failure | - |

How they interact: checkout (`createImpl`) locks the tier row, counts seats with
the statuses of *Seat usage*, and consumes an add-on quote in the same
transaction; proof upload, rejection and approval call the add-on service inside
theirs; every release of a hold goes through *Holds*, which gives add-on stock
and seats back; the *Scheduler* drives *Holds*, the add-on expiry and the order
flow's expiry; the *Guest hold policy* answers before a guest's checkout and
before an extension.
## 2. Modules

### SeatUsage
`common/seats/seat-usage.ts`. A registration of n attendees is n *seat units*
`<<r, 1>> .. <<r, n>>`, so the SQL sum of `attendeeCount` over rows is the
cardinality of a set. `Occupied` is what checkout compares with the capacity;
`ReservedSeats` is the sum of the three counts shown to an organizer. Tickets
issued by the order flow are the constant `Issued`.

### Registrations
One event that is open for registration. `reg` is the registrations table with
the attendee rows (`sets`, in multiples of `attendeeCount`) and payment proofs
of each row folded in; `sold` is the stored `soldQuantity`.

*Atomicity.* A transaction that locks what it reads before deciding (checkout,
proof upload, release of a hold, cancel) is one action. A handler that decides
on what it read before its transaction is two actions, `XBegin` and `XCommit`,
and any step may happen between them: attendee completion, both claims, approve,
reject, save-for-later. `HandlerDies` ends a handler anywhere (failed mail,
failed statement, time limit). The cleanup's scan and its releases are separate
steps as well; a run reaches any number of its rows, none included, since the
add-on expiry comes first, on the same clock.

| Code | Action |
|---|---|
| `createImpl` for account, guest email, anonymous guest | `Create` |
| `PaymentProofsService.create` | `SubmitProof` |
| `releasePendingHold` from `cancelGuest`, `releaseHoldByAdmin`, `releaseExpiredMemberHolds`/`releaseIfHoldExpired`, `autoCancelExpiredRegistrations`, `cleanupOrphanRegistrations` | `GuestCancels`, `AdminReleases`, `OwnerFindsExpired`, `SaleEndCancels`, `CleanupReleases` |
| `cleanupOrphanRegistrations`: its two queries; a release that throws and is logged | `CleanupScan`, `CleanupFails` |
| `saveGuestForLater` | `SaveBegin`, `SaveCommit` |
| `updateAttendeesForRegistration` (account, guest, `confirmGuestCheckout`) | `CompleteBegin`, `CompleteCommit` |
| `claimAndComplete`, `claimCompletedGuest` | `ClaimBegin/Commit`, `LinkBegin/Commit` |
| `cancel` | `CustomerCancels` |
| `approve`, `reject` | `ApproveBegin/Commit`, `RejectBegin/Commit` |

*Time* is one bit per row, whether its effective deadline has passed
(`DeadlinePasses`; `SaveCommit` may set it back). *History variables*: `revived`
holds the rows that a step made active again from rejected or cancelled,
`linked` the guest rows given to an account. Properties use them to say exactly
which paths escape the guards of checkout.

*Left out*: add-ons and referral codes inside checkout (rows carry neither, so
the selects by registration id find nothing), a registration window that closes
(`createImpl` never looks at a tier's `saleEndsAt`), mail and audit records,
guest codes and access tokens, which decide who may call and not what a call
does.

### AddOnStock
Optional inclusions of one event: `stock` has the three counters of each
variant, `catalog` the feature switch, the inclusion's status and each variant's
price and flag, `quote` the checkout quotes. `reg` is the registrations table
again, with the columns add-ons depend on and the inventory reservations of a
row folded in: they are made in one transaction and every handler moves all
that are still reserved, so they share one status (`res`) and one deadline bit
(`due`). `given` is the fulfilment of each line.

| Code | Action |
|---|---|
| `createQuote` | `CreateQuote` |
| `createImpl` with a quote, `consumeQuoteTx` | `Checkout` |
| `PaymentProofsService.create`, `markProofSubmittedReviewTx` | `SubmitProof` |
| `approve`, `confirmRegistrationReservationsTx` | `Approve` |
| `reject`, `markProofRejectedGraceTx` | `Reject` |
| `releasePendingHold`, `cancel`, `releaseRegistrationReservationsTx` | `ReleasePendingHold`, `CustomerCancels` |
| `expireDueReservations`: its two first queries, one transaction of its loop, its end by an exception | `ExpiryScan`, `ExpireListed`, `ExpiryDies` |
| `adjustStock`, `updateVariant`, `update`, `setEventEnabled` | `AdjustStock`, `UpdateVariant`, `UpdateInclusion`, `SetEventEnabled` |
| `fulfill`, `reverseFulfillment` | `Fulfill`, `ReverseFulfillment` |

*Atomicity.* Each of these locks the registration, quote or variant rows it
decides on inside its transaction, so each is one action; only the expiry job
acts on a list read before. *Left out*: sale windows, tier eligibility, lines
assigned to attendees, referral discounts, and variants or inclusions added
while sales run (a new variant starts with counters at zero).

### TierCapacity
Who may change the seats of a tier, and what each of them locks: the checkout
(`createImpl`), the walk-in desk (`handleOnsiteRegistrationScan`) and the
organizer (`TicketTiersService`). `tier` has the capacity, the stored
`soldQuantity` and the visibility of each tier; `req` what a desk or an editor
under way has read.

| Code | Action |
|---|---|
| `createImpl`: row lock, count, insert | `Checkout` |
| `releasePendingHold`, `cancel` | `SeatsReturn` |
| walk-in: event read before the transaction; lock on the person and duplicate lookup; lock on the tier and count; insert, `soldQuantity`, commit | `DeskReads`, `DeskLooks`, `DeskCounts`, `DeskCommits` |
| `update`: tier read before the transaction; the transaction | `EditReads`, `EditCommits`, `SetVisible` |
| `delete` | `Delete` |
| a refusal, an exception, the end of the process | `Ends` |

*Atomicity.* Checkout, a capacity edit and a deletion take the tier's row lock
before they count and hold it until they commit: one action each. The desk takes
advisory locks, which nobody else asks for, so each of its steps is an action.
Its insert does wait for the row: the foreign key needs a share of it, which
`FOR UPDATE` excludes, so whatever another transaction did to the tier since the
desk's count is committed by then, and a tier that was deleted refuses the
insert. *History variables*: `slipped` holds the walk-ins whose tier was sold or
cut after they read or counted it, `loose` the tiers whose capacity was last lowered by
an edit that skipped the guard (the new value equalled the one it had read).

*Left out*: an event that closes while a desk is at work, walk-in form
validation, reviews and resubmissions (in `Registrations`), the attendees of a
checkout (the desk finds only other walk-ins).

### OrderFlow
The order flow that preceded registrations and is still served: reservations of
15 minutes, orders, tickets, and the counter of free units in Redis, beside
checkouts of the same tier. Here the tickets that `SeatUsage` takes as a constant
change.

| Code | Action |
|---|---|
| `ReservationsService.create`: checks; `decrBy`; insert, or rollback | `ReserveChecks`, `ReserveTakes`, `ReserveInserts`, `ReserveFails`, `GivesBack` |
| `cancel`: read, update, `incrBy` | `CancelReads`, `CancelWrites`, `Returns` |
| `releaseExpiredReservations`: list, update, `pipelineIncrBy` | `ExpiryReads`, `ExpiryWrites`, `Returns` |
| `OrdersService.create`: read; transaction | `OrderReads`, `OrderCommits` |
| `confirmPayment`, for the admin or a free order: read; transaction | `ConfirmReads`, `ConfirmCommits` |
| `createImpl`, `releasePendingHold` | `Checkout`, `SeatsReturn` |

*Atomicity.* Only the order's transaction takes a lock (the tier's row, for
`sold_quantity`). Every other handler reads a row, then writes it by id, then
talks to Redis, and may die after any of these (`Dies`). *History variables*:
`overwritten` holds the reservations whose final status was written over,
`uncounted` the orders that were unpaid when a checkout rewrote `sold_quantity`.
*Left out*: tier visibility, sale windows and per-order maximum of a
reservation, which refuse before anything changes; an order's idempotency key,
which the unique `reservation_id` subsumes; capacity edits.

### StockLedger
What the add-on stock promises, without counters, quotes, deadlines or jobs: an
order claims units of several variants at once, if all are free, and its claim
ends once, sold or returned. `AddOnStock` implements it (`ImplementsLedger`, with
`Ledger == INSTANCE StockLedger WITH claim <- Claims, ...`): a claim is the state
of the reservations of a registration. The point is the guard of `Hold`, which
looks at the claims themselves while checkout and `adjustStock` look only at the
two counters, and that an order never gets part of what it asked for.

### EventDay
The attendees of a running event from approval to the retention job. A row holds
its distance as a *label*, the distance's name or its code: checkout accepts both
and the web form sends the code, a change of distance writes the name. Each label
has a counter of its own; `DistanceCode` is what approval prints before the
number, the code of a distance it finds by name and `RACE` for anything else.

| Code | Action |
|---|---|
| `approve`: attendee read; transaction with the bib | `ApproveReads`, `ApproveCommits` |
| `updateAttendeesForRegistration` on attendees that are there | `CompleteReads`, `CompleteCommits` |
| `reassignRaceDistance`: read; transaction | `ReassignReads`, `ReassignCommits` |
| `enforceAttendeeRetention` | `Retention` |
| `checkIn` (registration), `checkinManual`: read; look; insert of `createDailyAttendance` | `CheckInReads`, `CheckInLooks`, `CheckInInserts` |
| `checkIn` (ticket): read; conditional update | `TicketReads`, `TicketCommits` |
| `handleOnsiteRegistrationScan`, for its attendance | `WalkIn` |

Two unique indexes are part of the writes they refuse (`BibIndexAllows`,
`AttendanceIndexAllows`). *History variables*: `issued` (bibs ever allocated),
`admitted` (answers that let someone in), `overtaken` (attendees whose label a
completion changed after an approval had read it or numbered the bib). *Left out*:
the lookup of a scanned code, merch claims, new attendee rows (in
`Registrations`), the days before the event, an event without distances in its
configuration, and edits of that configuration once bibs are out.

### GuestHolds
Unpaid guest checkouts behind one address: the Redis counter with its lifetime
(`window`), the mapping that lets a release find what to give back, the two
steps of a release, the checkout page with the hold it remembers, and resume
links. The page's calls, the database and Redis are separate steps, and each may
fail or be lost (`AcquireFails`, `AcquireFailsLate`, `CreateFails`, `SlotLost`,
`CallLost`, `ReadFails`, `CancelFails`). `CreateFailsLate` is a checkout that throws
after its commit, in the audit record: the unit goes back, the hold stays, and
nobody has its token. A mapping outlives its counter, never the counter
after that one: both live an hour, from the hold and from the first increment.
*History variables*: `headroom` (units the counter gives back for holds of an
earlier lifetime or for those that stayed after `CreateFailsLate`), `winners`, and in each row the tab that still can know of it.
*Left out*: extended holds and their slots (in `Registrations`, as a free choice),
mail limits, several addresses (a browser keeps its address here).

### Sessions
One signed-in browser. `stored` is the refresh token in localStorage, `access` and
`flight` the access token and the exchange of each tab, `lock` the Web Lock of
`rotate`, which a browser may not have (`locks`); `live` and `valid` are what the
server accepts. Code of a tab between two awaits is one action.

| Code | Action |
|---|---|
| `lib/api.ts`: request and response interceptors | `Send`, `Answered`, `Unauthorized` |
| `lib/session.ts`: `refreshSession`, `rotate`, `postRefresh` | `Granted`, `RequestLost`, `AnswerLost`, `Succeeds`, `Refused`, `Fails` |
| `AuthService.refreshTokens`: get; delete; new token stored | `ServerChecks`, `ServerRevokes`, `ServerIssues` |
| `AuthHydrator` (`providers.tsx`): restored; an outage; 401, 403 or 404 | `Restored`, `RestoreFails`, `RestoreRefused`, `Reload` |
| the lifetimes of the two tokens | `AccessExpires`, `RefreshExpires` |
| `handleLogout`, `AuthService.logout` | `AsksToLeave`, `Leaves` |

*History variables*: `broken` says that the session may end without a race: a token
was revoked and its successor never arrived, the stored token ran out, or
`/auth/me` refused a page load; `late` and `kicked`. A server that goes on with a
request its tab has given up counts as one that had revoked the token before.

### Organizers
Applications, decisions, teams, invitations, and what follows membership in the
workspace of an event. The services avoid transactions here, so each statement
that writes is an action: `CreatesOrganization`, `BecomesOwner` or `TakesBack` of
`register`; `UnassignsTasks`, `DropsAccess`, `Leaves` of a removal; `Admits`,
`LetsIn`, `Accepts` of an invitation accepted at login; `EnsureWorkspace`,
`SeedsRow` of a workspace. The team page and the administrator differ in who may
call and in what an existing member means (`Adds`), which the operations keep
apart. `EnsureWorkspace` is open to the team of an approved organization, and to a
platform administrator for one that is suspended or revoked. Rows are deleted by id: a request that read a row which is gone finds
nothing, even if the person is back (`row` in a request). *History variables*:
`barred`, `raced`, `late` name the overlaps the code does not exclude. *Left out*:
the workspace role that follows a change of role, more than one event per
organization, the difference between manager and member, the responsible and
the accountable person of a task apart, and the workspace row of a creator who is
on no team (`workspaces.service.ts:389`), an administrator.

## 3. Runs

| Run | Instance | What it shows |
|---|---|---|
| `checkout` | 1 paid tier with 1 seat, 2 registrations, 1 account and anonymous guests, 2 handlers, 2 proofs per row | all safety and action properties while two checkouts want one seat and two handlers act on old reads |
| `guests` | a paid and a free tier of 3 seats with 1 issued ticket each, orders of up to 2, limit 1 per user, an account, a guest with and one without email, 1 handler | one active registration per owner with free registrations, legacy rows and anonymous guests; every stale hold ends as long as cleanup runs reach rows; the unpaid holds of an ended sale end |
| `oversell` (violation) | as `checkout`, 1 handler | resubmission after rejection takes a seat that is gone |
| `addons` | an account and a guest, 2 quotes of up to 2 units, 1 variant with 1 of at most 2 units, 2 prices | counters, stock, quotes and handover under every interleaving with reviews, cancellations, stock changes and the expiry job |
| `addon_expiry` | the same with 1 unit per line and 1 price | every hold past its deadline ends, though a run may die after any registration; every step is one of `StockLedger` |
| `addon_proof` (violation) | 1 unit in stock | a proof submitted after the job's list does not save its stock |
| `tiers` | 1 tier of 2 seats, 3 registrations of up to 2 seats, 2 devices, 2 editors, one visitor who gives an email on one device only | which seats can exceed a capacity and which cannot; one walk-in per lock key; a deletion strands nobody |
| `orders` | 1 tier of 2 seats, 2 reservations of up to 2 seats, 1 registration, 2 handlers, 2 idempotency keys | the row-locked check holds whatever Redis says; Redis offers no unit twice unless a final status is written over, and every step on the way between Redis and the database keeps the units but a handler's end |
| `event_day` | 2 runners, 2 distances with 3 labels, 2 doors, 2 days, bibs up to 2 per label, 1 ticket of the order flow | no printed bib twice but for `RACE`, a bib prints the code of the label the runner holds, one entry per person and day |
| `guest_holds` | 2 tabs behind one address, cap 1, 2 registrations, 2 lifetimes of the counter, 2 link exchanges | the cap holds through every failed call, but for the units named in `headroom`; a tab keeps one hold; one exchange of a link wins |
| `sessions` | 2 tabs with one call each, with and without locks, one expired token (of either kind) or page load | no tab is signed out by another's refresh or by an outage that leaves the token alone, no sign-out is undone, no useless exchange, no exchange hangs |
| `organizers` | 3 people, 2 organizations, 2 requests at a time, 4 in all | one application, one organization, nothing left to a removed member |

*Bounds.* Two registrations and one seat are the smallest table in which
seats can be contended and an owner can have two rows; two handlers are enough
for a decision to overtake another on the same row; two proofs allow one
rejection and one resubmission. `MaxRegs` and `MaxProofs` only cap the instance:
the theorems below hold for any values. Deadlock is not checked, because a full
table of final rows has nothing left to do. `checkout` uses symmetry of the two
handlers (no liveness is checked there). In the add-on runs two registrations
want up to three units of a stock that moves between zero and two, so stock runs
out, is refilled and is cut to what is promised; a second variant would only add
independent counters, since no handler relates two of them. In `tiers` two
devices and two editors are the fewest that can overtake each other, and a
second tier would not share a lock with the first. In `orders`, `LowestAvail`
stops the counter from sinking without end as handlers die between `DECRBY` and
its rollback; at -1 two handlers can still be below zero at once. In `event_day` a
runner can be numbered, moved and anonymised while the other takes the last
bib, and one distance has a name that is not its code while the code of the other
is the word `RACE`, so that two labels print alike; `guest_holds` lets one counter expire, which is what makes a mapping stale;
in `sessions` each tab first restores the page, so three exchanges can meet;
`organizers` needs three people for a manager who removes one while a third is
invited, and four requests for two overlapping pairs, one after the other.

Of the type invariants only that of `Registrations` is listed in a run (it says that
the stored count has a floor); those of the other modules describe the variables.
All of them are proved (section 4).

*Fairness.* `FairSpec` assumes only that the sale-end job gets to its rows: the
workflow calls it every five minutes, and nothing comes before its rows. The hold
cleanup has no such guarantee. It starts with the add-on expiry, outside any catch
and inside its budget of 7 s, so a run may release nothing. `StaleHoldsEnd` has
the premise `RunsReachRows`: again and again a run has time left for a row, and the
release of one row does not fail every time. Customers, organizers and handlers
may stop at any point. For the add-on expiry the scan is
weakly fair, since the same workflow starts the job, and `ExpireListed(r)` is
strongly fair: a run may end before it reaches a registration, but a registration
that is listed again and again is reached in one of the runs. A registration whose
own transaction fails in every run is excluded by this. In `Sessions` an exchange, a
restore and the answer to a call end by their timeout of 30 s (weak fairness); the
lock is strongly fair for each tab, since the browser queues its requests in
order. Nothing is assumed of the person, who may reload, call or leave at any
time, nor of tokens, which may never expire.

## 4. Proofs

`SeatUsageProofs` proves finite-set facts on seat units and `ReservedIsOccupied`.
`RegistrationsProofs` proves, for all constants allowed by
`SeatUsageAssumption` and `RegistrationsAssumption`:

- `TypeCorrect`: `Spec => []TypeOK`;
- `Invariance`: the inductive invariant `IInv`, which joins the safety
  properties with `HandlersKnowTheirRow` (what a handler in flight read is still
  true of its row as far as its write needs). Without that conjunct an approval
  of a row whose proof vanished could not be excluded. `StepOnRows` reduces
  each action to *a row is taken*, *a row is kept or given up*, or *no row
  changes*, and the seat argument is made once for these three kinds;
- `NoSeatIsLost` (`StoredNeverOverstates`), on top of `IInv`: `SoldEffects` sorts the
  steps into those that store the live count with a new row, those that return the
  seats of one row, and those after which every row that stood still stands; the
  seats of rejected rows are in the bound because a rejection does not return them;
- the corollaries `FreshSeatsFit`, `OneActive`, `HoldsWithoutProof`,
  `VerifiedIsPaid`;
- the action properties `FinalStatesStand` and `CleanupRechecks`, from a classification of status changes (`StatusMove`).

`AddOnStockProofs` proves, for all constants allowed by `SeatUsageAssumption` and
`AddOnStockAssumption`, the invariants of the run `addons` (`StockTypeCorrect`,
`CountersAreExact`, `NeverOversold`, `AddOnsFollowRegistration`,
`OneRegistrationPerQuote`, `HandoverIsSafe`) and `ConfirmedStands`. The inductive
invariant adds `SpentQuotes` (a quote that made a registration is consumed) and
`RowsSound` (status, reservation and handover of a row agree, also for rows not
yet inserted). `StepEffects` reduces every action to what it does to rows and
counters: nothing, a restock, or one row whose units are reserved, confirmed,
released or kept; `UnitsChange` says what a change of one row does to a count, and
`MovesCount` joins the two.

`TierCapacityProofs` proves, for all constants allowed by `SeatUsageAssumption` and
`TierCapacityAssumption`, type correctness and the invariants of the run `tiers`. Seats:
`SeatsSafe` adds to the property that a desk nobody overtook still reads a true
capacity (`CapAsRead`), that its seat is still free once counted
(`CountStillFits`) and that at most one desk has counted a tier (`TierHeldOnce`,
what the advisory lock is for). Persons: `PersonsSafe` adds that the key of a desk
past the lookup has no active walk-in and no second holder. Deletion needs only
the row-locked count, through `ReservedIsOccupied`.

`OrderFlowProofs` proves, for all constants allowed by `SeatUsageAssumption` and
`OrderFlowAssumption`, type correctness, `CountedOrdersFit` and
`ConvertedIffOrdered`. `CountedOrdersFit` is not inductive: it becomes so with
`SoldCounts` (`sold_quantity` covers the active registrations and the counted
orders), `PaidHasTickets` (a paid order has at least its quantity of tickets, so
the count a checkout writes covers it), `ConfirmHasOrder` and `OrdersHaveRows`.
`RestKeeps` covers the steps that touch neither counter nor orders; the others have
a lemma each. `PaidUnitsAreTickets` is where the history variable `uncounted` is
needed: it holds exactly because the unpaid orders were set aside.

`AddOnStockProofs` also proves `StockImplementsLedger == Spec => ImplementsLedger`:
the initial states map to the ledger's, and by `StepEffects` every step of
`AddOnStock` is a `Hold`, `Sell`, `Return`, `Restock` or a stutter of it. The guards
of `Hold` and `Restock` follow from `CountersAreExact`: reserved and sold units are
the cardinality of what the claims promise (`SameCount` relates the two counts).

`OrderFlowProofs` goes on to the units of a tier. `UnitsAlwaysBalance` (the action
property `UnitsBalance`) has a lemma for each handler that moves units between Redis,
a request and a reservation; the request owns them for as long as they are in
neither. `InventoryNeverOffersTwice` follows: units are only lost, never made, so
what was true of the full counter at the start stays true. Its assumption is that
there are finitely many handlers (`IsFiniteSet(Handlers)`), as a sum over requests
has no meaning otherwise.

`EventDayProofs` proves type correctness, `NoBibTwice`, `BibsMatch` and `OneEntry`,
for all constants allowed by `EventDayAssumption`. The first needs `IssuedSound`
(every bib ever allocated is below its label's counter and prints what its label
prints) and `CodeTypes` (two labels that print alike print `RACE`, since distances
have different codes); the second needs
`ReadsHold` (an approval that read an attendee still knows the label, unless the
attendee was marked, and a registration that is being moved stays verified).
`OneEntry` needs that a person who is not registered yet has no attendance, so the
desk's entry is the first (`NotInYet`), that a scan names somebody it can admit
(`ScansOfMembers`), and that a ticket is not the pair of an attendee and a day (part
of the assumption: both are identities in one set of `admitted`).

`OrganizersProofs` proves, for any number of people, organizations and requests,
type correctness and the four properties of the run. Its invariant adds what each
request under way may still rely on (`SoundRequests`): where its person is not in
`raced`, an application finds no other organization of that owner (`AppliesAlone`)
and a join no other membership (`JoinsAlone`); a request that uses a member names
one, or a pair that was marked `late` when the member went (`UsesMembers`); what the
finished statements of a removal cleared stays clear (`ClearsAway`). `Marked` says
that whatever overlaps at this moment is in the history variables already.

`BrowserProofs` has the two components a browser keeps state for.

- Holds of an address (`GuestHolds`): `CapKept`, `OneHoldEach`, `OneResumeEach`, for
  every number of tabs (finitely many), registrations and lifetimes of the counter.
  `CapHolds` is not inductive, as a decrement may be under way: `UnitsCovered` counts
  besides the holds the units that are about to be returned, and bounds both by the
  counter and `headroom`, which a checkout that failed after its commit raises before
  its unit goes back; `WindowsPast` and `SlotsOfCancelled` say whose decrement
  can still come. `KnownHolds` follows a hold from its insert to the tab's storage,
  `LinksSpent` says that a token that won has a successor.
- Sessions: `NobodyForcedOut`, `SignedOutForGood` and the action property
  `RotatesWhenExpired`, for every number of tabs and calls. `Exclusive` is what the
  Web Lock is for, over the whole exchange and not only at its grant; from it `Kept`
  follows: until the session is `broken` or somebody leaves, a tab that sends a token
  sends the stored one, and the stored one is alive or its successor is on the way. `Gone`
  says that nobody exchanges after a sign-out that interrupted nobody. `Fresh` says
  that a pair of tokens is in one place and that a tab that exchanges has no working
  token; without the first, the expiry of one tab's token could be another's.

`SessionsAssumption` adds that the value for "no tab has the lock" is not a tab.
Only model-checked: the liveness properties (`StaleHoldsEnd`, `EndedSaleDrains`,
`DueHoldsEnd`, `ExchangesSettle`), because fairness and `ENABLED` are out of the prover's reach,
and the findings, which are counterexamples.

## 5. Findings

- `oversell`: capacity is checked only when a row is created. A rejected row
  holds no seat, and a new proof makes it active again without a count. The same
  goes for a completion that was under way when the row was cancelled.
- `addon_proof`: `expireDueReservations` does not ask again, under the row lock,
  whether a listed hold is still due; a proof submitted in between is lost with
  its registration.

Seen while modelling, without a run of their own.

Hold cleanup: `cleanupOrphanRegistrations` awaits the add-on expiry first
(`scheduler.service.ts:486`), outside its `try` and on the clock its budget is
checked against (`:517`). One add-on reservation whose expiry throws in every run
keeps every unpaid hold of every event, although `:471` says that "a hold lasts its
deadline plus up to ~5 minutes"; `StaleHoldsEnd` needs its premise for that reason.

Registrations: `updateAttendeesForRegistration` decides the status before its
transaction and writes `pending_approval` by id alone (`:1858`), so a second
submission that was under way sets a verified registration back, which
`docs/01-PRD-Axon-Tickets-MVP.html:287` calls terminal (`FinalExceptForStaleEdits`
states exactly this exception); the walk-in desk counts a tier's seats under an
advisory lock and with a capacity read before its transaction, checkout under
the row lock, so a walk-in may take the seat a checkout has just sold
(`events.service.ts:755`, against `docs/UAT-ACCEPTANCE-SCENARIOS.md:172`;
`CheckedSeatsFit` names these walk-ins); `confirmPayment` looks at the order's
status only before its transaction, so two confirmations that both read it
pending each issue the tickets (`orders.service.ts:200`, whose comment says
"Already processed (webhook replay)"); two completions started
before the first attendee rows exist insert them twice, after which `approve`
refuses the registration (`registrations.service.ts:1836`); two accounts that
claim one guest checkout overwrite each other (`:1090`); the extended-hold slot
is not given back when the conditional update finds no hold (`:742`); the email
claims of a confirmed guest checkout are never released on cancel (`:1826`); the
guard against a second hold of add-on stock looks guests up by `userId: null`, so
one guest's rejected registration stops every other guest of the event (`:324`); one
person entered on one device with an email and on another without takes two
different lock keys and may be admitted twice (`events.service.ts:721`); a checkout overwrites the seats an unpaid order
added to `soldQuantity`, so the order and the next checkout can both get the last
seat (`registrations.service.ts:393`, the history variable `uncounted`); units
taken from Redis by a process that dies before its insert are lost until the
tier's capacity is edited.

Event day: `approve` reads the attendee before its transaction, so a late
completion may leave a bib of another distance (`registrations.service.ts:2071`,
the history variable `overtaken`). The web form submits a distance's code
(`RegistrationForm.tsx:1191`, `:1365`), which checkout accepts
(`registrations.service.ts:1424`) and `distanceCode` does not find (`:1533`): where
name and code differ, the bib prints `RACE` for every distance. The counters are
kept per label and `bib_number` is not unique, so `RACE-0001` is given out once for each
code, and the runner of a code who is moved to the name of the same distance takes
from a second counter; `admin/attendees/page.tsx:246` says of a changed bib that it
"will never be reused".

Guest holds: a checkout whose audit record fails after the commit
(`registrations.service.ts:550`) is answered with an error and its unit is given
back (`:177`, "creation failed" in `guest-hold.service.ts:112`), while the hold
stays until its deadline and counts for nothing; a mapping can outlive its counter, and its release then takes a
unit from the next counter (`guest-hold.service.ts:128`, the variable `headroom`),
although `docs/specs/guest-checkout-hold-and-resume-link.md:99` says that an
expired key never "gains headroom"; refusals of extended slots are counted and
never given back.

Sessions: `refreshTokens` deletes the old token and then stores the new one
(`auth.service.ts:233`, `:714`); if the second call fails the browser sees an outage
and keeps a token that is dead, so the next exchange signs it out, although
`providers.tsx:45` says that outages "keep the stored session for a reload"; a page
load whose `/auth/me` answers 403 or 404 signs out every tab (`providers.tsx:48`);
`refreshTokens` reads a token and then deletes it, so two requests with
one token may both succeed (`auth.service.ts:208`; `session.ts:60` says it is revoked
on first use); in a browser without locks a tab that is refused before the other
has stored its token signs both out (`session.ts:42`); an exchange that was under
way at sign-out stores the session again (the variable `late`); a log-out whose
access token has expired leaves the refresh token live.

Organizers: `addOrganizerMember` given the owner's address demotes the owner
(`admin.service.ts:3145`), whom the panel otherwise protects ("Owner membership
cannot be changed from this panel", `:3184`); the owner of a suspended
organization may register a second one, and both stand after a reinstatement;
two joins that overlap put a person in two organizations (`raced`); a member
removed while an acceptance or the seeding was under way keeps a workspace row,
and `resolveViewerRole` falls back to it (`late`); accepting an invitation writes
over a revocation that came in between (`auth.service.ts:666`).

## 6. Not modelled

Row locks: a transaction that locks what it decides on is one action, so a wait
of two transactions for each other (checkout locks the tier and then variants,
a release the other way round) does not appear; the database ends one of them,
which is a failed handler here. Rendering, mail, uploads, audit and reports
change nothing the rest depends on. Profiles, milestones, categories and comments
are single-row edits. One-time codes compare a hash under a counter in Redis;
merch claims are read, then written by id. Both are small and are left for
later, below.

## 7. Plan

1. `SeatUsage`, `Registrations`, `AddOnStock`, `TierCapacity`, `OrderFlow`, `EventDay`
   with proofs - done.
2. `StockLedger` and the refinement - done.
3. `GuestHolds`, `Sessions`, `Organizers` with proofs - done.
4. `SeatLedger`: the promise of a tier (seats given out fit the capacity, but for
   revived rows) and its refinement from `Registrations`, with a proof.
5. `OneTimeCodes`: codes and their attempts; merch claims.
6. `LockOrder`: which transactions can wait for each other.
