---------------------------- MODULE Registrations ----------------------------
(***************************************************************************)
(* Registrations of one event that is open for registration, from the      *)
(* checkout that holds seats to the organizer's decision:                  *)
(* registrations.service.ts, registration-hold.service.ts,                 *)
(* payment-proofs.service.ts and the hold jobs of scheduler.service.ts.    *)
(*                                                                         *)
(* The API is serverless: every request and every cron call is a process   *)
(* of its own, and only the database orders them.  A transaction that      *)
(* locks the rows it reads (SELECT ... FOR UPDATE) before it decides is    *)
(* one action.  A handler that decides on rows it read before its          *)
(* transaction, or without a lock, is two actions, XBegin (the read) and   *)
(* XCommit (the write), run by one of the Handlers; anything may happen    *)
(* between the two, the end of the process included (HandlerDies).         *)
(*                                                                         *)
(* Time is what the code asks of it: whether the deadline of an unpaid     *)
(* hold has passed.  The registrations of this module carry no add-ons,    *)
(* so the calls into optional-inclusions, which select by registrationId,  *)
(* find no row; and no referral code, so what is free is decided by the    *)
(* tier.                                                                   *)
(***************************************************************************)
EXTENDS SeatUsage, Sequences

CONSTANTS Capacity,     \* TicketTier.totalQuantity of each tier
          FreeTiers,    \* tiers whose price and fee are zero
          MaxPerUser,   \* Event.maxPerUser, 0 when there is no limit
          Members,      \* accounts
          Emails,       \* guests who gave their email (createGuest)
          Anon,         \* any guest who gave none (createGuestIntent)
          Handlers,     \* concurrent handlers that read before they write
          MaxProofs     \* bound: payment proofs per registration

ASSUME RegistrationsAssumption ==
    /\ Capacity \in [Tiers -> Nat]
    /\ \A t \in Tiers : Issued[t] <= Capacity[t]
    /\ Tiers # {} /\ FreeTiers \subseteq Tiers
    /\ MaxPerUser \in Nat
    /\ MaxProofs \in Nat
    /\ Anon \notin Members \cup Emails
    /\ Members \cap Emails = {}

VARIABLES
    reg,        \* the registrations table, with attendees and proofs
    sold,       \* TicketTier.soldQuantity, a stored count
    saleEnded,  \* the tiers whose saleEndsAt has passed
    req,        \* what each handler has read and not yet acted on
    cleanup,    \* rows the running hold cleanup has yet to release
    revived,    \* history: rows made active again from rejected or cancelled
    linked      \* history: guest rows that were given to an account

vars == <<reg, sold, saleEnded, req, cleanup, revived, linked>>

-----------------------------------------------------------------------------
Owners == Members \cup Emails \cup {Anon}
ProofStatus == {"pending", "approved", "rejected"}

\* hold: whether the effective deadline has passed: holdExpiresAt when one is
\* stored, createdAt + 24 h when not.  saved: guestResumeEmail is not null.
\* complete: attendeesCompletedAt is not null.  sets: the attendee rows, in
\* multiples of attendeeCount.
Row == [status : RegistrationStatus, owner : Owners, tier : Tiers,
        seats : 1 .. MaxPerOrder, hold : {"running", "passed"},
        stored : BOOLEAN, saved : BOOLEAN, complete : BOOLEAN, sets : Nat,
        proofs : Seq(ProofStatus)]

NewRow(status, o, t, n, stored, complete) ==
    [status |-> status, owner |-> o, tier |-> t, seats |-> n,
     hold |-> "running", stored |-> stored, saved |-> FALSE,
     complete |-> complete, sets |-> IF complete THEN 1 ELSE 0,
     proofs |-> <<>>]

Idle == [op |-> "idle"]
Requests ==
    [op : {"complete"}, reg : RegIds, seen : RegistrationStatus,
     insert : BOOLEAN, unique : BOOLEAN] \cup
    [op : {"claim", "link"}, reg : RegIds, user : Members] \cup
    [op : {"approve", "reject"}, reg : RegIds, proof : Nat] \cup
    [op : {"save"}, reg : RegIds, extend : BOOLEAN, had : BOOLEAN]

UnderReview == {"proof_submitted", "pending_approval"}
Cancellable == {"pending_payment", "proof_submitted", "pending_approval", "rejected"}
Inactive == {"rejected", "cancelled"}

\* The rows r is inserted after: ids grow with createdAt.
NextId(r) == /\ reg[r].status = "absent"
             /\ \A q \in RegIds : q < r => reg[q].status # "absent"

\* The partial unique index on (user_id, event_id): a statement that would
\* give one account two rows in these statuses fails.
Indexed == {"pending_payment", "proof_submitted"}
IndexAllows(r, o, status) ==
    o \in Members /\ status \in Indexed =>
        \A q \in RegIds \ {r} : ~(reg[q].owner = o /\ reg[q].status \in Indexed)

\* Mutant: the guard trusts the statuses of the unique index.
HasIndexed(o, except) ==
    \E q \in RegIds \ {except} : reg[q].owner = o /\ reg[q].status \in Indexed

\* The duplicate guard of createImpl, claimAndComplete and claimCompletedGuest.
HasActive(o, except) ==
    \E q \in RegIds \ {except} :
        reg[q].owner = o /\ reg[q].status \in ACTIVE_REGISTRATION_STATUSES

\* Mutant: the stored count follows every release, below zero if need be.
ReturnedUnfloored(r) == sold[reg[r].tier] - reg[r].seats

\* Mutant: a release leaves the stored count alone.
NotReturned(r) == sold[reg[r].tier]

\* Math.max(0, soldQuantity - attendeeCount)
Returned(r) == LET t == reg[r].tier IN
    IF sold[t] > reg[r].seats THEN sold[t] - reg[r].seats ELSE 0

\* History: the row was rejected or cancelled and the step makes it active.
Revives(r) == revived' = IF /\ reg[r].status \in Inactive
                            /\ reg'[r].status \in ACTIVE_REGISTRATION_STATUSES
                         THEN revived \cup {r} ELSE revived

Reply(h) == req' = [req EXCEPT ![h] = Idle]

-----------------------------------------------------------------------------
Init ==
    /\ reg = [r \in RegIds |->
                 NewRow("absent", Anon, CHOOSE t \in Tiers : TRUE, 1, FALSE, FALSE)]
    /\ sold = Issued
    /\ saleEnded = {}
    /\ req = [h \in Handlers |-> Idle]
    /\ cleanup = {}
    /\ revived = {}
    /\ linked = {}

\* createImpl, for an account (create), a guest with an email (createGuest)
\* and an anonymous guest (createGuestIntent: paid, no attendees, a deadline).
\* Under the owner's advisory lock and the tier's row lock.  The per-user
\* limit sums the owner's rows that are neither cancelled nor rejected: the
\* active ones, and the duplicate guard found none.
Create(r, o, t, n, complete) ==
    /\ NextId(r)
    /\ o = Anon => t \notin FreeTiers /\ ~complete
    /\ o # Anon => ~HasActive(o, r)
    /\ o # Anon /\ MaxPerUser > 0 => n <= MaxPerUser
    /\ Occupied(reg, t) + n <= Capacity[t]
    /\ sold' = [sold EXCEPT ![t] = Occupied(reg, t) + n]
    /\ reg' = [reg EXCEPT ![r] =
          NewRow(IF t \in FreeTiers THEN "pending_approval" ELSE "pending_payment",
                 o, t, n, t \notin FreeTiers /\ o \notin Emails, complete)]
    /\ UNCHANGED <<saleEnded, req, cleanup, revived, linked>>

\* The deadline matters only while the row is an unpaid hold.
DeadlinePasses(r) ==
    /\ reg[r].status = "pending_payment" /\ reg[r].hold = "running"
    /\ reg' = [reg EXCEPT ![r].hold = "passed"]
    /\ UNCHANGED <<sold, saleEnded, req, cleanup, revived, linked>>

SaleEnds(t) ==
    /\ t \notin saleEnded
    /\ saleEnded' = saleEnded \cup {t}
    /\ UNCHANGED <<reg, sold, req, cleanup, revived, linked>>

-----------------------------------------------------------------------------
(* releasePendingHold, the one way an unpaid hold is released. *)

Releasable(r) == reg[r].status = "pending_payment" /\ reg[r].proofs = <<>>

Release(r) ==
    /\ reg' = [reg EXCEPT ![r].status = "cancelled", ![r].saved = FALSE]
    /\ sold' = [sold EXCEPT ![reg[r].tier] = Returned(r)]

\* cancelGuest
GuestCancels(r) ==
    /\ Releasable(r) /\ reg[r].owner \notin Members
    /\ Release(r)
    /\ UNCHANGED <<saleEnded, req, cleanup, revived, linked>>

\* releaseHoldByAdmin
AdminReleases(r) ==
    /\ Releasable(r)
    /\ Release(r)
    /\ UNCHANGED <<saleEnded, req, cleanup, revived, linked>>

\* releaseIfHoldExpired, when the owner opens the page, and
\* releaseExpiredMemberHolds: create runs it for each expired hold of the
\* account first, in transactions of their own whose failure is swallowed.
OwnerFindsExpired(r) ==
    /\ Releasable(r) /\ reg[r].owner \in Members
    /\ reg[r].stored /\ reg[r].hold = "passed"
    /\ Release(r)
    /\ UNCHANGED <<saleEnded, req, cleanup, revived, linked>>

\* Mutant: the sale's end waits for the deadline of the hold.
SaleEndAndDeadlineCancel(r) ==
    /\ Releasable(r) /\ reg[r].tier \in saleEnded /\ reg[r].hold = "passed"
    /\ reg[r].stored
    /\ Release(r)
    /\ UNCHANGED <<saleEnded, req, cleanup, revived, linked>>

\* autoCancelExpiredRegistrations: a sale that ended stays ended, so the
\* check under the lock is the scan's condition and the shared one.
SaleEndCancels(r) ==
    /\ Releasable(r) /\ reg[r].tier \in saleEnded
    /\ Release(r)
    /\ UNCHANGED <<saleEnded, req, cleanup, revived, linked>>

-----------------------------------------------------------------------------
(* cleanupOrphanRegistrations: the cron's hold cleanup. *)

\* Mutant: the scan forgets the holds without a stored deadline.
StoredExpired ==
    {r \in RegIds : /\ reg[r].status = "pending_payment"
                   /\ reg[r].hold = "passed" /\ reg[r].stored}

Expired == {r \in RegIds : reg[r].status = "pending_payment" /\ reg[r].hold = "passed"}

\* Rows with a stored deadline come first, oldest first in each half; each half
\* is capped, so the second may follow the oldest of the first.
Before(p, r) ==
    \/ reg[p].stored = reg[r].stored /\ p < r
    \/ /\ reg[p].stored /\ ~reg[r].stored
       /\ \A q \in Expired : reg[q].stored => p <= q

\* A run takes the rows it read in that order until its time budget is used up or
\* its process ends: the batch is what it gets to, a prefix of each half.  That may
\* be no row, which is no step: the clock runs from before the add-on expiry, which
\* may use up the budget or throw, and the budget is checked before the first row.
CleanupScan ==
    /\ cleanup = {}
    /\ \E batch \in SUBSET Expired \ {{}} :
          /\ \A r \in batch, p \in Expired : Before(p, r) => p \in batch
          /\ cleanup' = batch
    /\ UNCHANGED <<reg, sold, saleEnded, req, revived, linked>>

\* onlyIfExpired: under the row lock the deadline is checked once more.
\* Mutant: the scan's answer is taken as still true.
WasExpired(r) == r \in cleanup

StillExpired(r) == reg[r].hold = "passed"

CleanupReleases(r) ==
    /\ r \in cleanup
    /\ cleanup' = cleanup \ {r}
    /\ IF Releasable(r) /\ StillExpired(r)
          THEN Release(r)
          ELSE UNCHANGED <<reg, sold>>
    /\ UNCHANGED <<saleEnded, req, revived, linked>>

\* The release of a row throws; the run logs it and takes the next one.
CleanupFails(r) ==
    /\ r \in cleanup
    /\ cleanup' = cleanup \ {r}
    /\ UNCHANGED <<reg, sold, saleEnded, req, revived, linked>>

-----------------------------------------------------------------------------
(* saveGuestForLater.  It refuses a hold whose deadline has passed; the cap  *)
(* on extended holds (GuestHoldService) may or may not have room; a hold is  *)
(* extended once, a row without a stored deadline never.                     *)

SaveBegin(h, r) ==
    /\ req[h] = Idle
    /\ reg[r].status = "pending_payment" /\ reg[r].owner \notin Members
    /\ reg[r].hold = "running"
    /\ \E room \in BOOLEAN :
          req' = [req EXCEPT ![h] =
              [op |-> "save", reg |-> r, had |-> reg[r].saved,
               extend |-> room /\ ~reg[r].saved /\ reg[r].stored]]
    /\ UNCHANGED <<reg, sold, saleEnded, cleanup, revived, linked>>

\* The email went out: the conditional updateMany.
SaveCommit(h) == LET q == req[h] IN
    /\ q.op = "save"
    /\ reg' = IF /\ q.extend \/ q.had
                 /\ reg[q.reg].status = "pending_payment"
                 /\ reg[q.reg].owner \notin Members
              THEN [reg EXCEPT ![q.reg].saved = TRUE,
                        ![q.reg].hold = IF q.extend THEN "running" ELSE @]
              ELSE reg
    /\ Reply(h)
    /\ UNCHANGED <<sold, saleEnded, cleanup, revived, linked>>

-----------------------------------------------------------------------------
\* PaymentProofsService.create: the upload's status is checked again under
\* the row lock; neither the deadline nor the capacity is.
SubmitProof(r) == LET next == IF reg[r].complete THEN "pending_approval"
                                                 ELSE "proof_submitted" IN
    /\ reg[r].status \in {"pending_payment", "rejected"}
    /\ Len(reg[r].proofs) < MaxProofs
    /\ IndexAllows(r, reg[r].owner, next)
    /\ reg' = [reg EXCEPT ![r].status = next, ![r].saved = FALSE,
                          ![r].proofs = Append(@, "pending")]
    /\ Revives(r)
    /\ UNCHANGED <<sold, saleEnded, req, cleanup, linked>>

-----------------------------------------------------------------------------
(* updateAttendeesForRegistration: attendee details, from the account, from *)
(* a guest with an email, or through confirmGuestCheckout, which is open to  *)
(* an anonymous guest whose proof is in and claims the attendees' emails in  *)
(* a table with a unique key.                                               *)

Completable(r) ==
    \/ reg[r].status = "pending_payment" /\ reg[r].owner # Anon
    \/ reg[r].status = "proof_submitted"
    \/ /\ reg[r].status = "pending_approval" /\ reg[r].owner \notin Members
       /\ ~reg[r].complete /\ reg[r].tier \in FreeTiers

CompleteBegin(h, r) ==
    /\ req[h] = Idle
    /\ Completable(r)
    /\ req' = [req EXCEPT ![h] =
          [op |-> "complete", reg |-> r, seen |-> reg[r].status,
           insert |-> reg[r].sets = 0, unique |-> reg[r].owner = Anon]]
    /\ UNCHANGED <<reg, sold, saleEnded, cleanup, revived, linked>>

\* The claims of an earlier confirmation of the row make this one fail: both
\* put the email that the code was sent to first.
EmailsClaimed(r) == reg[r].owner = Anon /\ reg[r].complete

\* Mutant: the status that was read is written back.
WrittenBack(seen, now) ==
    IF seen = "proof_submitted" THEN "pending_approval" ELSE seen

\* The update is by id alone: whatever became of the row since the read, one
\* read as proof_submitted is now pending_approval.
Completed(seen, now) ==
    IF seen = "proof_submitted" THEN "pending_approval" ELSE now

CompleteCommit(h) == LET q == req[h] IN
    /\ q.op = "complete"
    /\ ~(q.unique /\ EmailsClaimed(q.reg))
    /\ reg' = [reg EXCEPT
          ![q.reg].complete = TRUE,
          ![q.reg].sets = IF q.insert THEN @ + 1 ELSE @,
          ![q.reg].status = Completed(q.seen, @)]
    /\ Revives(q.reg)
    /\ Reply(h)
    /\ UNCHANGED <<sold, saleEnded, cleanup, linked>>

\* claimAndComplete: the guest's checkout becomes the account's.
ClaimBegin(h, r, u) ==
    /\ req[h] = Idle
    /\ reg[r].owner \notin Members
    /\ reg[r].status = "proof_submitted" /\ ~reg[r].complete
    /\ ~HasActive(u, r)
    /\ req' = [req EXCEPT ![h] = [op |-> "claim", reg |-> r, user |-> u]]
    /\ UNCHANGED <<reg, sold, saleEnded, cleanup, revived, linked>>

ClaimCommit(h) == LET q == req[h] IN
    /\ q.op = "claim"
    /\ reg' = [reg EXCEPT ![q.reg].owner = q.user, ![q.reg].complete = TRUE,
                          ![q.reg].sets = @ + 1,
                          ![q.reg].status = "pending_approval"]
    /\ Revives(q.reg)
    /\ linked' = linked \cup {q.reg}
    /\ Reply(h)
    /\ UNCHANGED <<sold, saleEnded, cleanup>>

\* claimCompletedGuest: the same for a checkout already awaiting approval.
LinkBegin(h, r, u) ==
    /\ req[h] = Idle
    /\ reg[r].owner \notin Members
    /\ reg[r].status = "pending_approval" /\ reg[r].complete
    /\ ~HasActive(u, r)
    /\ req' = [req EXCEPT ![h] = [op |-> "link", reg |-> r, user |-> u]]
    /\ UNCHANGED <<reg, sold, saleEnded, cleanup, revived, linked>>

LinkCommit(h) == LET q == req[h] IN
    /\ q.op = "link"
    /\ IndexAllows(q.reg, q.user, reg[q.reg].status)
    /\ reg' = [reg EXCEPT ![q.reg].owner = q.user]
    /\ linked' = linked \cup {q.reg}
    /\ Reply(h)
    /\ UNCHANGED <<sold, saleEnded, cleanup, revived>>

-----------------------------------------------------------------------------
\* cancel: the customer's own, also of a rejected row, whose seats the stored
\* count gives back although the live count no longer holds them.
CustomerCancels(r) ==
    /\ reg[r].owner \in Members
    /\ reg[r].status \in Cancellable
    /\ reg' = [reg EXCEPT ![r].status = "cancelled"]
    /\ sold' = [sold EXCEPT ![reg[r].tier] = Returned(r)]
    /\ UNCHANGED <<saleEnded, req, cleanup, revived, linked>>

\* approve: status, attendees and the latest proof are read first ...
ApproveBegin(h, r) ==
    /\ req[h] = Idle
    /\ reg[r].status \in UnderReview
    /\ reg[r].proofs # <<>> \/ reg[r].tier \in FreeTiers
    /\ reg[r].sets = 1 /\ reg[r].complete
    /\ req' = [req EXCEPT ![h] =
          [op |-> "approve", reg |-> r, proof |-> Len(reg[r].proofs)]]
    /\ UNCHANGED <<reg, sold, saleEnded, cleanup, revived, linked>>

\* Mutant: the verdict is recorded on the registration alone.
ReviewedRowOnly(q, status, verdict) == [reg EXCEPT ![q.reg].status = status]

Reviewed(q, status, verdict) ==
    [reg EXCEPT ![q.reg].status = status,
                ![q.reg].proofs = IF q.proof = 0 THEN @
                                  ELSE [@ EXCEPT ![q.proof] = verdict]]

\* Mutant: the decision stands on the status read before the transaction.
AlreadyChecked(r) == TRUE

StillUnderReview(r) == reg[r].status \in UnderReview

\* ... and the update is conditional on the status alone.
ApproveCommit(h) == LET q == req[h] IN
    /\ q.op = "approve"
    /\ reg' = IF StillUnderReview(q.reg)
              THEN Reviewed(q, "verified", "approved")
              ELSE reg
    /\ Reply(h)
    /\ UNCHANGED <<sold, saleEnded, cleanup, revived, linked>>

RejectBegin(h, r) ==
    /\ req[h] = Idle
    /\ reg[r].status \in UnderReview
    /\ req' = [req EXCEPT ![h] =
          [op |-> "reject", reg |-> r, proof |-> Len(reg[r].proofs)]]
    /\ UNCHANGED <<reg, sold, saleEnded, cleanup, revived, linked>>

RejectCommit(h) == LET q == req[h] IN
    /\ q.op = "reject"
    /\ reg' = IF StillUnderReview(q.reg)
              THEN Reviewed(q, "rejected", "rejected")
              ELSE reg
    /\ Reply(h)
    /\ UNCHANGED <<sold, saleEnded, cleanup, revived, linked>>

\* A handler that ends without writing: a failed email or statement, a
\* conflict, the platform's time limit.
HandlerDies(h) ==
    /\ req[h] # Idle
    /\ Reply(h)
    /\ UNCHANGED <<reg, sold, saleEnded, cleanup, revived, linked>>

-----------------------------------------------------------------------------
Checkout(r) ==
    \/ \E o \in Owners, t \in Tiers, n \in 1 .. MaxPerOrder, c \in BOOLEAN :
          Create(r, o, t, n, c)
    \/ SubmitProof(r)
    \/ CustomerCancels(r)

HoldEnds(r) ==
    \/ DeadlinePasses(r) \/ GuestCancels(r) \/ AdminReleases(r)
    \/ OwnerFindsExpired(r) \/ SaleEndCancels(r) \/ CleanupReleases(r)
    \/ CleanupFails(r)

Reads(h, r) ==
    \/ SaveBegin(h, r) \/ CompleteBegin(h, r)
    \/ ApproveBegin(h, r) \/ RejectBegin(h, r)
    \/ \E u \in Members : ClaimBegin(h, r, u) \/ LinkBegin(h, r, u)

Writes(h) ==
    \/ SaveCommit(h) \/ CompleteCommit(h) \/ ClaimCommit(h) \/ LinkCommit(h)
    \/ ApproveCommit(h) \/ RejectCommit(h) \/ HandlerDies(h)

Next ==
    \/ \E r \in RegIds : Checkout(r) \/ HoldEnds(r)
    \/ \E t \in Tiers : SaleEnds(t)
    \/ CleanupScan
    \/ \E h \in Handlers : (\E r \in RegIds : Reads(h, r)) \/ Writes(h)

\* The cron workflow calls the sale-end job every five minutes: it starts with its
\* rows, and one that fails does not stop those behind it (a row whose release fails
\* in every run is left out).  Of the hold cleanup nothing is assumed, as each of its
\* runs may end in the add-on expiry; nor of a customer or an organizer.
Fairness == \A r \in RegIds : WF_vars(SaleEndCancels(r))

Spec == Init /\ [][Next]_vars
FairSpec == Spec /\ Fairness

-----------------------------------------------------------------------------
(* Properties *)

TypeOK ==
    /\ reg \in [RegIds -> Row]
    /\ sold \in [Tiers -> Nat]
    /\ saleEnded \subseteq Tiers
    /\ req \in [Handlers -> Requests \cup {Idle}]
    /\ cleanup \subseteq RegIds
    /\ revived \subseteq RegIds
    /\ linked \subseteq RegIds

\* Concurrent checkouts never hold more seats of a tier than it has: rows that
\* took their seats through createImpl, however they moved on afterwards, and
\* the issued tickets fit the tier.  Rows that came back from rejected or
\* cancelled are left out: nothing counts their seats again (NoOversell).
FreshSeatsWithinCapacity ==
    \A t \in Tiers :
        Cardinality(SeatUnits(reg, RegIds \ revived, ACTIVE_REGISTRATION_STATUSES, t))
            + Issued[t] <= Capacity[t]

\* The stored count, from which the order flow sells, never overstates a tier: it
\* is at most the seats of the registrations that are active or rejected, however
\* checkouts, reviews, revivals and releases interleave.  (It may understate one.)
StoredNeverOverstates ==
    \A t \in Tiers :
        sold[t] <= Seats(reg, ACTIVE_REGISTRATION_STATUSES \cup {"rejected"}, t) + Issued[t]

\* An unpaid hold carries no payment proof, whoever edits it meanwhile: it is
\* why the cleanup can always release the holds at the head of its batch, and
\* why releasing a hold cannot lose a proof.
PendingHasNoProof ==
    \A r \in RegIds : reg[r].status = "pending_payment" => reg[r].proofs = <<>>

\* The duplicate guard holds under concurrency: of two active registrations of
\* one account or one guest email, one was revived or linked, which are the two
\* ways past the guard of createImpl.
OneCheckedActive ==
    \A p, r \in RegIds \ (revived \cup linked) :
        /\ p # r
        /\ reg[p].owner = reg[r].owner /\ reg[p].owner # Anon
        /\ reg[p].status \in ACTIVE_REGISTRATION_STATUSES
        => reg[r].status \notin ACTIVE_REGISTRATION_STATUSES

\* What a handler in flight has read stays true of its row as far as it must:
\* the row exists, and the proof an approval marks is there unless it is free.
HandlersKnowTheirRow ==
    \A h \in Handlers : LET q == req[h] IN
        /\ q.op # "idle" => reg[q.reg].status # "absent"
        /\ q.op = "approve" =>
              /\ q.proof <= Len(reg[q.reg].proofs)
              /\ q.proof # 0 \/ reg[q.reg].tier \in FreeTiers

\* A paid registration is verified only behind a proof that some organizer
\* approved, although approve marks the proof it read before its transaction
\* and resubmissions, rejections and stale edits may come in between.
VerifiedHasApprovedProof ==
    \A r \in RegIds :
        reg[r].status = "verified" /\ reg[r].tier \notin FreeTiers =>
            \E i \in DOMAIN reg[r].proofs : reg[r].proofs[i] = "approved"

\* The cleanup cancels a hold only if its deadline is past when it does, not
\* when it scanned: a guest who saved the hold in between keeps the seats.
CleanupCancelsOnlyExpired ==
    [][\A r \in cleanup \ cleanup' :
          reg'[r].status # reg[r].status => reg[r].hold = "passed"]_vars

\* A final decision stands: a cancelled or verified registration changes status
\* only by a completion or claim that was already under way (the two writes
\* that do not look at the status again).
FinalExceptForStaleEdits ==
    [][\A r \in RegIds :
          /\ reg[r].status \in {"cancelled", "verified"}
          /\ reg'[r].status # reg[r].status
          => \E h \in Handlers : /\ req[h] # Idle /\ req'[h] = Idle
                                 /\ req[h].op \in {"complete", "claim"}
                                 /\ req[h].reg = r]_vars

\* What the hold cleanup needs from its surroundings: again and again a run has
\* time left for a row, and the release of a row that is tried again and again does
\* not fail every time.
RunsReachRows ==
    SF_vars(CleanupScan) /\ \A r \in RegIds : SF_vars(CleanupReleases(r))

\* As long as runs reach rows, every hold whose deadline has passed is released,
\* paid or extended: no hold is forgotten by the two queries, and none is kept from
\* its turn by those before it in a capped batch.  Without the premise it is false:
\* an add-on expiry that throws in every run keeps every hold.
StaleHoldsEnd ==
    RunsReachRows =>
        \A r \in RegIds :
            reg[r].status = "pending_payment" /\ reg[r].hold = "passed"
                ~> reg[r].status # "pending_payment" \/ reg[r].hold = "running"

\* When a tier's sale has ended, every unpaid hold on it ends, deadline or not.
EndedSaleDrains ==
    \A r \in RegIds :
        reg[r].status = "pending_payment" /\ reg[r].tier \in saleEnded
            ~> reg[r].status # "pending_payment"

-----------------------------------------------------------------------------
(* What the documents say, and the code does not keep. *)

\* docs/UAT-ACCEPTANCE-SCENARIOS.md: "inventory cannot be oversold even with
\* concurrent registrations".
NoOversell == \A t \in Tiers : Occupied(reg, t) <= Capacity[t]

=============================================================================
