----------------------------- MODULE TierCapacity -----------------------------
(***************************************************************************)
(* Who may change the seats of a tier, and what each of them locks: the    *)
(* checkout (createImpl), the walk-in desk (handleOnsiteRegistrationScan)  *)
(* and the organizer who edits or deletes the tier (TicketTiersService).   *)
(*                                                                         *)
(* Checkout, a capacity edit and a deletion lock the tier's row before     *)
(* they count, so each is one action.  The desk locks no row: it reads the *)
(* event before its transaction, then takes one advisory lock for the      *)
(* person and one for the tier, and counts.  Its insert waits for the row  *)
(* (the foreign key), so what others did to the tier since the count is    *)
(* committed by then.  Four steps, any of which may be the last one.       *)
(*                                                                         *)
(* Reviews and cancellations are in module Registrations; here a row is    *)
(* active or has given its seats back.                                     *)
(***************************************************************************)
EXTENDS SeatUsage

CONSTANTS Desks,     \* devices at the door
          Admins,    \* editors of tiers
          Visitors,  \* what a visitor enters: [email, name]
          NoEmail,   \* "Email: not applicable"
          Nobody,    \* the attendees of a checkout, not looked at here
          MaxCap,    \* bound: capacity of a tier
          StartCap   \* capacity of each tier when sales open

ASSUME TierCapacityAssumption ==
    /\ MaxCap \in Nat
    /\ StartCap \in [Tiers -> 0 .. MaxCap]
    /\ \A t \in Tiers : Issued[t] <= StartCap[t]
    /\ Tiers # {} /\ Nobody \notin Visitors
    /\ Desks \cap Admins = {}

VARIABLES
    reg,      \* registrations
    tier,     \* ticket_tiers: capacity, stored soldQuantity, visibility
    req,      \* what each desk and editor under way has read
    slipped,  \* history: walk-ins whose tier changed after they read or counted it
    loose     \* history: tiers whose capacity was last written without a count

vars == <<reg, tier, req, slipped, loose>>

Row == [status : {"absent", "pending_payment", "verified", "cancelled"},
        tier : Tiers, seats : 1 .. MaxPerOrder, who : Visitors \cup {Nobody}]

Tier == [cap : 0 .. MaxCap, sold : Nat, shown : {"visible", "hidden", "deleted"}]

Idle == [op |-> "idle"]

DeskRequest == [op : {"read", "looked", "counted"}, who : Visitors, tier : Tiers,
                cap : 0 .. MaxCap, count : Nat, overtaken : BOOLEAN]
EditRequest == [op : {"edit"}, tier : Tiers, cap : 0 .. MaxCap]

Exists(t) == tier[t].shown # "deleted"

NextId(r) == /\ reg[r].status = "absent"
             /\ \A q \in RegIds : q < r => reg[q].status # "absent"

Active(r) == reg[r].status \in ACTIVE_REGISTRATION_STATUSES

\* Two submissions the duplicate lookup takes for the same attendee.
SamePerson(a, b) == a.name = b.name \/ (a.email = b.email /\ a.email # NoEmail)

\* identityLockKey: the email if there is one, or else the name and birthday.
LockKey(who) == IF who.email = NoEmail THEN <<"person", who.name>> ELSE <<"email", who.email>>

HoldsPerson(h, key) == req[h].op \in {"looked", "counted"} /\ LockKey(req[h].who) = key

HoldsTier(h, t) == req[h].op = "counted" /\ req[h].tier = t

\* Requests that have counted t, or that have read it at all, are overtaken.
Overtaking(t, ops) ==
    [h \in Desks \cup Admins |->
        IF req[h].op \in ops /\ req[h].tier = t
        THEN [req[h] EXCEPT !.overtaken = TRUE] ELSE req[h]]

-----------------------------------------------------------------------------
Init ==
    /\ reg = [r \in RegIds |->
          [status |-> "absent", tier |-> CHOOSE t \in Tiers : TRUE, seats |-> 1,
           who |-> Nobody]]
    /\ tier = [t \in Tiers |-> [cap |-> StartCap[t], sold |-> Issued[t], shown |-> "visible"]]
    /\ req = [h \in Desks \cup Admins |-> Idle]
    /\ slipped = {} /\ loose = {}

\* Mutant: the seats are counted before the row is locked.
FitsStored(t, n) == tier[t].sold + n <= tier[t].cap

Fits(t, n) == Occupied(reg, t) + n <= tier[t].cap

\* createImpl: the row lock, the count, the insert.  Visibility is not asked.
Checkout(r, t, n) ==
    /\ NextId(r) /\ Exists(t)
    /\ Fits(t, n)
    /\ reg' = [reg EXCEPT ![r] =
          [status |-> "pending_payment", tier |-> t, seats |-> n, who |-> Nobody]]
    /\ tier' = [tier EXCEPT ![t].sold = Occupied(reg, t) + n]
    /\ req' = Overtaking(t, {"counted"})
    /\ UNCHANGED <<slipped, loose>>

Returned(t, n) == [tier EXCEPT ![t].sold = IF @ > n THEN @ - n ELSE 0]

\* A cancelled or expired checkout gives its seats back.
SeatsReturn(r) ==
    /\ reg[r].status = "pending_payment"
    /\ reg' = [reg EXCEPT ![r].status = "cancelled"]
    /\ tier' = Returned(reg[r].tier, reg[r].seats)
    /\ UNCHANGED <<req, slipped, loose>>

-----------------------------------------------------------------------------
(* The walk-in desk *)

DeskReads(h, who, t) ==
    /\ req[h] = Idle
    /\ tier[t].shown = "visible"
    /\ req' = [req EXCEPT ![h] =
          [op |-> "read", who |-> who, tier |-> t, cap |-> tier[t].cap, count |-> 0,
           overtaken |-> FALSE]]
    /\ UNCHANGED <<reg, tier, slipped, loose>>

\* Mutant: the lookup without the lock.
PersonUnlocked(h) == TRUE

PersonFree(h) == \A d \in Desks \ {h} : ~HoldsPerson(d, LockKey(req[h].who))

\* The person's lock, then the duplicate lookup.
DeskLooks(h) ==
    /\ req[h].op = "read"
    /\ PersonFree(h)
    /\ \A r \in RegIds : Active(r) /\ reg[r].who # Nobody => ~SamePerson(reg[r].who, req[h].who)
    /\ req' = [req EXCEPT ![h].op = "looked"]
    /\ UNCHANGED <<reg, tier, slipped, loose>>

\* Mutant: the count without the lock.
TierUnlocked(h) == TRUE

TierFree(h) == \A d \in Desks \ {h} : ~HoldsTier(d, req[h].tier)

\* The tier's advisory lock, then the count against the capacity read before.
DeskCounts(h) == LET t == req[h].tier IN
    /\ req[h].op = "looked"
    /\ TierFree(h)
    /\ Occupied(reg, t) < req[h].cap
    /\ req' = [req EXCEPT ![h].op = "counted", ![h].count = Occupied(reg, t)]
    /\ UNCHANGED <<reg, tier, slipped, loose>>

\* Insert, stored count, commit; the foreign key needs the tier to exist.
DeskCommits(h, r) == LET t == req[h].tier IN
    /\ req[h].op = "counted"
    /\ NextId(r) /\ Exists(t)
    /\ reg' = [reg EXCEPT ![r] =
          [status |-> "verified", tier |-> t, seats |-> 1, who |-> req[h].who]]
    /\ tier' = [tier EXCEPT ![t].sold = req[h].count + 1]
    /\ slipped' = IF req[h].overtaken THEN slipped \cup {r} ELSE slipped
    /\ req' = [req EXCEPT ![h] = Idle]
    /\ UNCHANGED loose

\* A refusal, an exception or the end of the process.
Ends(h) ==
    /\ req[h] # Idle
    /\ req' = [req EXCEPT ![h] = Idle]
    /\ UNCHANGED <<reg, tier, slipped, loose>>

-----------------------------------------------------------------------------
(* The organizer *)

EditReads(h, t) ==
    /\ req[h] = Idle
    /\ Exists(t)
    /\ req' = [req EXCEPT ![h] = [op |-> "edit", tier |-> t, cap |-> tier[t].cap]]
    /\ UNCHANGED <<reg, tier, slipped, loose>>

\* Mutant: a new capacity is compared with the paid seats.
CutBelowHolds(t, cap) == cap >= OccupiedWithoutHolds(reg, t)

CutAllowed(t, cap) == cap >= ReservedSeats(reg, t)

\* update: the guard is for a capacity that differs from the one read before the
\* transaction; the write is not.
EditCommits(h, cap) == LET t == req[h].tier IN
    /\ req[h].op = "edit"
    /\ Exists(t)
    /\ cap # req[h].cap => CutAllowed(t, cap)
    /\ tier' = [tier EXCEPT ![t].cap = cap]
    /\ req' = [IF cap < tier[t].cap THEN Overtaking(t, {"read", "looked", "counted"}) ELSE req
               EXCEPT ![h] = Idle]
    /\ loose' = IF cap # req[h].cap THEN loose \ {t}
                ELSE IF cap < tier[t].cap THEN loose \cup {t} ELSE loose
    /\ UNCHANGED <<reg, slipped>>

SetVisible(t, shown) ==
    /\ Exists(t)
    /\ tier' = [tier EXCEPT ![t].shown = shown]
    /\ UNCHANGED <<reg, req, slipped, loose>>

\* Mutant: the stored column decides, as before this release.
StoredEmpty(t) == tier[t].sold = 0

Empty(t) == ReservedSeats(reg, t) = 0

Delete(t) ==
    /\ Exists(t)
    /\ Empty(t)
    /\ tier' = [tier EXCEPT ![t].shown = "deleted"]
    /\ UNCHANGED <<reg, req, slipped, loose>>

-----------------------------------------------------------------------------
Selling == \E r \in RegIds :
    \/ \E t \in Tiers, n \in 1 .. MaxPerOrder : Checkout(r, t, n)
    \/ SeatsReturn(r)

Admitting == \E h \in Desks :
    \/ \E who \in Visitors, t \in Tiers : DeskReads(h, who, t)
    \/ DeskLooks(h) \/ DeskCounts(h)
    \/ \E r \in RegIds : DeskCommits(h, r)

Editing ==
    \/ \E h \in Admins : \/ \E t \in Tiers : EditReads(h, t)
                         \/ \E cap \in 0 .. MaxCap : EditCommits(h, cap)
    \/ \E t \in Tiers : Delete(t) \/ \E s \in {"visible", "hidden"} : SetVisible(t, s)

Next == Selling \/ Admitting \/ Editing \/ \E h \in Desks \cup Admins : Ends(h)

Spec == Init /\ [][Next]_vars

-----------------------------------------------------------------------------
(* Properties *)

TypeOK ==
    /\ reg \in [RegIds -> Row]
    /\ tier \in [Tiers -> Tier]
    /\ req \in [Desks \cup Admins -> {Idle} \cup DeskRequest \cup EditRequest]
    /\ \A h \in Desks : req[h].op # "edit"
    /\ \A h \in Admins : req[h].op \in {"idle", "edit"}
    /\ slipped \subseteq RegIds /\ loose \subseteq Tiers

\* Every seat beyond a tier's capacity belongs to a walk-in that a checkout or a
\* capacity edit overtook, unless the capacity was written without a count: the
\* row lock and the desk's two advisory locks leave no other way.
CheckedSeatsFit ==
    \A t \in Tiers \ loose :
        Cardinality(SeatUnits(reg, RegIds \ slipped, ACTIVE_REGISTRATION_STATUSES, t))
            + Issued[t] <= tier[t].cap

\* One lock key admits one walk-in, however many devices send it.
OneWalkInPerKey ==
    \A p, r \in RegIds :
        /\ p # r /\ Active(p) /\ Active(r)
        /\ reg[p].who # Nobody /\ reg[r].who # Nobody
        => LockKey(reg[p].who) # LockKey(reg[r].who)

\* No registration is left active in a deleted tier, whether it was counted
\* before or inserted after the deletion.
DeletedTierIsEmpty ==
    \A r \in RegIds : Active(r) => Exists(reg[r].tier)

=============================================================================
