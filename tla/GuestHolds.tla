------------------------------ MODULE GuestHolds ------------------------------
(***************************************************************************)
(* Unpaid guest checkouts from one network address: the counter of holds   *)
(* in Redis and its undoing (GuestHoldService), the checkout page that     *)
(* reuses the hold of its tab (register/page.tsx), and the links that open *)
(* a hold in another browser and rotate its access token (resumeGuest).    *)
(*                                                                         *)
(* Redis, the database and the answer to the browser are three different   *)
(* steps: a call may fail, a process may die and an answer may be lost     *)
(* between any two of them.  Only the order of the two lifetimes matters   *)
(* here: a counter lives an hour from the increment that took it from      *)
(* zero, a mapping an hour from the hold, so a mapping can outlive the     *)
(* counter it belongs to, but never the counter after that one.            *)
(***************************************************************************)
EXTENDS Integers, FiniteSets

CONSTANTS Browsers,   \* tabs, all behind one address
          MaxRegs,    \* bound: registrations ever inserted
          MaxWindow,  \* bound: lifetimes of the counter
          MaxLinks,   \* bound: exchanges of a resume link that succeed
          MaxCount,   \* bound: increments the counter can hold
          HoldsPerIp

ASSUME GuestHoldsAssumption ==
    /\ MaxRegs \in Nat /\ MaxWindow \in Nat \ {0} /\ MaxLinks \in Nat
    /\ HoldsPerIp \in Nat /\ MaxCount \in Nat
    /\ IsFiniteSet(Browsers)

RegIds == 1 .. MaxRegs
Windows == 1 .. MaxWindow
NoWindow == 0
NoReg == 0
Tokens == 1 .. MaxLinks + 1

VARIABLES
    row,      \* registrations: status, number of the current access token, the tab
              \* that knows it, the tab that made it and still can know, its window
    count,    \* guest-hold:<event>:<address>
    window,   \* which lifetime of that counter
    mapping,  \* guest-hold-reg:<id>: the lifetime in which it was set
    slot,     \* releaseSlot under way for a registration
    held,     \* sessionStorage of each browser: its remembered hold
    req,      \* what each checkout page is waiting for
    headroom, \* history: units the current counter gives back for holds that stay,
              \* or that are older than it is
    winners   \* history: exchanges of a resume link that succeeded

vars == <<row, count, window, mapping, slot, held, req, headroom, winners>>

counterVars == <<count, window, headroom>>
pageVars == <<held, req>>

Row == [status : {"absent", "pending_payment", "cancelled", "paid"},
        token : Tokens, opens : SUBSET Browsers, by : SUBSET Browsers,
        counted : Windows \cup {NoWindow}]

Choices == {"same", "changed"}

Idle == [op |-> "idle"]
Requests ==
    {Idle}
      \cup [op : {"read", "cancel", "acquire"}]
      \cup [op : {"create", "undo"}, counted : Windows \cup {NoWindow}]
      \cup [op : {"bind", "answer"}, reg : RegIds]
      \cup [op : {"rotate"}, reg : RegIds, seen : Tokens]

Reply(b, q) == req' = [req EXCEPT ![b] = q]

TypeOK ==
    /\ row \in [RegIds -> Row]
    /\ count \in Nat /\ window \in Windows
    /\ mapping \in [RegIds -> Windows \cup {NoWindow}]
    /\ slot \in [RegIds -> {"kept", "get", "decrement"}]
    /\ held \in [Browsers -> RegIds \cup {NoReg}]
    /\ req \in [Browsers -> Requests]
    /\ headroom \in Nat
    /\ winners \in [RegIds \X Tokens -> Nat]

Init ==
    /\ row = [r \in RegIds |-> [status |-> "absent", token |-> 1,
                                opens |-> {}, by |-> {},
                                counted |-> NoWindow]]
    /\ count = 0 /\ window = 1 /\ headroom = 0
    /\ mapping = [r \in RegIds |-> NoWindow]
    /\ slot = [r \in RegIds |-> "kept"]
    /\ held = [b \in Browsers |-> NoReg]
    /\ req = [b \in Browsers |-> Idle]
    /\ winners = [x \in RegIds \X Tokens |-> 0]

-----------------------------------------------------------------------------
(* Redis *)

\* A decrement for a unit that was counted in the given lifetime.
Gains(of) == headroom' = IF of # window /\ count > 0 THEN headroom + 1 ELSE headroom

\* decrementIfPositive
Decrement(of) ==
    /\ count' = IF count > 0 THEN count - 1 ELSE 0
    /\ Gains(of)
    /\ UNCHANGED window

CounterExpires ==
    /\ window < MaxWindow /\ count > 0
    /\ \A r \in RegIds : mapping[r] \in {NoWindow, window}
    /\ window' = window + 1 /\ count' = 0 /\ headroom' = 0
    /\ UNCHANGED <<row, mapping, slot, winners, pageVars>>

MappingExpires(r) ==
    /\ mapping[r] # NoWindow
    /\ mapping' = [mapping EXCEPT ![r] = NoWindow]
    /\ UNCHANGED <<row, slot, winners, counterVars, pageVars>>

-----------------------------------------------------------------------------
(* Releases: releasePendingHold and then, outside its transaction, releaseSlot *)

Released(r) ==
    /\ row' = [row EXCEPT ![r].status = "cancelled"]
    /\ slot' = [slot EXCEPT ![r] = "get"]

\* The cleanup, an organizer.
ServerReleases(r) ==
    /\ row[r].status = "pending_payment"
    /\ Released(r)
    /\ UNCHANGED <<mapping, winners, counterVars, pageVars>>

\* Nothing to undo without the mapping; Redis may also fail here.
SlotGet(r) ==
    /\ slot[r] = "get"
    /\ slot' = [slot EXCEPT ![r] = IF mapping[r] = NoWindow THEN "kept" ELSE "decrement"]
    /\ UNCHANGED <<row, mapping, winners, counterVars, pageVars>>

SlotDecrement(r) ==
    /\ slot[r] = "decrement"
    /\ Decrement(row[r].counted)
    /\ mapping' = [mapping EXCEPT ![r] = NoWindow]
    /\ slot' = [slot EXCEPT ![r] = "kept"]
    /\ UNCHANGED <<row, winners, pageVars>>

SlotLost(r) ==
    /\ slot[r] # "kept"
    /\ slot' = [slot EXCEPT ![r] = "kept"]
    /\ UNCHANGED <<row, mapping, winners, counterVars, pageVars>>

-----------------------------------------------------------------------------
(* The checkout page: startPaidCheckout *)

\* assertGuestAccess
Opens(b, r) == b \in row[r].opens

Live(r) == r # NoReg /\ row[r].status = "pending_payment"

\* The tab goes on without its remembered hold.
Forget(b) == held' = [held EXCEPT ![b] = NoReg]

\* It lost sight of the registration, which may still be on hold.
Loses(r) == row' = IF Live(r) THEN [row EXCEPT ![r].by = {}] ELSE row

Pay(b, r) ==
    /\ row[r].status = "pending_payment" /\ Opens(b, r)
    /\ row' = [row EXCEPT ![r].status = "paid"]
    /\ UNCHANGED <<mapping, slot, winners, counterVars, pageVars>>

Start(b, choice) ==
    /\ req[b] = Idle
    /\ Reply(b, [op |-> IF held[b] = NoReg THEN "acquire"
                        ELSE IF choice = "same" THEN "read" ELSE "cancel"])
    /\ UNCHANGED <<row, mapping, slot, held, winners, counterVars>>

\* The remembered hold is still good: the page shows it.
Reuses(b) ==
    /\ req[b].op = "read"
    /\ Live(held[b]) /\ Opens(b, held[b])
    /\ Reply(b, Idle)
    /\ UNCHANGED <<row, mapping, slot, held, winners, counterVars>>

\* It is over, it was opened elsewhere, or the read failed: a new one follows.
ReadFails(b) ==
    /\ req[b].op = "read"
    /\ Forget(b)
    /\ Loses(held[b])
    /\ Reply(b, [op |-> "acquire"])
    /\ UNCHANGED <<row, mapping, slot, winners, counterVars>>

CancelsOld(b) ==
    /\ req[b].op = "cancel"
    /\ Live(held[b]) /\ Opens(b, held[b])
    /\ Released(held[b])
    /\ Forget(b)
    /\ Reply(b, [op |-> "acquire"])
    /\ UNCHANGED <<mapping, winners, counterVars>>

\* .catch(() => undefined)
CancelFails(b) ==
    /\ req[b].op = "cancel"
    /\ Forget(b)
    /\ Loses(held[b])
    /\ Reply(b, [op |-> "acquire"])
    /\ UNCHANGED <<row, mapping, slot, winners, counterVars>>

\* Mutant: the comparison lets one more in.
AdmitsOneMore(n) == n <= HoldsPerIp + 1

Admits(n) == n <= HoldsPerIp

\* acquireCreateSlot
Acquire(b) ==
    /\ req[b].op = "acquire" /\ count < MaxCount
    /\ count' = count + 1
    /\ Reply(b, [op |-> IF Admits(count + 1) THEN "create" ELSE "undo",
                 counted |-> window])
    /\ UNCHANGED <<row, mapping, slot, held, window, headroom, winners>>

\* Redis is down or the address unknown: fails open, the hold is not counted.
FailsOpen(b) ==
    /\ req[b].op = "acquire"
    /\ Reply(b, [op |-> "create", counted |-> NoWindow])
    /\ UNCHANGED <<row, mapping, slot, held, winners, window, headroom>>

AcquireFails(b) == FailsOpen(b) /\ UNCHANGED count

\* The increment was made, but its answer or the decrement over the cap failed.
AcquireFailsLate(b) == FailsOpen(b) /\ count < MaxCount /\ count' = count + 1

\* The increment is taken back: over the cap, or the registration failed.
Undo(b) ==
    /\ req[b].op = "undo"
    /\ Decrement(req[b].counted)
    /\ Reply(b, Idle)
    /\ UNCHANGED <<row, mapping, slot, held, winners>>

\* The hold that createImpl stores for the tab, and who knows its token.
Inserts(b, r, knows) ==
    /\ req[b].op = "create"
    /\ row[r].status = "absent" /\ \A p \in RegIds : p < r => row[p].status # "absent"
    /\ row' = [row EXCEPT ![r] = [status |-> "pending_payment", token |-> 1,
                                  opens |-> knows, by |-> knows,
                                  counted |-> req[b].counted]]

Create(b, r) ==
    /\ Inserts(b, r, {b})
    /\ Reply(b, [op |-> IF req[b].counted = NoWindow THEN "answer" ELSE "bind", reg |-> r])
    /\ UNCHANGED <<mapping, slot, held, winners, counterVars>>

\* createGuestIntent gives the unit back, if there is one, and fails.
CreateThrows(b) ==
    /\ Reply(b, IF req[b].counted = NoWindow THEN Idle ELSE [req[b] EXCEPT !.op = "undo"])
    /\ UNCHANGED <<mapping, slot, held, winners, count, window>>

\* createImpl throws: no seats, the sale is over.
CreateFails(b) ==
    /\ req[b].op = "create"
    /\ CreateThrows(b)
    /\ UNCHANGED <<row, headroom>>

\* It throws after its commit, in audit.log: the hold stays, and nobody knows it.
CreateFailsLate(b, r) ==
    /\ Inserts(b, r, {})
    /\ CreateThrows(b)
    /\ headroom' = IF req[b].counted = window THEN headroom + 1 ELSE headroom

\* bindSlot
Bind(b) ==
    /\ req[b].op = "bind"
    /\ mapping' = [mapping EXCEPT ![req[b].reg] = window]
    /\ Reply(b, [req[b] EXCEPT !.op = "answer"])
    /\ UNCHANGED <<row, slot, held, winners, counterVars>>

Remember(b, r) == held' = [held EXCEPT ![b] = r]

\* Mutant: the page keeps the token but not which hold it is for.
KeepToken(b, r) == UNCHANGED held

Remembers(b, r) == Remember(b, r)

Answer(b) ==
    /\ req[b].op = "answer"
    /\ Remembers(b, req[b].reg)
    /\ Reply(b, Idle)
    /\ UNCHANGED <<row, mapping, slot, winners, counterVars>>

\* The process dies or the connection is lost: the page can be started again.
CallLost(b) ==
    /\ req[b].op \notin {"idle", "read", "cancel"}
    /\ IF req[b].op \in {"bind", "answer"} THEN Loses(req[b].reg) ELSE UNCHANGED row
    /\ Reply(b, Idle)
    /\ UNCHANGED <<row, mapping, slot, held, winners, counterVars>>

-----------------------------------------------------------------------------
(* The emailed link is exchanged for a new token *)

ResumeReads(b, r) ==
    /\ req[b] = Idle
    /\ row[r].status = "pending_payment"
    /\ Reply(b, [op |-> "rotate", reg |-> r, seen |-> row[r].token])
    /\ UNCHANGED <<row, mapping, slot, held, winners, counterVars>>

SameToken(b) == row[req[b].reg].token = req[b].seen

\* Mutant: an update by id and status alone.
AnyToken(b) == TRUE

TokenUnchanged(b) == SameToken(b)

\* Every exchange made the token of one registration one larger.
Links == Cardinality({x \in RegIds \X Tokens : x[2] < row[x[1]].token})

ResumeRotates(b) == LET r == req[b].reg IN
    /\ req[b].op = "rotate"
    /\ row[r].status = "pending_payment" /\ TokenUnchanged(b)
    /\ Links < MaxLinks
    /\ row' = [row EXCEPT ![r].token = @ + 1, ![r].opens = {b}]
    /\ winners' = [winners EXCEPT ![<<r, req[b].seen>>] = @ + 1]
    /\ Reply(b, Idle)
    /\ UNCHANGED <<mapping, slot, held, counterVars>>

-----------------------------------------------------------------------------
PageStep(b) ==
    \/ \E c \in Choices : Start(b, c)
    \/ Reuses(b) \/ ReadFails(b) \/ CancelsOld(b) \/ CancelFails(b)
    \/ Acquire(b) \/ AcquireFails(b) \/ AcquireFailsLate(b) \/ Undo(b) \/ CreateFails(b)
    \/ Bind(b) \/ Answer(b) \/ CallLost(b) \/ ResumeRotates(b)
    \/ \E r \in RegIds :
           Create(b, r) \/ CreateFailsLate(b, r) \/ ResumeReads(b, r) \/ Pay(b, r)

Next ==
    \/ CounterExpires
    \/ \E r \in RegIds :
           MappingExpires(r) \/ ServerReleases(r) \/ SlotGet(r) \/ SlotDecrement(r) \/ SlotLost(r)
    \/ \E b \in Browsers : PageStep(b)

Spec == Init /\ [][Next]_vars

-----------------------------------------------------------------------------
(* Properties *)

\* Holds that take a unit of the current counter: stored, or about to be.
Counted ==
    {r \in RegIds : row[r].status \in {"pending_payment", "paid"} /\ row[r].counted = window}

Admitted == {b \in Browsers : req[b].op = "create" /\ req[b].counted = window}

\* Within one lifetime of the counter an address gets no more counted holds than the
\* cap, whatever fails or dies, and one more for each unit this counter gives back
\* although its hold stays (the checkout failed after its commit) or is of an
\* earlier lifetime.
CapHolds == Cardinality(Counted) + Cardinality(Admitted) <= HoldsPerIp + headroom

\* A tab that comes back to the checkout keeps one unpaid hold, however it was
\* started again, but for those it could not know of any more: a call that failed
\* (even after its commit), a lost answer, or a link that took the hold over.
OneHoldPerBrowser ==
    \A b \in Browsers :
        Cardinality({r \in RegIds : Live(r) /\ b \in row[r].by}) <= 1

\* Of any exchanges of a link that are under way together, one wins; the others
\* are told that the link is no longer valid.
OneResumeWins == \A x \in RegIds \X Tokens : winners[x] <= 1
=============================================================================
