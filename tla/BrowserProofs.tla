----------------------------- MODULE BrowserProofs -----------------------------
(***************************************************************************)
(* What one browser may rely on: the holds a guest makes (GuestHolds) and  *)
(* the session of somebody who has signed in (Sessions).                   *)
(*                                                                         *)
(* Holds, for every number of tabs, registrations, lifetimes of the        *)
(* counter and exchanges of a link.  The counter and the units it does not *)
(* know of any more (headroom) cover whatever was counted and not yet      *)
(* undone (UnitsCovered); a tab that may make a hold remembers none, and a *)
(* hold under way is the only one (KnownHolds); a link that was exchanged  *)
(* has a newer token (LinksSpent).                                         *)
(*                                                                         *)
(* Sessions, for every number of tabs and calls.  One tab exchanges at a   *)
(* time (Exclusive), so the stored token is alive or its successor on the  *)
(* way (Kept), and after a sign-out nobody is left who could store one     *)
(* (Gone); a pair of tokens is in one place (Fresh).                       *)
(***************************************************************************)
EXTENDS GuestHolds, Sessions, FiniteSetTheorems, TLAPS

-----------------------------------------------------------------------------
(* Holds: what requests carry *)

LEMMA RequestTypes ==
    ASSUME NEW q \in Requests
    PROVE  /\ q.op \in {"create", "undo"} => q.counted \in Windows \cup {NoWindow}
           /\ q.op \in {"bind", "answer", "rotate"} => q.reg \in RegIds
           /\ q.op = "rotate" => q.seen \in Tokens
  BY DEF Requests, Idle

LEMMA NewRequests ==
    /\ Idle \in Requests /\ Idle.op = "idle"
    /\ \A o \in {"read", "cancel", "acquire"} : [op |-> o] \in Requests
    /\ \A o \in {"create", "undo"}, w \in Windows \cup {NoWindow} :
          [op |-> o, counted |-> w] \in Requests
    /\ \A o \in {"bind", "answer"}, r \in RegIds : [op |-> o, reg |-> r] \in Requests
    /\ \A r \in RegIds, n \in Tokens : [op |-> "rotate", reg |-> r, seen |-> n] \in Requests
  BY DEF Requests, Idle

\* A request that goes on to its next call.
LEMMA NextRequests ==
    ASSUME NEW q \in Requests
    PROVE  /\ q.op = "create" => /\ [q EXCEPT !.op = "undo"] \in Requests
                                 /\ [q EXCEPT !.op = "undo"].op = "undo"
                                 /\ [q EXCEPT !.op = "undo"].counted = q.counted
           /\ q.op = "bind" => /\ [q EXCEPT !.op = "answer"] \in Requests
                               /\ [q EXCEPT !.op = "answer"].op = "answer"
                               /\ [q EXCEPT !.op = "answer"].reg = q.reg
  <1>1. CASE q.op = "create"
    <2>1. q \in [op : {"create", "undo"}, counted : Windows \cup {NoWindow}]
      BY <1>1 DEF Requests, Idle
    <2> QED
      BY <1>1, <2>1 DEF Requests
  <1>2. CASE q.op = "bind"
    <2>1. q \in [op : {"bind", "answer"}, reg : RegIds]
      BY <1>2 DEF Requests, Idle
    <2> QED
      BY <1>2, <2>1 DEF Requests
  <1> QED
    BY <1>1, <1>2

LEMMA Replies ==
    ASSUME req \in [Browsers -> Requests], NEW b \in Browsers, NEW q \in Requests, Reply(b, q)
    PROVE  /\ req' \in [Browsers -> Requests] /\ req'[b] = q
           /\ \A d \in Browsers \ {b} : req'[d] = req[d]
  BY DEF Reply

-----------------------------------------------------------------------------
(* Holds: what is written in a registration *)

\* Every other one, and every other field, stays as it is.
OnlyStatus(r, s) ==
    /\ row'[r].status = s
    /\ \A p \in RegIds : /\ p # r => row'[p].status = row[p].status
                         /\ row'[p].token = row[p].token /\ row'[p].opens = row[p].opens
                         /\ row'[p].by = row[p].by /\ row'[p].counted = row[p].counted

SameRows ==
    \A p \in RegIds : /\ row'[p].status = row[p].status /\ row'[p].token = row[p].token
                      /\ row'[p].by \subseteq row[p].by /\ row'[p].counted = row[p].counted

LEMMA StatusWrites ==
    ASSUME row \in [RegIds -> Row], NEW r \in RegIds, NEW s \in {"cancelled", "paid"},
           row' = [row EXCEPT ![r].status = s]
    PROVE  row' \in [RegIds -> Row] /\ OnlyStatus(r, s)
  <1>1. [row[r] EXCEPT !.status = s] \in Row
    BY DEF Row
  <1>2. /\ [row[r] EXCEPT !.status = s].status = s
        /\ [row[r] EXCEPT !.status = s].token = row[r].token
        /\ [row[r] EXCEPT !.status = s].opens = row[r].opens
        /\ [row[r] EXCEPT !.status = s].by = row[r].by
        /\ [row[r] EXCEPT !.status = s].counted = row[r].counted
    BY DEF Row
  <1> DEFINE x == [row[r] EXCEPT !.status = s]
  <1>3. row' = [row EXCEPT ![r] = x]
    OBVIOUS
  <1> HIDE DEF x
  <1>4. x \in Row /\ x.status = s /\ x.token = row[r].token /\ x.opens = row[r].opens
        /\ x.by = row[r].by /\ x.counted = row[r].counted
    BY <1>1, <1>2 DEF x
  <1> QED
    BY <1>3, <1>4 DEF OnlyStatus

LEMMA LosesWrites ==
    ASSUME row \in [RegIds -> Row], NEW r \in RegIds \cup {NoReg}, Loses(r)
    PROVE  /\ row' \in [RegIds -> Row] /\ SameRows
           /\ r \in RegIds /\ Live(r) => row'[r].by = {}
  <1>1. CASE row' = row
    BY <1>1 DEF SameRows, Loses, Live
  <1>2. CASE r \in RegIds /\ row' = [row EXCEPT ![r].by = {}]
    <2> DEFINE x == [row[r] EXCEPT !.by = {}]
    <2>1. /\ x \in Row /\ x.by = {} /\ x.status = row[r].status /\ x.token = row[r].token
          /\ x.counted = row[r].counted
      BY <1>2 DEF Row
    <2>2. row' = [row EXCEPT ![r] = x]
      BY <1>2
    <2> HIDE DEF x
    <2> QED
      BY <1>2, <2>1, <2>2 DEF SameRows
  <1> QED
    BY <1>1, <1>2 DEF Loses, Live

LEMMA InsertWrites ==
    ASSUME row \in [RegIds -> Row], NEW r \in RegIds, NEW k \in SUBSET Browsers,
           NEW w \in Windows \cup {NoWindow},
           row' = [row EXCEPT ![r] = [status |-> "pending_payment", token |-> 1, opens |-> k,
                                      by |-> k, counted |-> w]]
    PROVE  /\ row' \in [RegIds -> Row]
           /\ row'[r].status = "pending_payment" /\ row'[r].token = 1
           /\ row'[r].by = k /\ row'[r].counted = w
           /\ \A p \in RegIds \ {r} : row'[p] = row[p]
  <1> DEFINE x == [status |-> "pending_payment", token |-> 1, opens |-> k,
                   by |-> k, counted |-> w]
  <1>1. 1 \in Tokens
    BY GuestHoldsAssumption DEF Tokens
  <1>2. /\ x \in Row /\ x.status = "pending_payment" /\ x.token = 1 /\ x.by = k
        /\ x.counted = w
    BY <1>1 DEF Row
  <1>3. row' = [row EXCEPT ![r] = x]
    OBVIOUS
  <1> HIDE DEF x
  <1> QED
    BY <1>2, <1>3

\* The number of exchanges bounds every token.
LEMMA LinksBoundTokens ==
    ASSUME row \in [RegIds -> Row], NEW r \in RegIds, Links < MaxLinks
    PROVE  row[r].token + 1 \in Tokens
  <1> DEFINE L == {x \in RegIds \X Tokens : x[2] < row[x[1]].token}
  <1> DEFINE n == row[r].token - 1
  <1>1. row[r].token \in 1 .. MaxLinks + 1 /\ MaxLinks \in Nat
    BY GuestHoldsAssumption DEF Row, Tokens
  <1>2. IsFiniteSet(RegIds) /\ IsFiniteSet(Tokens)
    BY GuestHoldsAssumption, FS_Interval DEF RegIds, Tokens
  <1>3. IsFiniteSet(RegIds \X Tokens)
    BY <1>2, FS_Product
  <1>4. IsFiniteSet(L)
    BY <1>3, FS_Subset
  <1> DEFINE f == [k \in 1 .. n |-> <<r, k>>]
  <1>5. f \in Injection(1 .. n, L)
    <2>1. \A k \in 1 .. n : <<r, k>> \in L
      BY <1>1 DEF Tokens
    <2>2. f \in [1 .. n -> L]
      BY <2>1
    <2>3. \A k, m \in 1 .. n : f[k] = f[m] => k = m
      OBVIOUS
    <2> QED
      BY <2>2, <2>3, Zenon DEF Injection, IsInjective
  <1>6. Cardinality(1 .. n) <= Cardinality(L)
    BY <1>4, <1>5, FS_Injection
  <1>7. Cardinality(1 .. n) = n /\ Cardinality(L) = Links
    <2>1. n \in Nat
      BY <1>1
    <2>2. Cardinality(1 .. n) = IF 1 > n THEN 0 ELSE n - 1 + 1
      BY <2>1, FS_Interval
    <2> QED
      BY <2>1, <2>2 DEF Links
  <1>8. Links \in Nat
    BY <1>4, <1>7, FS_CardinalityType
  <1>9. n <= Links
    BY <1>6, <1>7
  <1> HIDE DEF L, f
  <1> QED
    BY <1>1, <1>8, <1>9 DEF Tokens

LEMMA RotateWrites ==
    ASSUME row \in [RegIds -> Row], NEW b \in Browsers, NEW r \in RegIds, Links < MaxLinks,
           row' = [row EXCEPT ![r].token = @ + 1, ![r].opens = {b}]
    PROVE  /\ row' \in [RegIds -> Row]
           /\ row'[r].status = row[r].status /\ row'[r].token = row[r].token + 1
           /\ row'[r].by = row[r].by /\ row'[r].counted = row[r].counted
           /\ \A p \in RegIds \ {r} : row'[p] = row[p]
  <1> DEFINE x == [row[r] EXCEPT !.token = @ + 1, !.opens = {b}]
  <1>1. row[r].token + 1 \in Tokens
    BY LinksBoundTokens
  <1>2. /\ x \in Row /\ x.status = row[r].status /\ x.token = row[r].token + 1
        /\ x.by = row[r].by /\ x.counted = row[r].counted
    BY <1>1 DEF Row
  <1>3. row' = [row EXCEPT ![r] = x]
    OBVIOUS
  <1> HIDE DEF x
  <1> QED
    BY <1>2, <1>3

-----------------------------------------------------------------------------
(* Holds: the invariant *)

\* Nothing is counted for a lifetime that is still to come.
WindowsPast ==
    /\ \A r \in RegIds : row[r].counted <= window
    /\ \A b \in Browsers : req[b].op \in {"create", "undo"} => req[b].counted <= window

\* A slot is given back after its hold was cancelled.
SlotsOfCancelled == \A r \in RegIds : slot[r] # "kept" => row[r].status = "cancelled"

\* What was counted in this lifetime and not undone, nor given up on, yet.
Units ==
    {r \in RegIds : /\ row[r].counted = window
                    /\ row[r].status \in {"pending_payment", "paid"} \/ slot[r] # "kept"}

Pending ==
    {b \in Browsers : req[b].op \in {"create", "undo"} /\ req[b].counted = window}

UnitsCovered == Cardinality(Units) + Cardinality(Pending) <= count + headroom

CapInv == WindowsPast /\ SlotsOfCancelled /\ UnitsCovered /\ CapHolds

\* A tab that is making a hold remembers none; a live hold of a tab is the one it
\* remembers, or the one it is about to.
Making == {"acquire", "create", "undo", "bind", "answer"}

Knows(b) ==
    /\ req[b].op \in Making => held[b] = NoReg
    /\ \A r \in RegIds : row[r].status = "pending_payment" /\ b \in row[r].by =>
          r = held[b] \/ (req[b].op \in {"bind", "answer"} /\ req[b].reg = r)

KnownHolds == \A b \in Browsers : Knows(b)

\* Only links older than the current token were exchanged.
LinksSpent ==
    \A r \in RegIds :
        /\ row[r].status = "absent" => row[r].token = 1
        /\ \A n \in Tokens : n >= row[r].token => winners[<<r, n>>] = 0

IInv == TypeOK /\ CapInv /\ KnownHolds /\ LinksSpent /\ OneResumeWins

-----------------------------------------------------------------------------
(* Holds: steps that write nothing an invariant speaks of *)

\* Registrations and tabs take no further unit of the counter.
RegsKeep ==
    \A r \in RegIds :
        /\ row'[r].counted = row[r].counted
        /\ row'[r].status \in {"pending_payment", "paid"} =>
              row[r].status \in {"pending_payment", "paid"}
        /\ slot'[r] # "kept" =>
              /\ row'[r].status = "cancelled"
              /\ slot[r] # "kept" \/ row[r].status = "pending_payment"

TabsKeep ==
    \A b \in Browsers : req'[b].op \in {"create", "undo"} =>
        \/ req'[b].counted = NoWindow
        \/ /\ req[b].op \in {"create", "undo"} /\ req'[b].counted = req[b].counted
           /\ req'[b].op = "create" => req[b].op = "create"

LEMMA Finite ==
    /\ IsFiniteSet(RegIds) /\ IsFiniteSet(Browsers)
    /\ \A S : S \subseteq RegIds \/ S \subseteq Browsers =>
          IsFiniteSet(S) /\ Cardinality(S) \in Nat
  <1>1. IsFiniteSet(RegIds) /\ IsFiniteSet(Browsers)
    BY GuestHoldsAssumption, FS_Interval DEF RegIds
  <1>2. ASSUME NEW S, S \subseteq RegIds \/ S \subseteq Browsers
        PROVE  IsFiniteSet(S) /\ Cardinality(S) \in Nat
    <2>1. IsFiniteSet(S)
      BY <1>1, <1>2, FS_Subset
    <2> QED
      BY <2>1, FS_CardinalityType
  <1> QED
    BY <1>1, <1>2

LEMMA SetsFinite ==
    /\ Cardinality(Units) \in Nat /\ Cardinality(Pending) \in Nat
    /\ Cardinality(Counted) \in Nat /\ Cardinality(Admitted) \in Nat
    /\ IsFiniteSet(Units) /\ IsFiniteSet(Pending)
    /\ IsFiniteSet(Counted) /\ IsFiniteSet(Admitted)
    /\ Counted \subseteq Units /\ Admitted \subseteq Pending
  <1>1. Units \subseteq RegIds /\ Pending \subseteq Browsers
        /\ Counted \subseteq RegIds /\ Admitted \subseteq Browsers
    BY DEF Units, Pending, Counted, Admitted
  <1>2. Counted \subseteq Units /\ Admitted \subseteq Pending
    BY DEF Units, Pending, Counted, Admitted
  <1> QED
    BY <1>1, <1>2, Finite

LEMMA SetsFiniteNext ==
    /\ Cardinality(Units') \in Nat /\ Cardinality(Pending') \in Nat
    /\ Cardinality(Counted') \in Nat /\ Cardinality(Admitted') \in Nat
  <1>1. Units' \subseteq RegIds /\ Pending' \subseteq Browsers
        /\ Counted' \subseteq RegIds /\ Admitted' \subseteq Browsers
    BY DEF Units, Pending, Counted, Admitted
  <1> QED
    BY <1>1, Finite

LEMMA Fewer ==
    ASSUME NEW S, NEW T, IsFiniteSet(T), S \subseteq T
    PROVE  Cardinality(S) <= Cardinality(T)
  BY FS_Subset

LEMMA CapQuiet ==
    ASSUME TypeOK, CapInv, UNCHANGED counterVars, RegsKeep, TabsKeep
    PROVE  CapInv'
  <1>1. window \in Nat /\ window # NoWindow /\ NoWindow <= window
    BY DEF TypeOK, Windows, NoWindow
  <1>2. UNCHANGED <<count, window, headroom>>
    BY DEF counterVars
  <1>3. WindowsPast'
    BY <1>1, <1>2 DEF CapInv, WindowsPast, RegsKeep, TabsKeep
  <1>4. SlotsOfCancelled'
    BY DEF SlotsOfCancelled, RegsKeep
  <1>5. Units' \subseteq Units /\ Counted' \subseteq Counted
    BY <1>2 DEF Units, Counted, RegsKeep
  <1>6. Pending' \subseteq Pending /\ Admitted' \subseteq Admitted
    BY <1>1, <1>2 DEF Pending, Admitted, TabsKeep
  <1>7. /\ Cardinality(Units') <= Cardinality(Units)
        /\ Cardinality(Pending') <= Cardinality(Pending)
        /\ Cardinality(Counted') <= Cardinality(Counted)
        /\ Cardinality(Admitted') <= Cardinality(Admitted)
    BY <1>5, <1>6, SetsFinite, Fewer
  <1>8. count' = count /\ headroom' = headroom /\ count \in Nat /\ headroom \in Nat
        /\ HoldsPerIp \in Nat
    BY <1>2, GuestHoldsAssumption DEF TypeOK
  <1>9. UnitsCovered'
    BY <1>7, <1>8, SetsFinite, SetsFiniteNext DEF CapInv, UnitsCovered
  <1>10. CapHolds'
    BY <1>7, <1>8, SetsFinite, SetsFiniteNext DEF CapInv, CapHolds
  <1> QED
    BY <1>3, <1>4, <1>9, <1>10 DEF CapInv

\* No hold of the tab comes back to life.
ShrinksFor(b) ==
    \A r \in RegIds : row'[r].status = "pending_payment" /\ b \in row'[r].by =>
        row[r].status = "pending_payment" /\ b \in row[r].by

LEMMA KnowsStill ==
    ASSUME NEW b \in Browsers, Knows(b), ShrinksFor(b),
           held'[b] = held[b], req'[b] = req[b]
    PROVE  Knows(b)'
  BY DEF Knows, ShrinksFor

LEMMA LinksQuiet ==
    ASSUME LinksSpent /\ OneResumeWins, winners' = winners,
           \A r \in RegIds : /\ row'[r].token = row[r].token
                             /\ row'[r].status = "absent" => row[r].status = "absent"
    PROVE  LinksSpent' /\ OneResumeWins'
  BY DEF LinksSpent, OneResumeWins

\* The registrations stay, or one that was there is paid or cancelled.
LEMMA StatusKeeps ==
    ASSUME NEW r \in RegIds, NEW s \in {"cancelled", "paid"}, OnlyStatus(r, s),
           row[r].status = "pending_payment"
    PROVE  /\ \A b \in Browsers : ShrinksFor(b)
           /\ \A p \in RegIds : /\ row'[p].token = row[p].token
                                /\ row'[p].status = "absent" => row[p].status = "absent"
  BY DEF OnlyStatus, ShrinksFor

LEMMA SameKeeps ==
    ASSUME SameRows
    PROVE  /\ \A b \in Browsers : ShrinksFor(b)
           /\ \A p \in RegIds : /\ row'[p].token = row[p].token
                                /\ row'[p].status = "absent" => row[p].status = "absent"
  BY DEF SameRows, ShrinksFor

LEMMA QuietStep ==
    ASSUME IInv, TypeOK', UNCHANGED <<counterVars, winners>>, RegsKeep, TabsKeep, KnownHolds',
           \A r \in RegIds : /\ row'[r].token = row[r].token
                             /\ row'[r].status = "absent" => row[r].status = "absent"
    PROVE  IInv'
  BY CapQuiet, LinksQuiet DEF IInv

\* A step of one tab is no business of the others.
LEMMA OneTab ==
    ASSUME KnownHolds, NEW b \in Browsers, Knows(b)',
           \A d \in Browsers \ {b} : ShrinksFor(d) /\ held'[d] = held[d] /\ req'[d] = req[d]
    PROVE  KnownHolds'
  BY KnowsStill DEF KnownHolds

-----------------------------------------------------------------------------
(* Holds: time, and the slots that are given back *)

LEMMA PagesAlone ==
    ASSUME IInv, UNCHANGED pageVars
    PROVE  TabsKeep /\ ((\A b \in Browsers : ShrinksFor(b)) => KnownHolds')
  <1>1. held' = held /\ req' = req
    BY DEF pageVars
  <1> QED
    BY <1>1, KnowsStill DEF TabsKeep, KnownHolds, IInv

LEMMA MappingStep ==
    ASSUME IInv, NEW r \in RegIds, MappingExpires(r)
    PROVE  IInv'
  <1>1. TypeOK'
    BY DEF IInv, TypeOK, MappingExpires, counterVars, pageVars
  <1>2. SameRows /\ RegsKeep
    BY DEF MappingExpires, SameRows, RegsKeep, IInv, CapInv, SlotsOfCancelled
  <1> QED
    BY <1>1, <1>2, SameKeeps, PagesAlone, QuietStep DEF MappingExpires

LEMMA SlotStep ==
    ASSUME IInv, NEW r \in RegIds, SlotGet(r) \/ SlotLost(r)
    PROVE  IInv'
  <1>0. /\ slot[r] # "kept" /\ slot' \in [RegIds -> {"kept", "get", "decrement"}]
        /\ \A p \in RegIds : p # r => slot'[p] = slot[p]
        /\ UNCHANGED <<row, mapping, winners, counterVars, pageVars>>
    BY DEF SlotGet, SlotLost, IInv, TypeOK
  <1>1. TypeOK'
    BY <1>0 DEF IInv, TypeOK, counterVars, pageVars
  <1>2. SameRows /\ RegsKeep
    BY <1>0 DEF SameRows, RegsKeep, IInv, CapInv, SlotsOfCancelled
  <1> QED
    BY <1>0, <1>1, <1>2, SameKeeps, PagesAlone, QuietStep

\* What the cancellation of a hold leaves true.
LEMMA ReleaseKeeps ==
    ASSUME IInv, NEW r \in RegIds, row[r].status = "pending_payment", Released(r)
    PROVE  /\ row' \in [RegIds -> Row] /\ slot' \in [RegIds -> {"kept", "get", "decrement"}]
           /\ OnlyStatus(r, "cancelled") /\ RegsKeep
  <1>1. row \in [RegIds -> Row] /\ slot \in [RegIds -> {"kept", "get", "decrement"}]
    BY DEF IInv, TypeOK
  <1>2. /\ row' = [row EXCEPT ![r].status = "cancelled"]
        /\ slot' = [slot EXCEPT ![r] = "get"]
    BY DEF Released
  <1>3. row' \in [RegIds -> Row] /\ OnlyStatus(r, "cancelled")
    BY <1>1, <1>2, StatusWrites
  <1>4. /\ slot' \in [RegIds -> {"kept", "get", "decrement"}] /\ slot'[r] = "get"
        /\ \A p \in RegIds : p # r => slot'[p] = slot[p]
    BY <1>1, <1>2
  <1>5. RegsKeep
    BY <1>3, <1>4 DEF RegsKeep, OnlyStatus, IInv, CapInv, SlotsOfCancelled
  <1> QED
    BY <1>3, <1>4, <1>5

LEMMA ReleaseStep ==
    ASSUME IInv, NEW r \in RegIds, ServerReleases(r)
    PROVE  IInv'
  <1>1. /\ row[r].status = "pending_payment" /\ Released(r)
        /\ UNCHANGED <<mapping, winners, counterVars, pageVars>>
    BY DEF ServerReleases
  <1>2. /\ row' \in [RegIds -> Row] /\ slot' \in [RegIds -> {"kept", "get", "decrement"}]
        /\ OnlyStatus(r, "cancelled") /\ RegsKeep
    BY <1>1, ReleaseKeeps
  <1>3. TypeOK'
    BY <1>1, <1>2 DEF IInv, TypeOK, counterVars, pageVars
  <1> QED
    BY <1>1, <1>2, <1>3, StatusKeeps, PagesAlone, QuietStep

\* A new counter covers nothing yet, and nothing is counted by it.
LEMMA ExpiryStep ==
    ASSUME IInv, CounterExpires
    PROVE  IInv'
  <1>1. /\ window' = window + 1 /\ count' = 0 /\ headroom' = 0 /\ window < MaxWindow
        /\ UNCHANGED <<row, mapping, slot, winners, held, req>>
    BY DEF CounterExpires, pageVars
  <1>2. TypeOK'
    <2>1. window' \in Windows
      BY <1>1, GuestHoldsAssumption DEF IInv, TypeOK, Windows
    <2> QED
      BY <1>1, <2>1 DEF IInv, TypeOK
  <1>3. /\ \A r \in RegIds : row[r].counted \in Nat
        /\ \A b \in Browsers : req[b].op \in {"create", "undo"} => req[b].counted \in Nat
        /\ window \in Nat
    BY RequestTypes DEF IInv, TypeOK, Row, Windows, NoWindow
  <1>4. WindowsPast'
    BY <1>1, <1>3 DEF IInv, CapInv, WindowsPast
  <1>5. Units' = {} /\ Pending' = {} /\ Counted' = {} /\ Admitted' = {}
    BY <1>1, <1>3 DEF IInv, CapInv, WindowsPast, Units, Pending, Counted, Admitted
  <1>6. UnitsCovered' /\ CapHolds'
    BY <1>1, <1>5, FS_EmptySet, GuestHoldsAssumption DEF UnitsCovered, CapHolds
  <1>7. SlotsOfCancelled' /\ KnownHolds' /\ LinksSpent' /\ OneResumeWins'
    BY <1>1 DEF IInv, CapInv, SlotsOfCancelled, KnownHolds, Knows, LinksSpent, OneResumeWins
  <1> QED
    BY <1>2, <1>4, <1>6, <1>7 DEF IInv, CapInv

\* A unit goes: it is the counter's, or a later counter's, which then has room.
LEMMA DecrementCovers ==
    ASSUME TypeOK, UnitsCovered, CapHolds, NEW of, Decrement(of),
           Counted' \subseteq Counted, Admitted' \subseteq Admitted,
           Cardinality(Units') + Cardinality(Pending')
              <= Cardinality(Units) + Cardinality(Pending)
                   - (IF of = window THEN 1 ELSE 0)
    PROVE  /\ UnitsCovered' /\ CapHolds'
           /\ count' \in Nat /\ headroom' \in Nat /\ window' = window
  <1>1. count \in Nat /\ headroom \in Nat /\ HoldsPerIp \in Nat
    BY GuestHoldsAssumption DEF TypeOK
  <1>2. /\ count' = IF count > 0 THEN count - 1 ELSE 0
        /\ headroom' = IF of # window /\ count > 0 THEN headroom + 1 ELSE headroom
        /\ window' = window
    BY DEF Decrement, Gains
  <1>3. /\ Cardinality(Counted') <= Cardinality(Counted)
        /\ Cardinality(Admitted') <= Cardinality(Admitted)
    BY SetsFinite, Fewer
  <1>4. CapHolds'
    BY <1>1, <1>2, <1>3, SetsFinite, SetsFiniteNext DEF CapHolds
  <1>5. UnitsCovered'
    BY <1>1, <1>2, SetsFinite, SetsFiniteNext DEF UnitsCovered
  <1> QED
    BY <1>1, <1>2, <1>4, <1>5

LEMMA OneFewer ==
    ASSUME NEW S, NEW T, NEW x \in T, IsFiniteSet(T), S \subseteq T \ {x}
    PROVE  Cardinality(S) <= Cardinality(T) - 1
  <1>1. IsFiniteSet(T \ {x}) /\ Cardinality(T \ {x}) = Cardinality(T) - 1
    BY FS_RemoveElement
  <1> QED
    BY <1>1, FS_Subset

LEMMA SlotDecrementStep ==
    ASSUME IInv, NEW r \in RegIds, SlotDecrement(r)
    PROVE  IInv'
  <1>1. /\ slot[r] = "decrement" /\ Decrement(row[r].counted)
        /\ slot' = [slot EXCEPT ![r] = "kept"]
        /\ mapping' = [mapping EXCEPT ![r] = NoWindow]
        /\ UNCHANGED <<row, winners, held, req>>
    BY DEF SlotDecrement, pageVars
  <1>2. row[r].status = "cancelled" /\ window' = window
    BY <1>1 DEF IInv, CapInv, SlotsOfCancelled, Decrement
  <1>3. slot'[r] = "kept" /\ \A p \in RegIds : p # r => slot'[p] = slot[p]
    BY <1>1 DEF IInv, TypeOK
  <1>4. Pending' = Pending /\ Counted' = Counted /\ Admitted' = Admitted
    BY <1>1, <1>2 DEF Pending, Counted, Admitted
  <1>5. Units' \subseteq Units \ {r}
    BY <1>1, <1>2, <1>3 DEF Units
  <1>6. row[r].counted = window => r \in Units
    BY <1>1 DEF Units
  <1>7. Cardinality(Units') <= Cardinality(Units) - (IF row[r].counted = window THEN 1 ELSE 0)
    <2>1. CASE row[r].counted = window
      BY <1>5, <1>6, <2>1, SetsFinite, OneFewer
    <2>2. CASE row[r].counted # window
      BY <1>5, <2>2, SetsFinite, SetsFiniteNext, Fewer
    <2> QED
      BY <2>1, <2>2
  <1>8. /\ UnitsCovered' /\ CapHolds'
        /\ count' \in Nat /\ headroom' \in Nat
    BY <1>1, <1>4, <1>7, SetsFinite, SetsFiniteNext, DecrementCovers DEF IInv, CapInv
  <1>9. TypeOK'
    BY <1>1, <1>2, <1>8 DEF IInv, TypeOK
  <1>10. WindowsPast' /\ SlotsOfCancelled'
    BY <1>1, <1>2, <1>3 DEF IInv, CapInv, WindowsPast, SlotsOfCancelled
  <1>11. KnownHolds' /\ LinksSpent' /\ OneResumeWins'
    BY <1>1 DEF IInv, KnownHolds, Knows, LinksSpent, OneResumeWins
  <1> QED
    BY <1>8, <1>9, <1>10, <1>11 DEF IInv, CapInv

-----------------------------------------------------------------------------
(* Holds: the checkout page *)

\* A reply that makes no claim to a unit: all but the admission of a hold.
LEMMA ReplyKeeps ==
    ASSUME IInv, NEW b \in Browsers, NEW q \in Requests, Reply(b, q),
           q.op \in {"create", "undo"} =>
              \/ q.counted = NoWindow
              \/ /\ req[b].op \in {"create", "undo"} /\ q.counted = req[b].counted
                 /\ q.op = "create" => req[b].op = "create"
    PROVE  TabsKeep
  <1>1. req \in [Browsers -> Requests]
    BY DEF IInv, TypeOK
  <1>2. req'[b] = q /\ \A d \in Browsers \ {b} : req'[d] = req[d]
    BY <1>1, Replies
  <1> QED
    BY <1>2 DEF TabsKeep

\* The page waits for something else, the rows stay.
LEMMA TurnStep ==
    ASSUME IInv, NEW b \in Browsers, NEW q \in Requests, Reply(b, q),
           UNCHANGED <<row, mapping, slot, held, winners, counterVars>>,
           q.op \in {"create", "undo"} =>
              \/ q.counted = NoWindow
              \/ /\ req[b].op \in {"create", "undo"} /\ q.counted = req[b].counted
                 /\ q.op = "create" => req[b].op = "create",
           q.op \in Making => held[b] = NoReg,
           req[b].op \in {"bind", "answer"} => q.op \in {"bind", "answer"} /\ q.reg = req[b].reg
    PROVE  IInv'
  <1>1. req' \in [Browsers -> Requests] /\ req'[b] = q
        /\ \A d \in Browsers \ {b} : req'[d] = req[d]
    BY Replies DEF IInv, TypeOK
  <1>2. TypeOK'
    BY <1>1 DEF IInv, TypeOK, counterVars
  <1>3. SameRows /\ RegsKeep /\ TabsKeep
    BY ReplyKeeps DEF SameRows, RegsKeep, IInv, CapInv, SlotsOfCancelled
  <1>4. Knows(b)'
    BY <1>1 DEF IInv, KnownHolds, Knows
  <1>5. KnownHolds'
    BY <1>1, <1>3, <1>4, SameKeeps, OneTab DEF IInv
  <1> QED
    BY <1>2, <1>3, <1>5, SameKeeps, QuietStep

LEMMA TurnSteps ==
    ASSUME IInv, NEW b \in Browsers,
           \/ \E c \in Choices : Start(b, c)
           \/ Reuses(b) \/ AcquireFails(b) \/ CreateFails(b)
           \/ \E r \in RegIds : ResumeReads(b, r)
    PROVE  IInv'
  <1>0. req[b] \in Requests /\ Knows(b)
    BY DEF IInv, TypeOK, KnownHolds
  <1>1. CASE \E c \in Choices : Start(b, c)
    <2>1. /\ req[b] = Idle /\ UNCHANGED <<row, mapping, slot, held, winners, counterVars>>
          /\ \E o \in {"read", "cancel", "acquire"} :
                Reply(b, [op |-> o]) /\ (o = "acquire" => held[b] = NoReg)
      BY <1>1 DEF Start
    <2>2. PICK o \in {"read", "cancel", "acquire"} :
                Reply(b, [op |-> o]) /\ (o = "acquire" => held[b] = NoReg)
      BY <2>1
    <2> DEFINE q == [op |-> o]
    <2>3. q \in Requests /\ q.op = o /\ Reply(b, q)
      BY <2>2, NewRequests
    <2> HIDE DEF q
    <2> QED
      BY <2>1, <2>2, <2>3, NewRequests, TurnStep DEF Making
  <1>2. CASE Reuses(b)
    BY <1>2, NewRequests, TurnStep DEF Reuses, Making
  <1>3. CASE AcquireFails(b)
    <2> DEFINE q == [op |-> "create", counted |-> NoWindow]
    <2>1. q \in Requests /\ q.op = "create" /\ q.counted = NoWindow /\ Reply(b, q)
      BY <1>3, NewRequests DEF AcquireFails, FailsOpen
    <2> HIDE DEF q
    <2>2. held[b] = NoReg /\ req[b].op = "acquire"
      BY <1>0, <1>3 DEF AcquireFails, FailsOpen, Knows, Making
    <2>3. UNCHANGED <<row, mapping, slot, held, winners, counterVars>>
      BY <1>3 DEF AcquireFails, FailsOpen, counterVars
    <2> QED
      BY <2>1, <2>2, <2>3, TurnStep
  <1>4. CASE CreateFails(b)
    <2>1. /\ req[b].op = "create" /\ held[b] = NoReg
          /\ UNCHANGED <<row, mapping, slot, held, winners, counterVars>>
      BY <1>0, <1>4 DEF CreateFails, CreateThrows, Knows, Making, counterVars
    <2>2. CASE Reply(b, Idle)
      BY <2>1, <2>2, NewRequests, TurnStep
    <2>3. CASE Reply(b, [req[b] EXCEPT !.op = "undo"])
      <3> DEFINE q == [req[b] EXCEPT !.op = "undo"]
      <3>1. q \in Requests /\ q.op = "undo" /\ q.counted = req[b].counted /\ Reply(b, q)
        BY <1>0, <2>1, <2>3, NextRequests
      <3> HIDE DEF q
      <3> QED
        BY <2>1, <3>1, TurnStep
    <2> QED
      BY <1>4, <2>2, <2>3 DEF CreateFails, CreateThrows
  <1>5. CASE \E r \in RegIds : ResumeReads(b, r)
    <2>1. PICK r \in RegIds : ResumeReads(b, r)
      BY <1>5
    <2>2. row[r].token \in Tokens
      BY DEF IInv, TypeOK, Row
    <2> DEFINE q == [op |-> "rotate", reg |-> r, seen |-> row[r].token]
    <2>3. q \in Requests /\ q.op = "rotate" /\ Reply(b, q)
      BY <2>1, <2>2, NewRequests DEF ResumeReads
    <2> HIDE DEF q
    <2>4. req[b] = Idle /\ UNCHANGED <<row, mapping, slot, held, winners, counterVars>>
      BY <2>1 DEF ResumeReads
    <2> QED
      BY <2>3, <2>4, NewRequests, TurnStep DEF Making
  <1> QED
    BY <1>1, <1>2, <1>3, <1>4, <1>5

\* The tab goes on without the hold it remembered, which is its no more.
LEMMA ForgetStep ==
    ASSUME IInv, NEW b \in Browsers, ReadFails(b) \/ CancelFails(b)
    PROVE  IInv'
  <1>1. /\ Forget(b) /\ Loses(held[b]) /\ Reply(b, [op |-> "acquire"])
        /\ req[b].op \in {"read", "cancel"}
        /\ UNCHANGED <<mapping, slot, winners, counterVars>>
    BY DEF ReadFails, CancelFails
  <1>2. /\ held[b] \in RegIds \cup {NoReg} /\ row \in [RegIds -> Row]
        /\ held \in [Browsers -> RegIds \cup {NoReg}]
    BY DEF IInv, TypeOK
  <1>3. /\ row' \in [RegIds -> Row] /\ SameRows
        /\ held[b] \in RegIds /\ Live(held[b]) => row'[held[b]].by = {}
    BY <1>1, <1>2, LosesWrites
  <1>4. /\ held' \in [Browsers -> RegIds \cup {NoReg}] /\ held'[b] = NoReg
        /\ \A d \in Browsers \ {b} : held'[d] = held[d]
    BY <1>1, <1>2 DEF Forget
  <1> DEFINE q == [op |-> "acquire"]
  <1>5. q \in Requests /\ q.op = "acquire" /\ Reply(b, q)
    BY <1>1, NewRequests
  <1> HIDE DEF q
  <1>6. req' \in [Browsers -> Requests] /\ req'[b] = q
        /\ \A d \in Browsers \ {b} : req'[d] = req[d]
    BY <1>5, Replies DEF IInv, TypeOK
  <1>7. TypeOK'
    BY <1>1, <1>3, <1>4, <1>6 DEF IInv, TypeOK, counterVars
  <1>8. RegsKeep /\ TabsKeep
    BY <1>1, <1>3, <1>5, ReplyKeeps DEF SameRows, RegsKeep, IInv, CapInv, SlotsOfCancelled
  <1>9. Knows(b)'
    <2>1. ASSUME NEW r \in RegIds, row'[r].status = "pending_payment", b \in row'[r].by
          PROVE  FALSE
      <3>1. row[r].status = "pending_payment" /\ b \in row[r].by
        BY <1>3, <2>1 DEF SameRows
      <3>2. r = held[b]
        BY <1>1, <3>1 DEF IInv, KnownHolds, Knows
      <3>3. Live(r)
        BY <3>1 DEF Live, NoReg, RegIds
      <3> QED
        BY <1>3, <2>1, <3>2, <3>3
    <2> QED
      BY <1>4, <2>1 DEF Knows
  <1>10. KnownHolds'
    BY <1>3, <1>4, <1>6, <1>9, SameKeeps, OneTab DEF IInv
  <1> QED
    BY <1>1, <1>3, <1>7, <1>8, <1>10, SameKeeps, QuietStep

\* The old hold is cancelled before the new one is asked for.
LEMMA CancelStep ==
    ASSUME IInv, NEW b \in Browsers, CancelsOld(b)
    PROVE  IInv'
  <1>1. /\ Forget(b) /\ Live(held[b]) /\ Released(held[b]) /\ Reply(b, [op |-> "acquire"])
        /\ req[b].op = "cancel"
        /\ UNCHANGED <<mapping, winners, counterVars>>
    BY DEF CancelsOld
  <1>2. /\ held[b] \in RegIds /\ held \in [Browsers -> RegIds \cup {NoReg}]
        /\ row[held[b]].status = "pending_payment"
    BY <1>1 DEF IInv, TypeOK, Live
  <1>3. /\ row' \in [RegIds -> Row] /\ slot' \in [RegIds -> {"kept", "get", "decrement"}]
        /\ OnlyStatus(held[b], "cancelled") /\ RegsKeep
    BY <1>1, <1>2, ReleaseKeeps
  <1>4. /\ \A d \in Browsers : ShrinksFor(d)
        /\ \A p \in RegIds : /\ row'[p].token = row[p].token
                             /\ row'[p].status = "absent" => row[p].status = "absent"
    BY <1>2, <1>3, StatusKeeps
  <1>5. /\ held' \in [Browsers -> RegIds \cup {NoReg}] /\ held'[b] = NoReg
        /\ \A d \in Browsers \ {b} : held'[d] = held[d]
    BY <1>1, <1>2 DEF Forget
  <1> DEFINE q == [op |-> "acquire"]
  <1>6. q \in Requests /\ q.op = "acquire" /\ Reply(b, q)
    BY <1>1, NewRequests
  <1> HIDE DEF q
  <1>7. req' \in [Browsers -> Requests] /\ req'[b] = q
        /\ \A d \in Browsers \ {b} : req'[d] = req[d]
    BY <1>6, Replies DEF IInv, TypeOK
  <1>8. TypeOK'
    BY <1>1, <1>3, <1>5, <1>7 DEF IInv, TypeOK, counterVars
  <1>9. TabsKeep
    BY <1>6, ReplyKeeps
  <1>10. Knows(b)'
    <2>1. ASSUME NEW r \in RegIds, row'[r].status = "pending_payment", b \in row'[r].by
          PROVE  FALSE
      <3>1. row[r].status = "pending_payment" /\ b \in row[r].by
        BY <1>4, <2>1 DEF ShrinksFor
      <3>2. r = held[b]
        BY <1>1, <3>1 DEF IInv, KnownHolds, Knows
      <3> QED
        BY <1>3, <2>1, <3>2 DEF OnlyStatus
    <2> QED
      BY <1>5, <2>1 DEF Knows
  <1>11. KnownHolds'
    BY <1>4, <1>5, <1>7, <1>10, OneTab DEF IInv
  <1> QED
    BY <1>1, <1>3, <1>4, <1>8, <1>9, <1>11, QuietStep

LEMMA PayStep ==
    ASSUME IInv, NEW b \in Browsers, NEW r \in RegIds, Pay(b, r)
    PROVE  IInv'
  <1>1. /\ row[r].status = "pending_payment" /\ row' = [row EXCEPT ![r].status = "paid"]
        /\ UNCHANGED <<mapping, slot, winners, counterVars, pageVars>>
    BY DEF Pay
  <1>2. row' \in [RegIds -> Row] /\ OnlyStatus(r, "paid")
    BY <1>1, StatusWrites DEF IInv, TypeOK
  <1>3. TypeOK'
    BY <1>1, <1>2 DEF IInv, TypeOK, counterVars, pageVars
  <1>4. RegsKeep
    BY <1>1, <1>2 DEF RegsKeep, OnlyStatus, IInv, CapInv, SlotsOfCancelled
  <1> QED
    BY <1>1, <1>2, <1>3, <1>4, StatusKeeps, PagesAlone, QuietStep

LEMMA LostStep ==
    ASSUME IInv, NEW b \in Browsers, CallLost(b)
    PROVE  IInv'
  <1>0. req[b] \in Requests /\ Knows(b) /\ row \in [RegIds -> Row]
    BY DEF IInv, TypeOK, KnownHolds
  <1>1. /\ req[b].op \notin {"idle", "read", "cancel"} /\ Reply(b, Idle)
        /\ UNCHANGED <<mapping, slot, held, winners, counterVars>>
    BY DEF CallLost
  <1>2. /\ row' \in [RegIds -> Row] /\ SameRows
        /\ req[b].op \in {"bind", "answer"} /\ Live(req[b].reg) => row'[req[b].reg].by = {}
    <2>1. CASE req[b].op \in {"bind", "answer"}
      <3>1. req[b].reg \in RegIds \cup {NoReg} /\ req[b].reg \in RegIds /\ Loses(req[b].reg)
        BY <1>0, <2>1, RequestTypes DEF CallLost
      <3> QED
        BY <1>0, <3>1, LosesWrites
    <2>2. CASE req[b].op \notin {"bind", "answer"}
      BY <1>0, <2>2 DEF CallLost, SameRows
    <2> QED
      BY <2>1, <2>2
  <1>3. req' \in [Browsers -> Requests] /\ req'[b] = Idle
        /\ \A d \in Browsers \ {b} : req'[d] = req[d]
    BY <1>1, Replies, NewRequests DEF IInv, TypeOK
  <1>4. TypeOK'
    BY <1>1, <1>2, <1>3 DEF IInv, TypeOK, counterVars
  <1>5. RegsKeep /\ TabsKeep
    BY <1>1, <1>2, NewRequests, ReplyKeeps
    DEF SameRows, RegsKeep, IInv, CapInv, SlotsOfCancelled
  <1>6. Knows(b)'
    <2>1. ASSUME NEW r \in RegIds, row'[r].status = "pending_payment", b \in row'[r].by
          PROVE  r = held[b]
      <3>1. row[r].status = "pending_payment" /\ b \in row[r].by
        BY <1>2, <2>1 DEF SameRows
      <3>2. r = held[b] \/ (req[b].op \in {"bind", "answer"} /\ req[b].reg = r)
        BY <1>0, <3>1 DEF Knows
      <3>3. Live(r)
        BY <3>1 DEF Live, NoReg, RegIds
      <3> QED
        BY <1>2, <2>1, <3>2, <3>3
    <2> QED
      BY <1>1, <1>3, <2>1, NewRequests DEF Knows, Making
  <1>7. KnownHolds'
    BY <1>1, <1>2, <1>3, <1>6, SameKeeps, OneTab DEF IInv
  <1> QED
    BY <1>1, <1>2, <1>4, <1>5, <1>7, SameKeeps, QuietStep

LEMMA BindStep ==
    ASSUME IInv, NEW b \in Browsers, Bind(b)
    PROVE  IInv'
  <1>0. req[b] \in Requests /\ Knows(b)
    BY DEF IInv, TypeOK, KnownHolds
  <1>1. /\ req[b].op = "bind" /\ req[b].reg \in RegIds
        /\ mapping' = [mapping EXCEPT ![req[b].reg] = window]
        /\ UNCHANGED <<row, slot, held, winners, counterVars>>
    BY <1>0, RequestTypes DEF Bind
  <1>2. PICK q \in Requests : q.op = "answer" /\ q.reg = req[b].reg /\ Reply(b, q)
    BY <1>0, <1>1, NextRequests DEF Bind
  <1>3. req' \in [Browsers -> Requests] /\ req'[b] = q
        /\ \A d \in Browsers \ {b} : req'[d] = req[d]
    BY <1>2, Replies DEF IInv, TypeOK
  <1>4. TypeOK'
    BY <1>1, <1>3 DEF IInv, TypeOK, counterVars
  <1>5. SameRows /\ RegsKeep /\ TabsKeep
    BY <1>1, <1>2, ReplyKeeps DEF SameRows, RegsKeep, IInv, CapInv, SlotsOfCancelled
  <1>6. Knows(b)'
    BY <1>0, <1>1, <1>2, <1>3 DEF Knows, Making
  <1>7. KnownHolds'
    BY <1>1, <1>3, <1>5, <1>6, SameKeeps, OneTab DEF IInv
  <1> QED
    BY <1>1, <1>4, <1>5, <1>7, SameKeeps, QuietStep

\* The answer arrived: what the tab had under way is what it remembers.
LEMMA AnswerStep ==
    ASSUME IInv, NEW b \in Browsers, Answer(b)
    PROVE  IInv'
  <1>0. req[b] \in Requests /\ Knows(b)
    BY DEF IInv, TypeOK, KnownHolds
  <1>1. /\ req[b].op = "answer" /\ req[b].reg \in RegIds /\ Reply(b, Idle)
        /\ held' = [held EXCEPT ![b] = req[b].reg]
        /\ UNCHANGED <<row, mapping, slot, winners, counterVars>>
    BY <1>0, RequestTypes DEF Answer, Remembers, Remember
  <1>2. req' \in [Browsers -> Requests] /\ req'[b] = Idle
        /\ \A d \in Browsers \ {b} : req'[d] = req[d]
    BY <1>1, Replies, NewRequests DEF IInv, TypeOK
  <1>3. /\ held' \in [Browsers -> RegIds \cup {NoReg}] /\ held'[b] = req[b].reg
        /\ \A d \in Browsers \ {b} : held'[d] = held[d]
    BY <1>1 DEF IInv, TypeOK
  <1>4. TypeOK'
    BY <1>1, <1>2, <1>3 DEF IInv, TypeOK, counterVars
  <1>5. SameRows /\ RegsKeep /\ TabsKeep
    BY <1>1, NewRequests, ReplyKeeps DEF SameRows, RegsKeep, IInv, CapInv, SlotsOfCancelled
  <1>6. Knows(b)'
    <2>1. held[b] = NoReg /\ NoReg \notin RegIds
      BY <1>0, <1>1 DEF Knows, Making, NoReg, RegIds
    <2> QED
      BY <1>0, <1>1, <1>2, <1>3, <2>1, NewRequests DEF Knows, Making
  <1>7. KnownHolds'
    BY <1>2, <1>3, <1>5, <1>6, SameKeeps, OneTab DEF IInv
  <1> QED
    BY <1>1, <1>4, <1>5, <1>7, SameKeeps, QuietStep

\* One more is counted; it is admitted only below the cap.
LEMMA AcquireStep ==
    ASSUME IInv, NEW b \in Browsers, Acquire(b)
    PROVE  IInv'
  <1>0. Knows(b) /\ count \in Nat /\ headroom \in Nat /\ HoldsPerIp \in Nat /\ window \in Windows
    BY GuestHoldsAssumption DEF IInv, TypeOK, KnownHolds
  <1>1. /\ req[b].op = "acquire" /\ count' = count + 1
        /\ UNCHANGED <<row, mapping, slot, held, window, headroom, winners>>
    BY DEF Acquire
  <1>2. PICK o \in {"create", "undo"} :
           /\ Reply(b, [op |-> o, counted |-> window])
           /\ o = "create" => count + 1 <= HoldsPerIp
    BY DEF Acquire, Admits
  <1>3. PICK q \in Requests : q.op = o /\ q.counted = window /\ Reply(b, q)
    BY <1>0, <1>2, NewRequests
  <1>4. req' \in [Browsers -> Requests] /\ req'[b] = q
        /\ \A d \in Browsers \ {b} : req'[d] = req[d]
    BY <1>3, Replies DEF IInv, TypeOK
  <1>5. TypeOK'
    BY <1>0, <1>1, <1>4 DEF IInv, TypeOK
  <1>6. Units' = Units /\ Counted' = Counted
    BY <1>1 DEF Units, Counted
  <1>7. b \notin Pending /\ b \notin Admitted
    BY <1>1 DEF Pending, Admitted
  <1>8. Pending' = Pending \cup {b}
    BY <1>1, <1>3, <1>4 DEF Pending
  <1>9. Admitted' = IF o = "create" THEN Admitted \cup {b} ELSE Admitted
    BY <1>1, <1>3, <1>4, <1>7 DEF Admitted
  <1>10. /\ Cardinality(Pending') = Cardinality(Pending) + 1
         /\ Cardinality(Admitted') = Cardinality(Admitted) + IF o = "create" THEN 1 ELSE 0
    <2>1. /\ IsFiniteSet(Pending) /\ IsFiniteSet(Admitted)
          /\ Cardinality(Pending) \in Nat /\ Cardinality(Admitted) \in Nat
      BY SetsFinite
    <2>2. Cardinality(Pending \cup {b}) = Cardinality(Pending) + 1
      BY <1>7, <2>1, FS_AddElement
    <2>3. Cardinality(Admitted \cup {b}) = Cardinality(Admitted) + 1
      BY <1>7, <2>1, FS_AddElement
    <2> QED
      BY <1>8, <1>9, <2>1, <2>2, <2>3
  <1>11. UnitsCovered'
    BY <1>0, <1>1, <1>6, <1>10, SetsFinite DEF IInv, CapInv, UnitsCovered
  <1>12. CapHolds'
    <2>1. CASE o = "create"
      <3>1. /\ Cardinality(Counted) <= Cardinality(Units)
            /\ Cardinality(Admitted) <= Cardinality(Pending)
        BY SetsFinite, Fewer
      <3>2. Cardinality(Units) + Cardinality(Pending) <= count + headroom
        BY DEF IInv, CapInv, UnitsCovered
      <3>3. count + 1 <= HoldsPerIp /\ Cardinality(Admitted') = Cardinality(Admitted) + 1
        BY <1>2, <1>10, <2>1
      <3>4. Cardinality(Counted) + (Cardinality(Admitted) + 1) <= HoldsPerIp + headroom
        BY <1>0, <3>1, <3>2, <3>3, SetsFinite
      <3> QED
        BY <1>1, <1>6, <3>3, <3>4 DEF CapHolds
    <2>2. CASE o # "create"
      BY <1>1, <1>6, <1>9, <2>2 DEF IInv, CapInv, CapHolds
    <2> QED
      BY <2>1, <2>2
  <1>13. WindowsPast' /\ SlotsOfCancelled'
    <2>1. window <= window
      BY <1>0 DEF Windows
    <2> QED
      BY <1>1, <1>3, <1>4, <2>1 DEF IInv, CapInv, WindowsPast, SlotsOfCancelled
  <1>14. SameRows
    BY <1>1 DEF SameRows
  <1>15. KnownHolds'
    <2>1. Knows(b)'
      BY <1>0, <1>1, <1>3, <1>4 DEF Knows, Making
    <2> QED
      BY <1>1, <1>4, <1>14, <2>1, SameKeeps, OneTab DEF IInv
  <1>16. LinksSpent' /\ OneResumeWins'
    BY <1>1, <1>14, SameKeeps, LinksQuiet DEF IInv
  <1> QED
    BY <1>5, <1>11, <1>12, <1>13, <1>15, <1>16 DEF IInv, CapInv

LEMMA UndoStep ==
    ASSUME IInv, NEW b \in Browsers, Undo(b)
    PROVE  IInv'
  <1>0. Knows(b)
    BY DEF IInv, KnownHolds
  <1>1. /\ req[b].op = "undo" /\ Decrement(req[b].counted) /\ Reply(b, Idle)
        /\ UNCHANGED <<row, mapping, slot, held, winners>>
    BY DEF Undo
  <1>2. req' \in [Browsers -> Requests] /\ req'[b] = Idle
        /\ \A d \in Browsers \ {b} : req'[d] = req[d]
    BY <1>1, Replies, NewRequests DEF IInv, TypeOK
  <1>3. window' = window
    BY <1>1 DEF Decrement
  <1>4. Units' = Units /\ Counted' = Counted
    BY <1>1, <1>3 DEF Units, Counted
  <1>5. Pending' \subseteq Pending \ {b} /\ Admitted' \subseteq Admitted
    BY <1>2, <1>3, NewRequests DEF Pending, Admitted
  <1>6. req[b].counted = window => b \in Pending
    BY <1>1 DEF Pending
  <1>7. Cardinality(Pending')
          <= Cardinality(Pending) - (IF req[b].counted = window THEN 1 ELSE 0)
    <2>1. CASE req[b].counted = window
      BY <1>5, <1>6, <2>1, SetsFinite, OneFewer
    <2>2. CASE req[b].counted # window
      BY <1>5, <2>2, SetsFinite, SetsFiniteNext, Fewer
    <2> QED
      BY <2>1, <2>2
  <1>8. /\ UnitsCovered' /\ CapHolds'
        /\ count' \in Nat /\ headroom' \in Nat
    BY <1>1, <1>4, <1>5, <1>7, SetsFinite, SetsFiniteNext, DecrementCovers DEF IInv, CapInv
  <1>9. TypeOK'
    BY <1>1, <1>2, <1>3, <1>8 DEF IInv, TypeOK
  <1>10. WindowsPast' /\ SlotsOfCancelled'
    BY <1>1, <1>2, <1>3, NewRequests DEF IInv, CapInv, WindowsPast, SlotsOfCancelled
  <1>11. SameRows
    BY <1>1 DEF SameRows
  <1>12. KnownHolds'
    <2>1. Knows(b)'
      BY <1>0, <1>1, <1>2, NewRequests DEF Knows, Making
    <2> QED
      BY <1>1, <1>2, <1>11, <2>1, SameKeeps, OneTab DEF IInv
  <1>13. LinksSpent' /\ OneResumeWins'
    BY <1>1, <1>11, SameKeeps, LinksQuiet DEF IInv
  <1> QED
    BY <1>8, <1>9, <1>10, <1>12, <1>13 DEF IInv, CapInv

\* What the insertion of a hold does, however its checkout goes on.
LEMMA InsertKeeps ==
    ASSUME IInv, NEW b \in Browsers, NEW r \in RegIds, NEW k \in SUBSET Browsers,
           NEW q \in Requests, Inserts(b, r, k), Reply(b, q), headroom' \in Nat,
           UNCHANGED <<mapping, slot, held, winners, count, window>>,
           q.op # "create", q.op = "undo" => q.counted = req[b].counted
    PROVE  /\ TypeOK' /\ WindowsPast' /\ SlotsOfCancelled' /\ LinksSpent' /\ OneResumeWins'
           /\ req[b].op = "create" /\ held[b] = NoReg
           /\ req'[b] = q /\ \A d \in Browsers \ {b} : req'[d] = req[d]
           /\ row'[r].by = k /\ \A p \in RegIds \ {r} : row'[p] = row[p]
           /\ r \notin Units /\ r \notin Counted
           /\ Units' = IF req[b].counted = window THEN Units \cup {r} ELSE Units
           /\ Counted' = IF req[b].counted = window THEN Counted \cup {r} ELSE Counted
  <1>0. req[b] \in Requests /\ Knows(b) /\ row \in [RegIds -> Row]
    BY DEF IInv, TypeOK, KnownHolds
  <1>1. /\ req[b].op = "create" /\ row[r].status = "absent"
        /\ req[b].counted \in Windows \cup {NoWindow}
        /\ UNCHANGED <<mapping, slot, held, winners, count, window>>
    BY <1>0, RequestTypes DEF Inserts
  <1>2. PICK w \in Windows \cup {NoWindow} : w = req[b].counted
    BY <1>1
  <1>3. row' = [row EXCEPT ![r] = [status |-> "pending_payment", token |-> 1, opens |-> k,
                                   by |-> k, counted |-> w]]
    BY <1>2 DEF Inserts
  <1>4. req' \in [Browsers -> Requests] /\ req'[b] = q
        /\ \A d \in Browsers \ {b} : req'[d] = req[d]
    BY Replies DEF IInv, TypeOK
  <1>5. /\ row' \in [RegIds -> Row]
        /\ row'[r].status = "pending_payment" /\ row'[r].token = 1
        /\ row'[r].by = k /\ row'[r].counted = w
        /\ \A p \in RegIds \ {r} : row'[p] = row[p]
    BY <1>0, <1>3, InsertWrites
  <1>6. TypeOK'
    BY <1>1, <1>4, <1>5 DEF IInv, TypeOK
  <1>7. slot[r] = "kept" /\ row[r].token = 1 /\ w <= window
    BY <1>1, <1>2 DEF IInv, CapInv, SlotsOfCancelled, LinksSpent, WindowsPast
  <1>8. WindowsPast'
    BY <1>1, <1>2, <1>4, <1>5, <1>7 DEF IInv, CapInv, WindowsPast
  <1>9. SlotsOfCancelled'
    BY <1>1, <1>5, <1>7 DEF IInv, CapInv, SlotsOfCancelled
  <1>10. LinksSpent' /\ OneResumeWins'
    BY <1>1, <1>5, <1>7, LinksQuiet DEF IInv
  <1>11. r \notin Units /\ r \notin Counted
    BY <1>1, <1>7 DEF Units, Counted
  <1>12. /\ Units' = IF w = window THEN Units \cup {r} ELSE Units
         /\ Counted' = IF w = window THEN Counted \cup {r} ELSE Counted
    <2>1. CASE w = window
      BY <1>1, <1>5, <2>1 DEF Units, Counted
    <2>2. CASE w # window
      BY <1>1, <1>5, <1>11, <2>2 DEF Units, Counted
    <2> QED
      BY <2>1, <2>2
  <1>13. held[b] = NoReg
    BY <1>0, <1>1 DEF Knows, Making
  <1> QED
    BY <1>1, <1>2, <1>4, <1>5, <1>6, <1>8, <1>9, <1>10, <1>11, <1>12, <1>13

\* The tab knows of the hold it inserted, if of any.
LEMMA InsertKnown ==
    ASSUME IInv, NEW b \in Browsers, NEW r \in RegIds, NEW k \in SUBSET {b},
           req[b].op = "create", held[b] = NoReg, held' = held,
           \A d \in Browsers \ {b} : req'[d] = req[d],
           row'[r].by = k, \A p \in RegIds \ {r} : row'[p] = row[p],
           k = {b} => req'[b].op \in {"bind", "answer"} /\ req'[b].reg = r
    PROVE  KnownHolds'
  <1>0. Knows(b)
    BY DEF IInv, KnownHolds
  <1>1. \A d \in Browsers \ {b} : ShrinksFor(d)
    BY DEF ShrinksFor
  <1>2. NoReg \notin RegIds
    BY DEF NoReg, RegIds
  <1>3. ASSUME NEW p \in RegIds \ {r}, row'[p].status = "pending_payment", b \in row'[p].by
        PROVE  FALSE
    BY <1>0, <1>2, <1>3 DEF Knows
  <1>4. Knows(b)'
    BY <1>3 DEF Knows
  <1> QED
    BY <1>1, <1>4, OneTab DEF IInv

\* What was admitted is stored, and stays one unit.
LEMMA CreateStep ==
    ASSUME IInv, NEW b \in Browsers, NEW r \in RegIds, Create(b, r)
    PROVE  IInv'
  <1>1. /\ Inserts(b, r, {b}) /\ req[b].op = "create" /\ headroom' \in Nat
        /\ UNCHANGED <<mapping, slot, held, winners, count, window, headroom>>
    BY DEF Create, Inserts, counterVars, IInv, TypeOK
  <1>2. PICK q \in Requests : q.op \in {"bind", "answer"} /\ q.reg = r /\ Reply(b, q)
    BY <1>1, NewRequests DEF Create
  <1>3. /\ TypeOK' /\ WindowsPast' /\ SlotsOfCancelled' /\ LinksSpent' /\ OneResumeWins'
        /\ held[b] = NoReg
        /\ req'[b] = q /\ \A d \in Browsers \ {b} : req'[d] = req[d]
        /\ row'[r].by = {b} /\ \A p \in RegIds \ {r} : row'[p] = row[p]
        /\ r \notin Units /\ r \notin Counted
        /\ Units' = IF req[b].counted = window THEN Units \cup {r} ELSE Units
        /\ Counted' = IF req[b].counted = window THEN Counted \cup {r} ELSE Counted
    BY <1>1, <1>2, InsertKeeps
  <1>4. KnownHolds'
    BY <1>1, <1>2, <1>3, InsertKnown
  <1>5. UnitsCovered' /\ CapHolds'
    <2>0. /\ count \in Nat /\ headroom \in Nat /\ HoldsPerIp \in Nat
          /\ count' = count /\ headroom' = headroom
      BY <1>1, GuestHoldsAssumption DEF IInv, TypeOK
    <2>1. Pending' = Pending \ {b} /\ Admitted' = Admitted \ {b}
      BY <1>1, <1>2, <1>3 DEF Pending, Admitted
    <2>2. CASE req[b].counted = window
      <3>1. b \in Pending /\ b \in Admitted
        BY <1>1, <2>2 DEF Pending, Admitted
      <3>2. /\ Cardinality(Units') = Cardinality(Units) + 1
            /\ Cardinality(Counted') = Cardinality(Counted) + 1
        BY <1>3, <2>2, SetsFinite, FS_AddElement
      <3>3. /\ Cardinality(Pending') = Cardinality(Pending) - 1
            /\ Cardinality(Admitted') = Cardinality(Admitted) - 1
        BY <2>1, <3>1, SetsFinite, FS_RemoveElement
      <3>4. UnitsCovered'
        BY <2>0, <3>2, <3>3, SetsFinite DEF IInv, CapInv, UnitsCovered
      <3> QED
        BY <2>0, <3>2, <3>3, <3>4, SetsFinite DEF IInv, CapInv, CapHolds
    <2>3. CASE req[b].counted # window
      <3>1. b \notin Pending /\ b \notin Admitted
        BY <2>3 DEF Pending, Admitted
      <3>2. /\ Units' = Units /\ Counted' = Counted
            /\ Pending' = Pending /\ Admitted' = Admitted
        BY <1>3, <2>1, <2>3, <3>1
      <3> QED
        BY <2>0, <3>2 DEF IInv, CapInv, UnitsCovered, CapHolds
    <2> QED
      BY <2>2, <2>3
  <1> QED
    BY <1>3, <1>4, <1>5 DEF IInv, CapInv

\* The hold stays while its unit is about to be given back: headroom makes up for it.
LEMMA CreateFailsLateStep ==
    ASSUME IInv, NEW b \in Browsers, NEW r \in RegIds, CreateFailsLate(b, r)
    PROVE  IInv'
  <1>0. /\ count \in Nat /\ headroom \in Nat /\ HoldsPerIp \in Nat /\ req[b] \in Requests
    BY GuestHoldsAssumption DEF IInv, TypeOK
  <1>1. /\ Inserts(b, r, {}) /\ req[b].op = "create"
        /\ headroom' = IF req[b].counted = window THEN headroom + 1 ELSE headroom
        /\ UNCHANGED <<mapping, slot, held, winners, count, window>>
    BY DEF CreateFailsLate, CreateThrows, Inserts
  <1>2. PICK q \in Requests : /\ Reply(b, q)
                              /\ \/ q.op = "idle" /\ req[b].counted = NoWindow
                                 \/ q.op = "undo" /\ q.counted = req[b].counted
    BY <1>0, <1>1, NewRequests, NextRequests DEF CreateFailsLate, CreateThrows
  <1>3. /\ TypeOK' /\ WindowsPast' /\ SlotsOfCancelled' /\ LinksSpent' /\ OneResumeWins'
        /\ held[b] = NoReg
        /\ req'[b] = q /\ \A d \in Browsers \ {b} : req'[d] = req[d]
        /\ row'[r].by = {} /\ \A p \in RegIds \ {r} : row'[p] = row[p]
        /\ r \notin Units /\ r \notin Counted
        /\ Units' = IF req[b].counted = window THEN Units \cup {r} ELSE Units
        /\ Counted' = IF req[b].counted = window THEN Counted \cup {r} ELSE Counted
    <2>1. headroom' \in Nat
      BY <1>0, <1>1
    <2> QED
      BY <1>1, <1>2, <2>1, InsertKeeps
  <1>4. KnownHolds'
    BY <1>1, <1>3, InsertKnown
  <1>5. UnitsCovered' /\ CapHolds'
    <2>1. NoWindow # window
      BY DEF IInv, TypeOK, Windows, NoWindow
    <2>2. Pending' = Pending /\ Admitted' = Admitted \ {b}
      BY <1>1, <1>2, <1>3, <2>1 DEF Pending, Admitted
    <2>3. CASE req[b].counted = window
      <3>1. b \in Admitted
        BY <1>1, <2>3 DEF Admitted
      <3>2. /\ Cardinality(Units') = Cardinality(Units) + 1
            /\ Cardinality(Counted') = Cardinality(Counted) + 1
        BY <1>3, <2>3, SetsFinite, FS_AddElement
      <3>3. Cardinality(Admitted') = Cardinality(Admitted) - 1
        BY <2>2, <3>1, SetsFinite, FS_RemoveElement
      <3>4. headroom' = headroom + 1 /\ count' = count
        BY <1>1, <2>3
      <3>5. UnitsCovered'
        BY <1>0, <2>2, <3>2, <3>4, SetsFinite DEF IInv, CapInv, UnitsCovered
      <3> QED
        BY <1>0, <3>2, <3>3, <3>4, <3>5, SetsFinite DEF IInv, CapInv, CapHolds
    <2>4. CASE req[b].counted # window
      <3>1. b \notin Admitted
        BY <2>4 DEF Admitted
      <3>2. /\ Units' = Units /\ Counted' = Counted
            /\ Pending' = Pending /\ Admitted' = Admitted
            /\ headroom' = headroom /\ count' = count
        BY <1>1, <1>3, <2>2, <2>4, <3>1
      <3> QED
        BY <3>2 DEF IInv, CapInv, UnitsCovered, CapHolds
    <2> QED
      BY <2>3, <2>4
  <1> QED
    BY <1>3, <1>4, <1>5 DEF IInv, CapInv

\* The counter may have one more than it answered for.
LEMMA AcquireLateStep ==
    ASSUME IInv, NEW b \in Browsers, AcquireFailsLate(b)
    PROVE  IInv'
  <1>0. /\ count \in Nat /\ headroom \in Nat /\ HoldsPerIp \in Nat
        /\ Knows(b) /\ window \in Nat /\ NoWindow # window
    BY GuestHoldsAssumption DEF IInv, TypeOK, KnownHolds, Windows, NoWindow
  <1> DEFINE q == [op |-> "create", counted |-> NoWindow]
  <1>1. q \in Requests /\ q.op = "create" /\ q.counted = NoWindow
    BY NewRequests
  <1>2. /\ req[b].op = "acquire" /\ Reply(b, q) /\ count' = count + 1
        /\ UNCHANGED <<row, mapping, slot, held, winners, window, headroom>>
    BY DEF AcquireFailsLate, FailsOpen
  <1> HIDE DEF q
  <1>3. req' \in [Browsers -> Requests] /\ req'[b] = q
        /\ \A d \in Browsers \ {b} : req'[d] = req[d]
    BY <1>1, <1>2, Replies DEF IInv, TypeOK
  <1>4. TypeOK'
    BY <1>0, <1>2, <1>3 DEF IInv, TypeOK
  <1>5. /\ Units' = Units /\ Counted' = Counted
        /\ Pending' = Pending /\ Admitted' = Admitted
    BY <1>0, <1>1, <1>2, <1>3 DEF Units, Counted, Pending, Admitted
  <1>6. UnitsCovered' /\ CapHolds'
    BY <1>0, <1>2, <1>5, SetsFinite DEF IInv, CapInv, UnitsCovered, CapHolds
  <1>7. WindowsPast' /\ SlotsOfCancelled'
    <2>1. NoWindow <= window
      BY <1>0 DEF NoWindow
    <2> QED
      BY <1>1, <1>2, <1>3, <2>1 DEF IInv, CapInv, WindowsPast, SlotsOfCancelled
  <1>8. SameRows
    BY <1>2 DEF SameRows
  <1>9. KnownHolds'
    <2>1. Knows(b)'
      BY <1>0, <1>1, <1>2, <1>3 DEF Knows, Making
    <2> QED
      BY <1>2, <1>3, <1>8, <2>1, SameKeeps, OneTab DEF IInv
  <1>10. LinksSpent' /\ OneResumeWins'
    BY <1>2, <1>8, SameKeeps, LinksQuiet DEF IInv
  <1> QED
    BY <1>4, <1>6, <1>7, <1>9, <1>10 DEF IInv, CapInv

\* The link that is exchanged is the newest one, and older than the new token.
LEMMA RotateStep ==
    ASSUME IInv, NEW b \in Browsers, ResumeRotates(b)
    PROVE  IInv'
  <1>0. /\ req[b] \in Requests /\ Knows(b) /\ row \in [RegIds -> Row]
        /\ winners \in [RegIds \X Tokens -> Nat]
    BY DEF IInv, TypeOK, KnownHolds
  <1>1. PICK r \in RegIds, n \in Tokens : r = req[b].reg /\ n = req[b].seen
    BY <1>0, RequestTypes DEF ResumeRotates
  <1>2. /\ req[b].op = "rotate" /\ row[r].status = "pending_payment" /\ row[r].token = n
        /\ Links < MaxLinks
        /\ row' = [row EXCEPT ![r].token = @ + 1, ![r].opens = {b}]
        /\ winners' = [winners EXCEPT ![<<r, n>>] = @ + 1]
        /\ Reply(b, Idle)
        /\ UNCHANGED <<mapping, slot, held, counterVars>>
    BY <1>1 DEF ResumeRotates, TokenUnchanged, SameToken
  <1>3. /\ row' \in [RegIds -> Row]
        /\ row'[r].status = row[r].status /\ row'[r].token = row[r].token + 1
        /\ row'[r].by = row[r].by /\ row'[r].counted = row[r].counted
        /\ \A p \in RegIds \ {r} : row'[p] = row[p]
    BY <1>0, <1>2, RotateWrites
  <1>4. req' \in [Browsers -> Requests] /\ req'[b] = Idle
        /\ \A d \in Browsers \ {b} : req'[d] = req[d]
    BY <1>2, Replies, NewRequests DEF IInv, TypeOK
  <1>5. /\ winners' \in [RegIds \X Tokens -> Nat]
        /\ winners'[<<r, n>>] = winners[<<r, n>>] + 1
        /\ \A x \in RegIds \X Tokens : x # <<r, n>> => winners'[x] = winners[x]
    <2>1. <<r, n>> \in RegIds \X Tokens
      OBVIOUS
    <2> QED
      BY <1>0, <1>2, <2>1
  <1>6. TypeOK'
    BY <1>2, <1>3, <1>4, <1>5 DEF IInv, TypeOK, counterVars
  <1>7. RegsKeep /\ TabsKeep
    BY <1>2, <1>3, NewRequests, ReplyKeeps DEF RegsKeep, IInv, CapInv, SlotsOfCancelled
  <1>8. CapInv'
    BY <1>2, <1>7, CapQuiet DEF IInv
  <1>9. KnownHolds'
    <2>1. \A d \in Browsers : ShrinksFor(d)
      BY <1>3 DEF ShrinksFor
    <2>2. Knows(b)'
      BY <1>0, <1>2, <1>4, <2>1, NewRequests DEF Knows, Making, ShrinksFor
    <2> QED
      BY <1>2, <1>4, <2>1, <2>2, OneTab DEF IInv
  <1>10. /\ \A p \in RegIds : row[p].token \in Nat /\ row[p].token >= 1
         /\ \A m \in Tokens : m \in Nat
    BY GuestHoldsAssumption, <1>0 DEF Row, Tokens
  <1>11. winners[<<r, n>>] = 0
    BY <1>2, <1>10 DEF IInv, LinksSpent
  <1>12. OneResumeWins'
    BY <1>5, <1>11 DEF IInv, OneResumeWins
  <1>13. LinksSpent'
    <2> SUFFICES ASSUME NEW p \in RegIds
                 PROVE  /\ row'[p].status = "absent" => row'[p].token = 1
                        /\ \A m \in Tokens : m >= row'[p].token => winners'[<<p, m>>] = 0
      BY DEF LinksSpent
    <2>1. CASE p = r
      <3>1. ASSUME NEW m \in Tokens, m >= n + 1
            PROVE  winners'[<<r, m>>] = 0
        <4>1. <<r, m>> # <<r, n>> /\ m >= row[r].token
          BY <1>2, <1>10, <3>1
        <4> QED
          BY <1>5, <4>1 DEF IInv, LinksSpent
      <3> QED
        BY <1>2, <1>3, <2>1, <3>1
    <2>2. CASE p # r
      BY <1>3, <1>5, <2>2 DEF IInv, LinksSpent
    <2> QED
      BY <2>1, <2>2
  <1> QED
    BY <1>6, <1>8, <1>9, <1>12, <1>13 DEF IInv

-----------------------------------------------------------------------------
(* Holds: the theorems *)

LEMMA Begin == Init => IInv
  <1> SUFFICES ASSUME Init
               PROVE  IInv
    OBVIOUS
  <1>0. /\ GuestHoldsAssumption /\ 1 \in Tokens /\ 1 \in Windows
    BY GuestHoldsAssumption DEF Tokens, Windows, GuestHoldsAssumption
  <1>1. \A r \in RegIds : /\ row[r].status = "absent" /\ row[r].token = 1
                          /\ row[r].counted = NoWindow /\ row[r].by = {}
                          /\ slot[r] = "kept"
    BY DEF Init
  <1>2. \A b \in Browsers : req[b].op = "idle" /\ held[b] = NoReg
    BY NewRequests DEF Init
  <1>3. TypeOK
    <2>1. row \in [RegIds -> Row]
      BY <1>0 DEF Init, Row
    <2>2. req \in [Browsers -> Requests] /\ winners \in [RegIds \X Tokens -> Nat]
      BY NewRequests DEF Init
    <2> QED
      BY <1>0, <2>1, <2>2 DEF Init, TypeOK
  <1>4. Units = {} /\ Pending = {} /\ Counted = {} /\ Admitted = {}
    BY <1>1, <1>2 DEF Units, Pending, Counted, Admitted
  <1>5. UnitsCovered /\ CapHolds
    <2>1. Cardinality({}) = 0 /\ count = 0 /\ headroom = 0 /\ HoldsPerIp \in Nat
      BY FS_EmptySet, GuestHoldsAssumption DEF Init
    <2> QED
      BY <1>4, <2>1 DEF UnitsCovered, CapHolds
  <1>6. WindowsPast /\ SlotsOfCancelled
    <2>1. window = 1 /\ NoWindow <= window
      BY DEF Init, NoWindow
    <2> QED
      BY <1>1, <1>2, <2>1 DEF WindowsPast, SlotsOfCancelled
  <1>7. KnownHolds
    BY <1>1, <1>2 DEF KnownHolds, Knows
  <1>8. LinksSpent /\ OneResumeWins
    <2>1. \A x \in RegIds \X Tokens : winners[x] = 0
      BY DEF Init
    <2> QED
      BY <1>1, <2>1 DEF LinksSpent, OneResumeWins
  <1> QED
    BY <1>3, <1>5, <1>6, <1>7, <1>8 DEF IInv, CapInv

LEMMA Step == IInv /\ [Next]_vars => IInv'
  <1> SUFFICES ASSUME IInv, [Next]_vars
               PROVE  IInv'
    OBVIOUS
  <1>1. ASSUME NEW b \in Browsers, PageStep(b)
        PROVE  IInv'
    BY <1>1, TurnSteps, ForgetStep, CancelStep, AcquireStep, UndoStep, BindStep, AnswerStep,
       AcquireLateStep, LostStep, RotateStep, CreateStep, CreateFailsLateStep, PayStep
    DEF PageStep
  <1>2. CASE UNCHANGED vars
    <2>1. /\ UNCHANGED <<row, count, window, mapping, slot, held, req, headroom, winners>>
      BY <1>2 DEF vars
    <2>2. TypeOK' /\ SameRows
      BY <2>1 DEF IInv, TypeOK, SameRows
    <2>3. RegsKeep /\ TabsKeep /\ KnownHolds'
      BY <2>1, <2>2, PagesAlone, SameKeeps
      DEF pageVars, RegsKeep, IInv, CapInv, SlotsOfCancelled
    <2> QED
      BY <2>1, <2>2, <2>3, SameKeeps, QuietStep DEF counterVars
  <1> QED
    BY <1>1, <1>2, ExpiryStep, MappingStep, ReleaseStep, SlotStep, SlotDecrementStep DEF Next

THEOREM Invariant == Spec => []IInv
  BY Begin, Step, PTL DEF Spec

THEOREM TypeCorrect == Spec => []TypeOK
  <1>1. IInv => TypeOK
    BY DEF IInv
  <1> QED
    BY <1>1, Invariant, PTL

\* An address gets no more holds out of one lifetime of its counter than the cap
\* (acquireCreateSlot), but for the units it gives back for older holds and for those
\* whose checkout failed after its commit.
THEOREM CapKept == Spec => []CapHolds
  <1>1. IInv => CapHolds
    BY DEF IInv, CapInv
  <1> QED
    BY <1>1, Invariant, PTL

\* A tab that starts its checkout again, however often and whatever is lost, has
\* one unpaid hold that it could know of (startPaidCheckout).
THEOREM OneHoldEach == Spec => []OneHoldPerBrowser
  <1>1. IInv => OneHoldPerBrowser
    <2> SUFFICES ASSUME IInv, NEW b \in Browsers
                 PROVE  Cardinality({r \in RegIds : Live(r) /\ b \in row[r].by}) <= 1
      BY DEF OneHoldPerBrowser
    <2> DEFINE S == {r \in RegIds : Live(r) /\ b \in row[r].by}
    <2>1. \A r, p \in S : r = p
      <3>1. NoReg \notin RegIds
        BY DEF NoReg, RegIds
      <3> QED
        BY <3>1 DEF IInv, KnownHolds, Knows, Live, Making
    <2>2. CASE S = {}
      BY <2>2, FS_EmptySet
    <2>3. CASE S # {}
      <3>1. PICK r \in S : TRUE
        BY <2>3
      <3>2. S = {r}
        BY <2>1, <3>1
      <3>3. Cardinality({r}) = 1
        BY FS_Singleton
      <3> QED
        BY <3>2, <3>3
    <2> QED
      BY <2>2, <2>3
  <1> QED
    BY <1>1, Invariant, PTL

\* However many exchanges of one link overlap, one succeeds (resumeGuest).
THEOREM OneResumeEach == Spec => []OneResumeWins
  <1>1. IInv => OneResumeWins
    BY DEF IInv
  <1> QED
    BY <1>1, Invariant, PTL

-----------------------------------------------------------------------------
(* Sessions: types *)

Exchange == [at : {"none", "lock", "post", "checked", "revoked", "answered", "refused", "failed"},
             sent : Nat, got : Nat, second : BOOLEAN]

ApiCall == [at : {"idle", "sent", "waits"}, with : Nat, again : BOOLEAN]

\* Tab t's exchange is f from now on.
Flies(t, f) ==
    flight'[t] = f /\ \A s \in Tabs \ {t} : flight'[s] = flight[s]

LEMMA RestingIs ==
    /\ Resting \in Exchange /\ Resting.at = "none"
    /\ [Resting EXCEPT !.at = "lock"] \in Exchange
    /\ [Resting EXCEPT !.at = "lock"].at = "lock"
  BY DEF Resting, Exchange, None

LEMMA FlightIsSet ==
    ASSUME flight \in [Tabs -> Exchange], NEW t \in Tabs, NEW f \in Exchange,
           flight' = [flight EXCEPT ![t] = f]
    PROVE  flight' \in [Tabs -> Exchange] /\ Flies(t, f)
  BY DEF Flies

\* The exchange of a tab moves on.
LEMMA FlightMoves ==
    ASSUME flight \in [Tabs -> Exchange], NEW t \in Tabs,
           NEW a \in {"post", "checked", "revoked", "answered", "refused", "failed"},
           flight' = [flight EXCEPT ![t].at = a]
    PROVE  /\ flight' \in [Tabs -> Exchange] /\ Flies(t, [flight[t] EXCEPT !.at = a])
           /\ flight'[t].at = a /\ flight'[t].sent = flight[t].sent
           /\ flight'[t].got = flight[t].got /\ flight'[t].second = flight[t].second
  <1> DEFINE f == [flight[t] EXCEPT !.at = a]
  <1>1. /\ f \in Exchange /\ f.at = a /\ f.sent = flight[t].sent /\ f.got = flight[t].got
        /\ f.second = flight[t].second
    BY DEF Exchange
  <1>2. flight' = [flight EXCEPT ![t] = f]
    OBVIOUS
  <1> HIDE DEF f
  <1>3. flight' \in [Tabs -> Exchange] /\ Flies(t, f)
    BY <1>1, <1>2, FlightIsSet
  <1> QED
    BY <1>1, <1>3 DEF Flies, f

DataTyped ==
    /\ stored \in Nat
    /\ access \in [Tabs -> Nat]
    /\ restore \in [Tabs -> [at : {"no", "waits", "me"}, with : Nat]]
    /\ flight \in [Tabs -> Exchange]
    /\ locks \in BOOLEAN /\ lock \in Tabs \cup {NoTab}
    /\ live \subseteq Nat /\ valid \subseteq Nat /\ issued \in Nat
    /\ leaving \in [Tabs -> {"no", "asked", "gone"}]
    /\ events \in 0 .. MaxEvents
    /\ broken \in BOOLEAN /\ late \in BOOLEAN /\ kicked \subseteq Tabs

LEMMA TypeIs == SessionTypeOK <=> DataTyped /\ call \in [Tabs -> [Calls -> ApiCall]]
  BY DEF SessionTypeOK, DataTyped, Exchange, ApiCall

LEMMA TypeIsNext == DataTyped' /\ call' \in [Tabs -> [Calls -> ApiCall]] => SessionTypeOK'
  BY DEF SessionTypeOK, DataTyped, Exchange, ApiCall

LEMMA CallIsSet ==
    ASSUME call \in [Tabs -> [Calls -> ApiCall]], NEW t \in Tabs, NEW c \in Calls,
           NEW x \in ApiCall, call' = [call EXCEPT ![t][c] = x]
    PROVE  call' \in [Tabs -> [Calls -> ApiCall]]
  <1>1. [call[t] EXCEPT ![c] = x] \in [Calls -> ApiCall]
    OBVIOUS
  <1>2. call' = [call EXCEPT ![t] = [call[t] EXCEPT ![c] = x]]
    OBVIOUS
  <1> QED
    BY <1>1, <1>2

LEMMA SettlesTypes ==
    ASSUME SessionTypeOK, NEW t \in Tabs, NEW x \in ApiCall, Settles(t, x)
    PROVE  /\ call' \in [Tabs -> [Calls -> ApiCall]] /\ flight' \in [Tabs -> Exchange]
           /\ Flies(t, Resting)
  <1>1. call \in [Tabs -> [Calls -> ApiCall]] /\ flight \in [Tabs -> Exchange]
    BY TypeIs DEF DataTyped
  <1>2. [c \in Calls |-> IF c \in Waiting(t) THEN x ELSE call[t][c]] \in [Calls -> ApiCall]
    BY <1>1
  <1>3. call' \in [Tabs -> [Calls -> ApiCall]]
    BY <1>1, <1>2 DEF Settles
  <1>4. flight' = [flight EXCEPT ![t] = Resting]
    BY DEF Settles
  <1> QED
    BY <1>1, <1>3, <1>4, RestingIs, FlightIsSet

LEMMA UnsentIs == Unsent \in ApiCall
  BY DEF Unsent, ApiCall, None

LEMMA SignedOutTypes ==
    ASSUME SessionTypeOK, NEW t \in Tabs, SignedOut(t)
    PROVE  /\ stored' = None /\ stored' \in Nat
           /\ access' \in [Tabs -> Nat] /\ access'[t] = None
           /\ \A s \in Tabs \ {t} : access'[s] = access[s] /\ restore'[s] = restore[s]
           /\ restore' \in [Tabs -> [at : {"no", "waits", "me"}, with : Nat]]
           /\ restore'[t].at = "no"
  <1>1. /\ access \in [Tabs -> Nat]
        /\ restore \in [Tabs -> [at : {"no", "waits", "me"}, with : Nat]]
    BY DEF SessionTypeOK
  <1>2. [at |-> "no", with |-> None] \in [at : {"no", "waits", "me"}, with : Nat]
    BY DEF None
  <1> QED
    BY <1>1, <1>2 DEF SignedOut, None

LEMMA ReleasesTypes ==
    ASSUME SessionTypeOK, NEW t \in Tabs, Releases(t)
    PROVE  lock' \in Tabs \cup {NoTab} /\ (lock # t => lock' = lock) /\ lock' # t
  BY SessionsAssumption DEF Releases, SessionTypeOK

LEMMA ExpiresTypes ==
    ASSUME SessionTypeOK, NEW t \in Tabs, Expires(t)
    PROVE  /\ SessionTypeOK' /\ stored' = None
           /\ flight'[t].at = "none" /\ \A s \in Tabs \ {t} : flight'[s] = flight[s]
           /\ access'[t] = None /\ restore'[t].at = "no"
           /\ \A s \in Tabs \ {t} : access'[s] = access[s] /\ restore'[s] = restore[s]
           /\ Releases(t) /\ UNCHANGED <<locks, leaving, server, events, broken, late>>
  <1>1. SignedOut(t) /\ Settles(t, Unsent) /\ Releases(t) /\ kicked' = kicked \cup {t}
        /\ UNCHANGED <<locks, leaving, server, events, broken, late>>
    BY DEF Expires
  <1>2. /\ call' \in [Tabs -> [Calls -> ApiCall]] /\ flight' \in [Tabs -> Exchange]
        /\ Flies(t, Resting)
    BY <1>1, UnsentIs, SettlesTypes
  <1>3. lock' \in Tabs \cup {NoTab}
    BY <1>1, ReleasesTypes
  <1>4. /\ stored' = None /\ stored' \in Nat
        /\ access' \in [Tabs -> Nat] /\ access'[t] = None
        /\ \A s \in Tabs \ {t} : access'[s] = access[s] /\ restore'[s] = restore[s]
        /\ restore' \in [Tabs -> [at : {"no", "waits", "me"}, with : Nat]]
        /\ restore'[t].at = "no"
    BY <1>1, SignedOutTypes
  <1>5. DataTyped'
    BY <1>1, <1>2, <1>3, <1>4, TypeIs DEF DataTyped, server
  <1> QED
    BY <1>1, <1>2, <1>4, <1>5, TypeIsNext, RestingIs DEF Flies


\* A call is made, answered, or told that its token has expired.
LEMMA CallTypes ==
    ASSUME SessionTypeOK, NEW t \in Tabs, NEW c \in Calls, Send(t, c) \/ CallStep(t, c)
    PROVE  /\ SessionTypeOK'
           /\ UNCHANGED <<stored, access, restore, locks, lock, leaving, server, history>>
           /\ \/ UNCHANGED flight
              \/ /\ flight[t].at = "none" /\ flight'[t].at = "lock"
                 /\ \A s \in Tabs \ {t} : flight'[s] = flight[s]
                 /\ access[t] = None \/ access[t] \notin valid
  <1>0. /\ call \in [Tabs -> [Calls -> ApiCall]] /\ flight \in [Tabs -> Exchange]
        /\ access[t] \in Nat /\ call[t][c] \in ApiCall
    BY TypeIs DEF DataTyped
  <1>1. UNCHANGED <<stored, access, restore, locks, lock, leaving, server, history>>
    BY DEF Send, CallStep, Answered, Unauthorized
  <1>2. /\ Unsent \in ApiCall
        /\ \A g \in BOOLEAN : [at |-> "sent", with |-> access[t], again |-> g] \in ApiCall
        /\ [call[t][c] EXCEPT !.at = "waits"] \in ApiCall
    BY <1>0, UnsentIs DEF ApiCall
  <1>3. PICK x \in ApiCall : call' = [call EXCEPT ![t][c] = x]
    <2>1. CASE call' = [call EXCEPT ![t][c].at = "waits"]
      <3> DEFINE y == [call[t][c] EXCEPT !.at = "waits"]
      <3>1. call' = [call EXCEPT ![t][c] = y]
        BY <2>1
      <3> QED
        BY <1>2, <3>1
    <2> QED
      BY <1>2, <2>1 DEF Send, CallStep, Answered, Unauthorized
  <1>4. call' \in [Tabs -> [Calls -> ApiCall]]
    BY <1>0, <1>3, CallIsSet
  <1>5. \/ UNCHANGED flight
        \/ /\ flight[t].at = "none" /\ flight' = [flight EXCEPT ![t] = [Resting EXCEPT !.at = "lock"]]
           /\ ~NewerToken(t, c) /\ call[t][c].with \notin valid
    BY DEF Send, CallStep, Answered, Unauthorized, Joins, RetryAtOnce
  <1>6. CASE UNCHANGED flight
    <2>1. DataTyped'
      BY <1>1, <1>6, TypeIs DEF DataTyped, server, history
    <2> QED
      BY <1>1, <1>4, <1>6, <2>1, TypeIsNext
  <1>7. CASE /\ flight[t].at = "none"
             /\ flight' = [flight EXCEPT ![t] = [Resting EXCEPT !.at = "lock"]]
             /\ ~NewerToken(t, c) /\ call[t][c].with \notin valid
    <2>1. flight' \in [Tabs -> Exchange] /\ Flies(t, [Resting EXCEPT !.at = "lock"])
      BY <1>0, <1>7, RestingIs, FlightIsSet
    <2>2. DataTyped'
      BY <1>1, <2>1, TypeIs DEF DataTyped, server, history
    <2>3. access[t] = None \/ access[t] \notin valid
      BY <1>7 DEF NewerToken
    <2>4. flight'[t].at = "lock" /\ \A s \in Tabs \ {t} : flight'[s] = flight[s]
      BY <2>1, RestingIs DEF Flies
    <2> QED
      BY <1>1, <1>4, <1>7, <2>2, <2>3, <2>4, TypeIsNext
  <1> QED
    BY <1>5, <1>6, <1>7

\* The exchange of a tab goes on, until it settles.
LEMMA GrantedTypes ==
    ASSUME SessionTypeOK, NEW t \in Tabs, Granted(t)
    PROVE  /\ SessionTypeOK' /\ flight[t].at = "lock" /\ MayRotate(t)
           /\ \/ stored = None /\ Expires(t)
              \/ /\ stored # None
                 /\ flight'[t].at = "post" /\ flight'[t].sent = stored
                 /\ \A s \in Tabs \ {t} : flight'[s] = flight[s]
                 /\ lock' = IF locks THEN t ELSE lock
                 /\ UNCHANGED <<stored, access, call, restore, locks, leaving, server, history>>
  <1>1. CASE stored = None /\ Expires(t)
    BY <1>1, ExpiresTypes DEF Granted
  <1>2. CASE stored # None
    <2> DEFINE f == [Resting EXCEPT !.at = "post", !.sent = stored]
    <2>1. f \in Exchange /\ f.at = "post" /\ f.sent = stored
      BY DEF SessionTypeOK, Resting, Exchange, None
    <2>2. /\ flight' = [flight EXCEPT ![t] = f] /\ flight[t].at = "lock" /\ MayRotate(t)
          /\ lock' = IF locks THEN t ELSE lock
          /\ UNCHANGED <<stored, access, call, restore, locks, leaving, server, history>>
      BY <1>2 DEF Granted
    <2> HIDE DEF f
    <2>3. flight' \in [Tabs -> Exchange] /\ Flies(t, f)
      BY <2>1, <2>2, TypeIs, FlightIsSet DEF DataTyped
    <2>4. DataTyped' /\ call' \in [Tabs -> [Calls -> ApiCall]]
      BY <2>2, <2>3, TypeIs DEF DataTyped, server, history
    <2> QED
      BY <1>2, <2>1, <2>2, <2>3, <2>4, TypeIsNext DEF Flies
  <1> QED
    BY <1>1, <1>2 DEF Granted

LEMMA MovesTypes ==
    ASSUME SessionTypeOK, NEW t \in Tabs, ServerChecks(t) \/ RequestLost(t) \/ AnswerLost(t)
    PROVE  /\ SessionTypeOK'
           /\ flight'[t].sent = flight[t].sent /\ flight'[t].got = flight[t].got
           /\ \A s \in Tabs \ {t} : flight'[s] = flight[s]
           /\ \/ /\ flight[t].at = "post" /\ broken' = broken
                 /\ flight'[t].at = IF flight[t].sent \in live THEN "checked" ELSE "refused"
              \/ /\ flight[t].at \in {"post", "checked"} /\ flight'[t].at = "failed"
                 /\ broken' = broken
              \/ /\ flight[t].at \in {"revoked", "answered"} /\ flight'[t].at = "failed"
                 /\ broken' = TRUE
           /\ UNCHANGED <<stored, access, call, restore, locks, lock, leaving, server, events,
                          late, kicked>>
  <1>1. PICK a \in {"checked", "refused", "failed"} :
           /\ flight' = [flight EXCEPT ![t].at = a]
           /\ \/ /\ flight[t].at = "post" /\ broken' = broken
                 /\ a = IF flight[t].sent \in live THEN "checked" ELSE "refused"
              \/ flight[t].at \in {"post", "checked"} /\ a = "failed" /\ broken' = broken
              \/ flight[t].at \in {"revoked", "answered"} /\ a = "failed" /\ broken' = TRUE
           /\ UNCHANGED <<stored, access, call, restore, locks, lock, leaving, server, events,
                          late, kicked>>
    BY DEF ServerChecks, RequestLost, AnswerLost, history
  <1>2. /\ flight' \in [Tabs -> Exchange] /\ flight'[t].at = a
        /\ flight'[t].sent = flight[t].sent /\ flight'[t].got = flight[t].got
        /\ \A s \in Tabs \ {t} : flight'[s] = flight[s]
    BY <1>1, TypeIs, FlightMoves DEF DataTyped, Flies
  <1>3. DataTyped' /\ call' \in [Tabs -> [Calls -> ApiCall]]
    BY <1>1, <1>2, TypeIs DEF DataTyped, server
  <1> QED
    BY <1>1, <1>2, <1>3, TypeIsNext

LEMMA RevokesTypes ==
    ASSUME SessionTypeOK, NEW t \in Tabs, ServerRevokes(t)
    PROVE  /\ SessionTypeOK' /\ flight[t].at = "checked" /\ flight'[t].at = "revoked"
           /\ flight'[t].got = flight[t].got
           /\ \A s \in Tabs \ {t} : flight'[s] = flight[s]
           /\ live' = live \ {flight[t].sent}
           /\ UNCHANGED <<stored, access, call, restore, locks, lock, leaving, valid, issued,
                          history>>
  <1>1. /\ flight[t].at = "checked" /\ flight' = [flight EXCEPT ![t].at = "revoked"]
        /\ live' = live \ {flight[t].sent}
        /\ UNCHANGED <<stored, access, call, restore, locks, lock, leaving, valid, issued,
                       history>>
    BY DEF ServerRevokes
  <1>2. /\ flight' \in [Tabs -> Exchange] /\ flight'[t].at = "revoked"
        /\ flight'[t].got = flight[t].got
        /\ \A s \in Tabs \ {t} : flight'[s] = flight[s]
    BY <1>1, TypeIs, FlightMoves DEF DataTyped, Flies
  <1>3. DataTyped' /\ call' \in [Tabs -> [Calls -> ApiCall]]
    BY <1>1, <1>2, TypeIs DEF DataTyped, history
  <1> QED
    BY <1>1, <1>2, <1>3, TypeIsNext

LEMMA IssuesTypes ==
    ASSUME SessionTypeOK, NEW t \in Tabs, ServerIssues(t)
    PROVE  /\ SessionTypeOK' /\ flight[t].at = "revoked"
           /\ flight'[t].at = "answered" /\ flight'[t].got = issued + 1
           /\ \A s \in Tabs \ {t} : flight'[s] = flight[s]
           /\ issued' = issued + 1
           /\ live' = live \cup {issued + 1}
           /\ valid' = valid \cup {issued + 1}
           /\ UNCHANGED <<stored, access, call, restore, locks, lock, leaving, history>>
  <1>0. flight[t].at = "revoked" /\ issued' = issued + 1 /\ issued \in Nat
    BY TypeIs DEF ServerIssues, DataTyped
  <1>1. /\ flight' = [flight EXCEPT ![t].at = "answered", ![t].got = issued']
        /\ live' = live \cup {issued'}
        /\ valid' = valid \cup {issued'}
        /\ UNCHANGED <<stored, access, call, restore, locks, lock, leaving, history>>
    BY DEF ServerIssues
  <1>2. PICK pair \in Nat : pair = issued + 1
    BY <1>0
  <1> DEFINE f == [flight[t] EXCEPT !.at = "answered", !.got = pair]
  <1>3. f \in Exchange /\ f.at = "answered" /\ f.got = pair
    BY TypeIs DEF DataTyped, Exchange
  <1>4. flight' = [flight EXCEPT ![t] = f]
    BY <1>0, <1>1, <1>2
  <1> HIDE DEF f
  <1>5. flight' \in [Tabs -> Exchange] /\ Flies(t, f)
    BY <1>3, <1>4, TypeIs, FlightIsSet DEF DataTyped
  <1>6. DataTyped' /\ call' \in [Tabs -> [Calls -> ApiCall]]
    BY <1>0, <1>1, <1>2, <1>5, TypeIs DEF DataTyped, history
  <1> QED
    BY <1>0, <1>1, <1>2, <1>3, <1>5, <1>6, TypeIsNext DEF Flies

LEMMA SucceedsTypes ==
    ASSUME SessionTypeOK, NEW t \in Tabs, Succeeds(t)
    PROVE  /\ SessionTypeOK' /\ flight[t].at = "answered"
           /\ flight'[t].at = "none" /\ \A s \in Tabs \ {t} : flight'[s] = flight[s]
           /\ stored' = flight[t].got /\ access'[t] = flight[t].got
           /\ \A s \in Tabs \ {t} : access'[s] = access[s] /\ restore'[s] = restore[s]
           /\ \/ restore'[t].at = "me" /\ restore'[t].with = flight[t].got
              \/ restore'[t] = restore[t] /\ restore[t].at # "waits"
           /\ Releases(t)
           /\ UNCHANGED <<locks, leaving, server, history>>
  <1> DEFINE pair == flight[t].got
  <1>1. /\ flight[t].at = "answered" /\ stored' = pair /\ Releases(t)
        /\ access' = [access EXCEPT ![t] = pair]
        /\ Settles(t, [at |-> "sent", with |-> pair, again |-> TRUE])
        /\ restore' = IF restore[t].at = "waits"
                        THEN [restore EXCEPT ![t] = [at |-> "me", with |-> pair]] ELSE restore
        /\ UNCHANGED <<locks, leaving, server, history>>
    BY DEF Succeeds
  <1>2. pair \in Nat /\ [at |-> "sent", with |-> pair, again |-> TRUE] \in ApiCall
        /\ [at |-> "me", with |-> pair] \in [at : {"no", "waits", "me"}, with : Nat]
    BY TypeIs DEF DataTyped, Exchange, ApiCall
  <1> HIDE DEF pair
  <1>3. /\ call' \in [Tabs -> [Calls -> ApiCall]] /\ flight' \in [Tabs -> Exchange]
        /\ Flies(t, Resting)
    BY <1>1, <1>2, SettlesTypes
  <1>4. lock' \in Tabs \cup {NoTab}
    BY <1>1, ReleasesTypes
  <1>5. /\ access' \in [Tabs -> Nat] /\ access'[t] = pair
        /\ \A s \in Tabs \ {t} : access'[s] = access[s]
    BY <1>1, <1>2 DEF SessionTypeOK
  <1>6. /\ restore' \in [Tabs -> [at : {"no", "waits", "me"}, with : Nat]]
        /\ \A s \in Tabs \ {t} : restore'[s] = restore[s]
        /\ \/ restore'[t].at = "me" /\ restore'[t].with = pair
           \/ restore'[t] = restore[t] /\ restore[t].at # "waits"
    BY <1>1, <1>2 DEF SessionTypeOK
  <1>7. DataTyped'
    BY <1>1, <1>2, <1>3, <1>4, <1>5, <1>6, TypeIs DEF DataTyped, server, history
  <1>8. SessionTypeOK'
    BY <1>3, <1>7, TypeIsNext
  <1>9. flight'[t].at = "none" /\ \A s \in Tabs \ {t} : flight'[s] = flight[s]
    BY <1>3, RestingIs DEF Flies
  <1> QED
    BY <1>1, <1>5, <1>6, <1>8, <1>9 DEF pair

LEMMA RefusedTypes ==
    ASSUME SessionTypeOK, NEW t \in Tabs, Refused(t)
    PROVE  /\ SessionTypeOK' /\ flight[t].at = "refused"
           /\ \/ /\ flight'[t].at = "post" /\ flight'[t].sent = stored
                 /\ \A s \in Tabs \ {t} : flight'[s] = flight[s]
                 /\ UNCHANGED <<stored, access, call, restore, locks, lock, leaving, server,
                                history>>
              \/ Expires(t)
  <1>1. CASE Expires(t)
    BY <1>1, ExpiresTypes DEF Refused
  <1>2. CASE /\ flight' = [flight EXCEPT ![t].at = "post", ![t].sent = stored,
                                         ![t].second = TRUE]
             /\ UNCHANGED <<stored, access, call, restore, locks, lock, leaving, server,
                            history>>
    <2> DEFINE f == [flight[t] EXCEPT !.at = "post", !.sent = stored, !.second = TRUE]
    <2>1. f \in Exchange /\ f.at = "post" /\ f.sent = stored
      BY TypeIs DEF DataTyped, Exchange
    <2>2. flight' = [flight EXCEPT ![t] = f]
      BY <1>2
    <2> HIDE DEF f
    <2>3. flight' \in [Tabs -> Exchange] /\ Flies(t, f)
      BY <2>1, <2>2, TypeIs, FlightIsSet DEF DataTyped
    <2>4. DataTyped' /\ call' \in [Tabs -> [Calls -> ApiCall]]
      BY <1>2, <2>3, TypeIs DEF DataTyped, server, history
    <2> QED
      BY <1>2, <2>1, <2>3, <2>4, TypeIsNext DEF Flies, Refused
  <1> QED
    BY <1>1, <1>2 DEF Refused

LEMMA FailsTypes ==
    ASSUME SessionTypeOK, NEW t \in Tabs, Fails(t)
    PROVE  /\ SessionTypeOK' /\ flight[t].at = "failed"
           /\ flight'[t].at = "none" /\ \A s \in Tabs \ {t} : flight'[s] = flight[s]
           /\ \A s \in Tabs : restore'[s] = restore[s] \/ restore'[s].at = "no"
           /\ Releases(t)
           /\ UNCHANGED <<stored, access, locks, leaving, server, history>>
  <1>1. /\ flight[t].at = "failed" /\ Settles(t, Unsent) /\ Releases(t)
        /\ restore' = IF restore[t].at = "waits"
                        THEN [restore EXCEPT ![t].at = "no"] ELSE restore
        /\ UNCHANGED <<stored, access, locks, leaving, server, history>>
    BY DEF Fails, ReleasesAfterFailure
  <1>2. /\ call' \in [Tabs -> [Calls -> ApiCall]] /\ flight' \in [Tabs -> Exchange]
        /\ Flies(t, Resting)
    BY <1>1, UnsentIs, SettlesTypes
  <1>3. lock' \in Tabs \cup {NoTab}
    BY <1>1, ReleasesTypes
  <1>4. /\ restore' \in [Tabs -> [at : {"no", "waits", "me"}, with : Nat]]
        /\ \A s \in Tabs : restore'[s] = restore[s] \/ restore'[s].at = "no"
    BY <1>1 DEF SessionTypeOK
  <1>5. DataTyped'
    BY <1>1, <1>2, <1>3, <1>4, TypeIs DEF DataTyped, server, history
  <1>6. flight'[t].at = "none" /\ \A s \in Tabs \ {t} : flight'[s] = flight[s]
    BY <1>2, RestingIs DEF Flies
  <1> QED
    BY <1>1, <1>2, <1>4, <1>5, <1>6, TypeIsNext

\* A page that has been restored, or has not.
LEMMA RestoredTypes ==
    ASSUME SessionTypeOK, NEW t \in Tabs, Restored(t) \/ RestoreFails(t)
    PROVE  /\ SessionTypeOK' /\ restore[t].at = "me" /\ restore'[t].at = "no"
           /\ \A s \in Tabs \ {t} : access'[s] = access[s] /\ restore'[s] = restore[s]
           /\ access'[t] \in {None, access[t], restore[t].with}
           /\ UNCHANGED <<stored, call, flight, locks, lock, leaving, server, history>>
  <1>0. /\ access \in [Tabs -> Nat] /\ stored \in Nat
        /\ restore \in [Tabs -> [at : {"no", "waits", "me"}, with : Nat]]
        /\ [at |-> "no", with |-> None] \in [at : {"no", "waits", "me"}, with : Nat]
    BY DEF SessionTypeOK, None
  <1>1. /\ restore[t].at = "me" /\ UNCHANGED <<call, flight, locks, lock, leaving, server, history>>
        /\ restore' = [restore EXCEPT ![t] = [at |-> "no", with |-> None]]
        /\ stored' = stored
        /\ \/ access' = [access EXCEPT ![t] = None]
           \/ access' = [access EXCEPT ![t] = restore[t].with]
           \/ access' = access
    BY DEF Restored, RestoreFails, SignedOut, Latest, Newest
  <1>2. /\ restore' \in [Tabs -> [at : {"no", "waits", "me"}, with : Nat]]
        /\ restore'[t].at = "no" /\ \A s \in Tabs \ {t} : restore'[s] = restore[s]
    BY <1>0, <1>1
  <1>3. None \in Nat /\ restore[t].with \in Nat
    BY <1>0 DEF None
  <1>4. /\ access' \in [Tabs -> Nat] /\ access'[t] \in {None, access[t], restore[t].with}
        /\ \A s \in Tabs \ {t} : access'[s] = access[s]
    BY <1>0, <1>1, <1>3
  <1>5. DataTyped' /\ call' \in [Tabs -> [Calls -> ApiCall]]
    BY <1>1, <1>2, <1>4, TypeIs DEF DataTyped, server, history
  <1> QED
    BY <1>1, <1>2, <1>4, <1>5, TypeIsNext

LEMMA RestoreRefusedTypes ==
    ASSUME SessionTypeOK, NEW t \in Tabs, RestoreRefused(t)
    PROVE  /\ SessionTypeOK' /\ stored' = None /\ broken' = TRUE
           /\ access'[t] = None /\ restore'[t].at = "no"
           /\ \A s \in Tabs \ {t} : access'[s] = access[s] /\ restore'[s] = restore[s]
           /\ UNCHANGED <<call, flight, locks, lock, leaving, server, events, late, kicked>>
  <1>1. /\ SignedOut(t) /\ broken' = TRUE
        /\ UNCHANGED <<call, flight, locks, lock, leaving, server, events, late, kicked>>
    BY DEF RestoreRefused
  <1>2. DataTyped' /\ call' \in [Tabs -> [Calls -> ApiCall]]
    BY <1>1, SignedOutTypes, TypeIs DEF DataTyped, server
  <1> QED
    BY <1>1, <1>2, SignedOutTypes, TypeIsNext

LEMMA ReloadTypes ==
    ASSUME SessionTypeOK, NEW t \in Tabs, Reload(t)
    PROVE  /\ SessionTypeOK'
           /\ flight[t].at \in {"none", "lock", "answered"} /\ flight'[t].at \in {"none", "lock"}
           /\ \A s \in Tabs \ {t} : flight'[s] = flight[s]
           /\ access'[t] = None /\ restore'[t].at # "me"
           /\ \A s \in Tabs \ {t} : access'[s] = access[s] /\ restore'[s] = restore[s]
           /\ broken' = (broken \/ flight[t].at = "answered")
           /\ Releases(t)
           /\ UNCHANGED <<stored, locks, leaving, server, late, kicked>>
  <1>0. /\ access \in [Tabs -> Nat] /\ events \in 0 .. MaxEvents
        /\ restore \in [Tabs -> [at : {"no", "waits", "me"}, with : Nat]]
        /\ call \in [Tabs -> [Calls -> ApiCall]] /\ flight \in [Tabs -> Exchange]
    BY TypeIs DEF DataTyped
  <1>1. /\ flight[t].at \in {"none", "lock", "answered"} /\ Releases(t)
        /\ access' = [access EXCEPT ![t] = None]
        /\ call' = [call EXCEPT ![t] = [c \in Calls |-> Unsent]]
        /\ events < MaxEvents /\ events' = events + 1
        /\ broken' = (broken \/ flight[t].at = "answered")
        /\ UNCHANGED <<stored, locks, leaving, server, late, kicked>>
    BY DEF Reload
  <1>2. PICK a \in {"no", "waits"} :
           restore' = [restore EXCEPT ![t] = [at |-> a, with |-> None]]
    BY DEF Reload
  <1>3. PICK f \in Exchange :
           flight' = [flight EXCEPT ![t] = f] /\ f.at \in {"none", "lock"}
    BY RestingIs DEF Reload
  <1>4. flight' \in [Tabs -> Exchange] /\ Flies(t, f)
    BY <1>0, <1>3, FlightIsSet
  <1>5. [c \in Calls |-> Unsent] \in [Calls -> ApiCall]
    BY UnsentIs
  <1>6. call' \in [Tabs -> [Calls -> ApiCall]]
    BY <1>0, <1>1, <1>5
  <1>7. /\ access' \in [Tabs -> Nat] /\ access'[t] = None
        /\ \A s \in Tabs \ {t} : access'[s] = access[s]
    BY <1>0, <1>1 DEF None
  <1>8. [at |-> a, with |-> None] \in [at : {"no", "waits", "me"}, with : Nat]
    BY DEF None
  <1>9. /\ restore' \in [Tabs -> [at : {"no", "waits", "me"}, with : Nat]]
        /\ restore'[t].at # "me" /\ \A s \in Tabs \ {t} : restore'[s] = restore[s]
    BY <1>0, <1>2, <1>8
  <1>10. lock' \in Tabs \cup {NoTab}
    BY <1>1, ReleasesTypes
  <1>11. broken' \in BOOLEAN /\ events' \in 0 .. MaxEvents
    BY <1>0, <1>1, SessionsAssumption
  <1>12. DataTyped'
    BY <1>1, <1>4, <1>7, <1>9, <1>10, <1>11, TypeIs DEF DataTyped, server
  <1>13. flight'[t].at \in {"none", "lock"} /\ \A s \in Tabs \ {t} : flight'[s] = flight[s]
    BY <1>3, <1>4 DEF Flies
  <1> QED
    BY <1>1, <1>6, <1>7, <1>9, <1>12, <1>13, TypeIsNext

LEMMA TimeTypes ==
    ASSUME SessionTypeOK, NEW t \in Tabs, AccessExpires(t)
    PROVE  /\ SessionTypeOK' /\ restore[t].at # "me" /\ valid' = valid \ {access[t]}
           /\ UNCHANGED <<stored, access, call, restore, flight, locks, lock, live, issued,
                          leaving, broken, late, kicked>>
  <1>1. /\ events < MaxEvents /\ events' = events + 1
        /\ restore[t].at # "me" /\ valid' = valid \ {access[t]}
        /\ UNCHANGED <<stored, access, call, restore, flight, locks, lock, live, issued,
                       leaving, broken, late, kicked>>
    BY DEF AccessExpires
  <1>2. events' \in 0 .. MaxEvents
    BY <1>1, SessionsAssumption DEF SessionTypeOK
  <1>3. DataTyped' /\ call' \in [Tabs -> [Calls -> ApiCall]]
    BY <1>1, <1>2, TypeIs DEF DataTyped
  <1> QED
    BY <1>1, <1>3, TypeIsNext

LEMMA RefreshExpiresTypes ==
    ASSUME SessionTypeOK, RefreshExpires
    PROVE  /\ SessionTypeOK' /\ broken' = TRUE
           /\ UNCHANGED <<stored, access, call, restore, flight, locks, lock, valid, issued,
                          leaving, late, kicked>>
  <1>1. /\ events < MaxEvents /\ events' = events + 1
        /\ live' = live \ {stored} /\ broken' = TRUE
        /\ UNCHANGED <<stored, access, call, restore, flight, locks, lock, valid, issued,
                       leaving, late, kicked>>
    BY DEF RefreshExpires
  <1>2. events' \in 0 .. MaxEvents
    BY <1>1, SessionsAssumption DEF SessionTypeOK
  <1>3. DataTyped' /\ call' \in [Tabs -> [Calls -> ApiCall]]
    BY <1>1, <1>2, TypeIs DEF DataTyped
  <1> QED
    BY <1>1, <1>3, TypeIsNext

LEMMA AsksTypes ==
    ASSUME SessionTypeOK, NEW t \in Tabs, AsksToLeave(t)
    PROVE  /\ SessionTypeOK' /\ leaving[t] = "no" /\ leaving'[t] = "asked"
           /\ \A s \in Tabs \ {t} : leaving'[s] = leaving[s]
           /\ UNCHANGED <<stored, access, call, restore, flight, locks, lock, valid, issued,
                          history>>
  <1>1. /\ leaving[t] = "no" /\ leaving' = [leaving EXCEPT ![t] = "asked"]
        /\ live' \subseteq live
        /\ UNCHANGED <<stored, access, call, restore, flight, locks, lock, valid, issued,
                       history>>
    BY DEF AsksToLeave
  <1>2. /\ leaving' \in [Tabs -> {"no", "asked", "gone"}] /\ leaving'[t] = "asked"
        /\ \A s \in Tabs \ {t} : leaving'[s] = leaving[s]
    BY <1>1 DEF SessionTypeOK
  <1>3. DataTyped' /\ call' \in [Tabs -> [Calls -> ApiCall]]
    BY <1>1, <1>2, TypeIs DEF DataTyped, history
  <1> QED
    BY <1>1, <1>2, <1>3, TypeIsNext

LEMMA LeavesTypes ==
    ASSUME SessionTypeOK, NEW t \in Tabs, Leaves(t)
    PROVE  /\ SessionTypeOK' /\ leaving'[t] = "gone" /\ stored' = None
           /\ access'[t] = None /\ restore'[t].at = "no"
           /\ \A s \in Tabs \ {t} : access'[s] = access[s] /\ restore'[s] = restore[s]
           /\ late' = (late \/ \E s \in Tabs : Exchanging(s))
           /\ UNCHANGED <<call, flight, locks, lock, server, events, broken, kicked>>
  <1>1. /\ SignedOut(t) /\ leaving' = [leaving EXCEPT ![t] = "gone"]
        /\ late' = (late \/ \E s \in Tabs : Exchanging(s))
        /\ UNCHANGED <<call, flight, locks, lock, server, events, broken, kicked>>
    BY DEF Leaves
  <1>2. leaving' \in [Tabs -> {"no", "asked", "gone"}] /\ leaving'[t] = "gone"
    BY <1>1 DEF SessionTypeOK
  <1>3. late' \in BOOLEAN
    BY <1>1 DEF SessionTypeOK
  <1>4. DataTyped' /\ call' \in [Tabs -> [Calls -> ApiCall]]
    BY <1>1, <1>2, <1>3, SignedOutTypes, TypeIs DEF DataTyped, server
  <1> QED
    BY <1>1, <1>2, <1>4, SignedOutTypes, TypeIsNext

-----------------------------------------------------------------------------
(* Sessions: the inductive invariant *)

\* Where the browser has locks, the tab that holds the lock is the only one
\* between its grant and the end of its exchange.
Exclusive ==
    locks => \A t \in Tabs : flight[t].at \notin {"none", "lock"} => lock = t

Calm == locks /\ ~broken /\ \A t \in Tabs : leaving[t] = "no"

\* Until somebody leaves or the session is broken, the token a tab sends is the one
\* in the store, and the one in the store is alive unless its successor is on
\* the way.
Kept ==
    Calm =>
        /\ kicked = {} /\ stored # None
        /\ \A t \in Tabs :
              /\ flight[t].at # "refused"
              /\ flight[t].at \in {"post", "checked"} => flight[t].sent = stored
              /\ flight[t].at = "answered" => flight[t].got \in live /\ flight[t].got # None
        /\ (\A t \in Tabs : flight[t].at \notin {"revoked", "answered"}) => stored \in live

\* After a sign-out that interrupted nobody, nobody exchanges any more.
Gone ==
    (\E t \in Tabs : leaving[t] = "gone") /\ ~late =>
        stored = None /\ \A t \in Tabs : ~Exchanging(t)

\* Every pair of tokens is in one place: with the tab that uses it, or on the way
\* to the tab that asked for it.  A tab that exchanges has no working token, a
\* page that asks who is signed in has the one it asked with.
Fresh ==
    /\ valid \subseteq 1 .. issued
    /\ \A t \in Tabs :
          /\ access[t] <= issued
          /\ flight[t].at # "none" => access[t] \notin valid
          /\ restore[t].at = "me" => access[t] = restore[t].with /\ access[t] \in valid
          /\ flight[t].at = "answered" => flight[t].got \in valid
    /\ \A t \in Tabs, s \in Tabs :
          /\ flight[t].at = "answered" => access[s] # flight[t].got
          /\ t # s /\ access[t] # None => access[s] # access[t]
          /\ t # s /\ flight[t].at = "answered" /\ flight[s].at = "answered" =>
                flight[t].got # flight[s].got

SessionInv == SessionTypeOK /\ Exclusive /\ Kept /\ Gone /\ Fresh

-----------------------------------------------------------------------------
(* Sessions: every step keeps the invariant *)

Others(t) == \A s \in Tabs \ {t} :
    /\ flight'[s] = flight[s] /\ access'[s] = access[s] /\ restore'[s] = restore[s]

\* What leaves the invariant out of account: calls, sign-outs under way, events.
LEMMA StillSession ==
    ASSUME SessionInv, SessionTypeOK',
           UNCHANGED <<stored, access, restore, flight, locks, lock, leaving, live, valid,
                       issued, broken, late, kicked>>
    PROVE  SessionInv'
  <1>1. Exclusive' /\ Kept' /\ Gone'
    BY DEF SessionInv, Exclusive, Kept, Calm, Gone, Exchanging
  <1>2. Fresh'
    BY DEF SessionInv, Fresh
  <1> QED
    BY <1>1, <1>2 DEF SessionInv

\* A tab that stops exchanging hands the lock back and is at rest.
LEMMA RestsExclusive ==
    ASSUME SessionInv, SessionTypeOK', NEW t \in Tabs, Releases(t), locks' = locks,
           flight'[t].at \in {"none", "lock"}, \A s \in Tabs \ {t} : flight'[s] = flight[s]
    PROVE  Exclusive'
  <1>1. lock # t => lock' = lock
    BY ReleasesTypes DEF SessionInv
  <1> QED
    BY <1>1 DEF SessionInv, Exclusive

LEMMA CallKeeps ==
    ASSUME SessionInv, NEW t \in Tabs, NEW c \in Calls, Send(t, c) \/ CallStep(t, c)
    PROVE  SessionInv'
  <1>1. /\ SessionTypeOK'
        /\ UNCHANGED <<stored, access, restore, locks, lock, leaving, server, history>>
        /\ \/ UNCHANGED flight
           \/ /\ flight[t].at = "none" /\ flight'[t].at = "lock"
              /\ \A s \in Tabs \ {t} : flight'[s] = flight[s]
              /\ access[t] = None \/ access[t] \notin valid
    BY CallTypes DEF SessionInv
  <1>2. CASE UNCHANGED flight
    BY <1>1, <1>2, StillSession DEF server, history
  <1>3. CASE /\ flight[t].at = "none" /\ flight'[t].at = "lock"
             /\ \A s \in Tabs \ {t} : flight'[s] = flight[s]
             /\ access[t] = None \/ access[t] \notin valid
    <2>1. Exclusive' /\ Kept' /\ Gone'
      BY <1>1, <1>3 DEF SessionInv, Exclusive, Kept, Calm, Gone, Exchanging, server, history
    <2>2. access[t] \notin valid
      BY <1>3 DEF SessionInv, Fresh, SessionTypeOK, None
    <2>3. Fresh'
      BY <1>1, <1>3, <2>2 DEF SessionInv, Fresh, server, history
    <2> QED
      BY <1>1, <2>1, <2>3 DEF SessionInv
  <1> QED
    BY <1>1, <1>2, <1>3

\* A tab without an access token stands in nobody's way.
LEMMA DropsAccess ==
    ASSUME SessionInv, NEW t \in Tabs, access'[t] = None, restore'[t].at # "me",
           \A s \in Tabs \ {t} : /\ flight'[s] = flight[s] /\ access'[s] = access[s]
                                 /\ restore'[s] = restore[s],
           flight'[t].at = "answered" => flight'[t] = flight[t],
           UNCHANGED <<valid, issued>>
    PROVE  Fresh'
  <1>1. /\ None \notin valid /\ None <= issued
        /\ \A s \in Tabs : flight[s].at = "answered" => flight[s].got # None
    BY DEF SessionInv, SessionTypeOK, Fresh, None
  <1>2. \A s \in Tabs :
           /\ access'[s] <= issued
           /\ flight'[s].at # "none" => access'[s] \notin valid
           /\ restore'[s].at = "me" => access'[s] = restore'[s].with /\ access'[s] \in valid
           /\ flight'[s].at = "answered" => flight'[s].got \in valid
    BY <1>1 DEF SessionInv, Fresh
  <1>3. \A r \in Tabs, s \in Tabs :
           flight'[r].at = "answered" => access'[s] # flight'[r].got
    BY <1>1 DEF SessionInv, Fresh
  <1>4. \A r \in Tabs, s \in Tabs :
           /\ r # s /\ access'[r] # None => access'[s] # access'[r]
           /\ r # s /\ flight'[r].at = "answered" /\ flight'[s].at = "answered" =>
                 flight'[r].got # flight'[s].got
    BY DEF SessionInv, Fresh
  <1> QED
    BY <1>2, <1>3, <1>4 DEF SessionInv, Fresh

\* A tab gives its session up: only where the session was over before.
LEMMA ExpiresKeeps ==
    ASSUME SessionInv, NEW t \in Tabs, Expires(t), ~Calm
    PROVE  SessionInv'
  <1>1. /\ SessionTypeOK' /\ stored' = None
        /\ flight'[t].at = "none" /\ \A s \in Tabs \ {t} : flight'[s] = flight[s]
        /\ access'[t] = None /\ restore'[t].at = "no"
        /\ \A s \in Tabs \ {t} : access'[s] = access[s] /\ restore'[s] = restore[s]
        /\ Releases(t) /\ UNCHANGED <<locks, leaving, server, events, broken, late>>
    BY ExpiresTypes DEF SessionInv
  <1>2. Exclusive'
    BY <1>1, RestsExclusive
  <1>3. Kept'
    BY <1>1 DEF SessionInv, Kept, Calm
  <1>4. Gone'
    BY <1>1 DEF SessionInv, Gone, Exchanging
  <1>5. Fresh'
    BY <1>1, DropsAccess DEF server
  <1> QED
    BY <1>1, <1>2, <1>3, <1>4, <1>5 DEF SessionInv

LEMMA GrantedKeeps ==
    ASSUME SessionInv, NEW t \in Tabs, Granted(t)
    PROVE  SessionInv'
  <1>1. /\ SessionTypeOK' /\ flight[t].at = "lock" /\ MayRotate(t)
        /\ \/ stored = None /\ Expires(t)
           \/ /\ stored # None
              /\ flight'[t].at = "post" /\ flight'[t].sent = stored
              /\ \A s \in Tabs \ {t} : flight'[s] = flight[s]
              /\ lock' = IF locks THEN t ELSE lock
              /\ UNCHANGED <<stored, access, call, restore, locks, leaving, server, history>>
    BY GrantedTypes DEF SessionInv
  <1>2. CASE stored = None /\ Expires(t)
    <2>1. ~Calm
      BY <1>2 DEF SessionInv, Kept
    <2> QED
      BY <1>2, <2>1, ExpiresKeeps
  <1>3. CASE /\ stored # None
             /\ flight'[t].at = "post" /\ flight'[t].sent = stored
             /\ \A s \in Tabs \ {t} : flight'[s] = flight[s]
             /\ lock' = IF locks THEN t ELSE lock
             /\ UNCHANGED <<stored, access, call, restore, locks, leaving, server, history>>
    <2>1. locks => \A s \in Tabs : flight[s].at \in {"none", "lock"}
      BY <1>1, SessionsAssumption DEF SessionInv, Exclusive, MayRotate
    <2>2. Exclusive'
      BY <1>3, <2>1 DEF Exclusive
    <2>3. Kept'
      BY <1>1, <1>3 DEF SessionInv, Kept, Calm, server, history
    <2>4. Gone'
      BY <1>3 DEF SessionInv, Gone, server, history
    <2>5. Fresh'
      BY <1>1, <1>3 DEF SessionInv, Fresh, server, history
    <2> QED
      BY <1>1, <2>2, <2>3, <2>4, <2>5 DEF SessionInv
  <1> QED
    BY <1>1, <1>2, <1>3

LEMMA MovesKeep ==
    ASSUME SessionInv, NEW t \in Tabs, ServerChecks(t) \/ RequestLost(t) \/ AnswerLost(t)
    PROVE  SessionInv'
  <1>1. /\ SessionTypeOK'
        /\ flight'[t].sent = flight[t].sent /\ flight'[t].got = flight[t].got
        /\ \A s \in Tabs \ {t} : flight'[s] = flight[s]
        /\ \/ /\ flight[t].at = "post" /\ broken' = broken
              /\ flight'[t].at = IF flight[t].sent \in live THEN "checked" ELSE "refused"
           \/ /\ flight[t].at \in {"post", "checked"} /\ flight'[t].at = "failed"
              /\ broken' = broken
           \/ /\ flight[t].at \in {"revoked", "answered"} /\ flight'[t].at = "failed"
              /\ broken' = TRUE
        /\ UNCHANGED <<stored, access, call, restore, locks, lock, leaving, server, events,
                       late, kicked>>
    BY MovesTypes DEF SessionInv
  <1>2. /\ flight[t].at \in {"post", "checked", "revoked", "answered"}
        /\ flight'[t].at \in {"checked", "refused", "failed"}
    BY <1>1
  <1>3. Exclusive'
    BY <1>1, <1>2 DEF SessionInv, Exclusive
  <1>4. Kept'
    <2> SUFFICES ASSUME Calm'
                 PROVE  Kept'
      BY DEF Kept
    <2>1. Calm /\ flight[t].at \in {"post", "checked"}
      BY <1>1 DEF Calm
    <2>2. \A s \in Tabs \ {t} : flight[s].at \in {"none", "lock"}
      BY <1>2, <2>1 DEF SessionInv, Exclusive, Calm
    <2>3. stored \in live
      BY <2>1, <2>2 DEF SessionInv, Kept
    <2>4. flight[t].sent = stored /\ kicked = {} /\ stored # None
      BY <2>1 DEF SessionInv, Kept
    <2>5. flight'[t].at \in {"checked", "failed"}
      BY <1>1, <2>1, <2>3, <2>4
    <2> QED
      BY <1>1, <2>2, <2>3, <2>4, <2>5 DEF Kept, server
  <1>5. Gone'
    BY <1>1, <1>2 DEF SessionInv, Gone, Exchanging, server
  <1>6. Fresh'
    BY <1>1, <1>2 DEF SessionInv, Fresh, server
  <1> QED
    BY <1>1, <1>3, <1>4, <1>5, <1>6 DEF SessionInv

LEMMA RevokesKeeps ==
    ASSUME SessionInv, NEW t \in Tabs, ServerRevokes(t)
    PROVE  SessionInv'
  <1>1. /\ SessionTypeOK' /\ flight[t].at = "checked" /\ flight'[t].at = "revoked"
        /\ flight'[t].got = flight[t].got
        /\ \A s \in Tabs \ {t} : flight'[s] = flight[s]
        /\ live' = live \ {flight[t].sent}
        /\ UNCHANGED <<stored, access, call, restore, locks, lock, leaving, valid, issued,
                       history>>
    BY RevokesTypes DEF SessionInv
  <1>2. Exclusive'
    BY <1>1 DEF SessionInv, Exclusive
  <1>3. Kept'
    <2> SUFFICES ASSUME Calm'
                 PROVE  Kept'
      BY DEF Kept
    <2>1. Calm
      BY <1>1 DEF Calm, history
    <2>2. \A s \in Tabs \ {t} : flight[s].at \in {"none", "lock"}
      BY <1>1, <2>1 DEF SessionInv, Exclusive, Calm
    <2>3. kicked = {} /\ stored # None
      BY <2>1 DEF SessionInv, Kept
    <2> QED
      BY <1>1, <2>2, <2>3 DEF Kept, history
  <1>4. Gone'
    BY <1>1 DEF SessionInv, Gone, Exchanging, history
  <1>5. Fresh'
    BY <1>1 DEF SessionInv, Fresh
  <1> QED
    BY <1>1, <1>2, <1>3, <1>4, <1>5 DEF SessionInv

LEMMA IssuesKeeps ==
    ASSUME SessionInv, NEW t \in Tabs, ServerIssues(t)
    PROVE  SessionInv'
  <1>1. /\ SessionTypeOK' /\ flight[t].at = "revoked"
        /\ flight'[t].at = "answered" /\ flight'[t].got = issued + 1
        /\ \A s \in Tabs \ {t} : flight'[s] = flight[s]
        /\ issued' = issued + 1
        /\ live' = live \cup {issued + 1}
        /\ valid' = valid \cup {issued + 1}
        /\ UNCHANGED <<stored, access, call, restore, locks, lock, leaving, history>>
    BY IssuesTypes DEF SessionInv
  <1>2. Exclusive'
    BY <1>1 DEF SessionInv, Exclusive
  <1>3. issued \in Nat
    BY DEF SessionInv, SessionTypeOK
  <1>4. Kept'
    <2> SUFFICES ASSUME Calm'
                 PROVE  Kept'
      BY DEF Kept
    <2>1. Calm
      BY <1>1 DEF Calm, history
    <2>2. \A s \in Tabs \ {t} : flight[s].at \in {"none", "lock"}
      BY <1>1, <2>1 DEF SessionInv, Exclusive, Calm
    <2>3. kicked = {} /\ stored # None
      BY <2>1 DEF SessionInv, Kept
    <2>4. issued + 1 # None
      BY <1>3 DEF None
    <2>5. issued + 1 \in live'
      BY <1>1
    <2> QED
      BY <1>1, <2>2, <2>3, <2>4, <2>5 DEF Kept, history
  <1>5. Gone'
    BY <1>1 DEF SessionInv, Gone, Exchanging, history
  <1>6. Fresh'
    <2>1. valid' \subseteq 1 .. issued' /\ valid \subseteq valid'
      BY <1>1, <1>3 DEF SessionInv, Fresh
    <2>2. issued + 1 \notin valid /\ \A s \in Tabs : access[s] \in Nat /\ access[s] < issued + 1
      BY <1>3 DEF SessionInv, SessionTypeOK, Fresh
    <2>3. \A s \in Tabs : flight[s].at = "answered" => flight[s].got # issued + 1
      BY <2>2 DEF SessionInv, Fresh
    <2>4. \A s \in Tabs :
             /\ access'[s] <= issued'
             /\ flight'[s].at # "none" => access'[s] \notin valid'
             /\ restore'[s].at = "me" => access'[s] = restore'[s].with /\ access'[s] \in valid'
             /\ flight'[s].at = "answered" => flight'[s].got \in valid'
      BY <1>1, <1>3, <2>2 DEF SessionInv, Fresh
    <2>5. \A r \in Tabs, s \in Tabs :
             /\ flight'[r].at = "answered" => access'[s] # flight'[r].got
             /\ r # s /\ access'[r] # None => access'[s] # access'[r]
             /\ r # s /\ flight'[r].at = "answered" /\ flight'[s].at = "answered" =>
                   flight'[r].got # flight'[s].got
      BY <1>1, <2>2, <2>3 DEF SessionInv, Fresh
    <2> QED
      BY <2>1, <2>4, <2>5 DEF Fresh
  <1> QED
    BY <1>1, <1>2, <1>4, <1>5, <1>6 DEF SessionInv

LEMMA SucceedsKeeps ==
    ASSUME SessionInv, NEW t \in Tabs, Succeeds(t)
    PROVE  SessionInv'
  <1>1. /\ SessionTypeOK' /\ flight[t].at = "answered"
        /\ flight'[t].at = "none" /\ \A s \in Tabs \ {t} : flight'[s] = flight[s]
        /\ stored' = flight[t].got /\ access'[t] = flight[t].got
        /\ \A s \in Tabs \ {t} : access'[s] = access[s] /\ restore'[s] = restore[s]
        /\ \/ restore'[t].at = "me" /\ restore'[t].with = flight[t].got
           \/ restore'[t] = restore[t] /\ restore[t].at # "waits"
        /\ Releases(t)
        /\ UNCHANGED <<locks, leaving, server, history>>
    BY SucceedsTypes DEF SessionInv
  <1>2. Exclusive'
    BY <1>1, RestsExclusive
  <1>3. Kept'
    <2> SUFFICES ASSUME Calm'
                 PROVE  Kept'
      BY DEF Kept
    <2>1. Calm
      BY <1>1 DEF Calm, history
    <2>2. \A s \in Tabs \ {t} : flight[s].at \in {"none", "lock"}
      BY <1>1, <2>1 DEF SessionInv, Exclusive, Calm
    <2>3. kicked = {} /\ flight[t].got \in live /\ flight[t].got # None
      BY <1>1, <2>1 DEF SessionInv, Kept
    <2> QED
      BY <1>1, <2>2, <2>3 DEF Kept, server, history
  <1>4. Gone'
    BY <1>1 DEF SessionInv, Gone, Exchanging, history
  <1>5. flight[t].got \in valid /\ flight[t].got \in 1 .. issued /\ access[t] \notin valid
    BY <1>1 DEF SessionInv, Fresh
  <1>6. issued \in Nat
    BY DEF SessionInv, SessionTypeOK
  <1>7. Fresh'
    <2>1. restore'[t].at = "me" => restore'[t].with = flight[t].got
      BY <1>1, <1>5 DEF SessionInv, Fresh
    <2>2. \A s \in Tabs :
             /\ access'[s] <= issued
             /\ flight'[s].at # "none" => access'[s] \notin valid
             /\ restore'[s].at = "me" => access'[s] = restore'[s].with /\ access'[s] \in valid
             /\ flight'[s].at = "answered" => flight'[s].got \in valid
      BY <1>1, <1>5, <1>6, <2>1 DEF SessionInv, Fresh
    <2>3. \A r \in Tabs, s \in Tabs :
             /\ flight'[r].at = "answered" => access'[s] # flight'[r].got
             /\ r # s /\ access'[r] # None => access'[s] # access'[r]
             /\ r # s /\ flight'[r].at = "answered" /\ flight'[s].at = "answered" =>
                   flight'[r].got # flight'[s].got
      BY <1>1 DEF SessionInv, Fresh
    <2> QED
      BY <1>1, <2>2, <2>3 DEF Fresh, server, SessionInv
  <1> QED
    BY <1>1, <1>2, <1>3, <1>4, <1>7 DEF SessionInv

LEMMA RefusedKeeps ==
    ASSUME SessionInv, NEW t \in Tabs, Refused(t)
    PROVE  SessionInv'
  <1>1. /\ SessionTypeOK' /\ flight[t].at = "refused"
        /\ \/ /\ flight'[t].at = "post" /\ flight'[t].sent = stored
              /\ \A s \in Tabs \ {t} : flight'[s] = flight[s]
              /\ UNCHANGED <<stored, access, call, restore, locks, lock, leaving, server,
                             history>>
           \/ Expires(t)
    BY RefusedTypes DEF SessionInv
  <1>2. ~Calm
    BY <1>1 DEF SessionInv, Kept
  <1>3. CASE Expires(t)
    BY <1>2, <1>3, ExpiresKeeps
  <1>4. CASE /\ flight'[t].at = "post" /\ flight'[t].sent = stored
             /\ \A s \in Tabs \ {t} : flight'[s] = flight[s]
             /\ UNCHANGED <<stored, access, call, restore, locks, lock, leaving, server, history>>
    <2>1. Exclusive'
      BY <1>1, <1>4 DEF SessionInv, Exclusive
    <2>2. Kept'
      BY <1>2, <1>4 DEF Kept, Calm, history
    <2>3. Gone'
      BY <1>1, <1>4 DEF SessionInv, Gone, Exchanging, history
    <2>4. Fresh'
      BY <1>1, <1>4 DEF SessionInv, Fresh, server
    <2> QED
      BY <1>1, <2>1, <2>2, <2>3, <2>4 DEF SessionInv
  <1> QED
    BY <1>1, <1>3, <1>4

LEMMA FailsKeeps ==
    ASSUME SessionInv, NEW t \in Tabs, Fails(t)
    PROVE  SessionInv'
  <1>1. /\ SessionTypeOK' /\ flight[t].at = "failed"
        /\ flight'[t].at = "none" /\ \A s \in Tabs \ {t} : flight'[s] = flight[s]
        /\ \A s \in Tabs : restore'[s] = restore[s] \/ restore'[s].at = "no"
        /\ Releases(t)
        /\ UNCHANGED <<stored, access, locks, leaving, server, history>>
    BY FailsTypes DEF SessionInv
  <1>2. Exclusive'
    BY <1>1, RestsExclusive
  <1>3. Kept'
    BY <1>1 DEF SessionInv, Kept, Calm, server, history
  <1>4. Gone'
    BY <1>1 DEF SessionInv, Gone, Exchanging, history
  <1>5. Fresh'
    BY <1>1 DEF SessionInv, Fresh, server
  <1> QED
    BY <1>1, <1>2, <1>3, <1>4, <1>5 DEF SessionInv

LEMMA RestoredKeeps ==
    ASSUME SessionInv, NEW t \in Tabs, Restored(t) \/ RestoreFails(t)
    PROVE  SessionInv' /\ access'[t] \in {None, access[t]}
  <1>1. /\ SessionTypeOK' /\ restore[t].at = "me" /\ restore'[t].at = "no"
        /\ \A s \in Tabs \ {t} : access'[s] = access[s] /\ restore'[s] = restore[s]
        /\ access'[t] \in {None, access[t], restore[t].with}
        /\ UNCHANGED <<stored, call, flight, locks, lock, leaving, server, history>>
    BY RestoredTypes DEF SessionInv
  <1>2. access'[t] \in {None, access[t]}
    BY <1>1 DEF SessionInv, Fresh
  <1>3. Exclusive' /\ Kept' /\ Gone'
    BY <1>1 DEF SessionInv, Exclusive, Kept, Calm, Gone, Exchanging, server, history
  <1>4. Fresh'
    <2>1. CASE access'[t] = None
      BY <1>1, <2>1, DropsAccess DEF server
    <2>2. CASE access'[t] = access[t]
      BY <1>1, <2>2 DEF SessionInv, Fresh, server
    <2> QED
      BY <1>2, <2>1, <2>2
  <1> QED
    BY <1>1, <1>2, <1>3, <1>4 DEF SessionInv

LEMMA RestoreRefusedKeeps ==
    ASSUME SessionInv, NEW t \in Tabs, RestoreRefused(t)
    PROVE  SessionInv'
  <1>1. /\ SessionTypeOK' /\ stored' = None /\ broken' = TRUE
        /\ access'[t] = None /\ restore'[t].at = "no"
        /\ \A s \in Tabs \ {t} : access'[s] = access[s] /\ restore'[s] = restore[s]
        /\ UNCHANGED <<call, flight, locks, lock, leaving, server, events, late, kicked>>
    BY RestoreRefusedTypes DEF SessionInv
  <1>2. Exclusive' /\ Kept' /\ Gone'
    BY <1>1 DEF SessionInv, Exclusive, Kept, Calm, Gone, Exchanging
  <1>3. Fresh'
    BY <1>1, DropsAccess DEF server
  <1> QED
    BY <1>1, <1>2, <1>3 DEF SessionInv

LEMMA ReloadKeeps ==
    ASSUME SessionInv, NEW t \in Tabs, Reload(t)
    PROVE  SessionInv'
  <1>1. /\ SessionTypeOK'
        /\ flight[t].at \in {"none", "lock", "answered"} /\ flight'[t].at \in {"none", "lock"}
        /\ \A s \in Tabs \ {t} : flight'[s] = flight[s]
        /\ access'[t] = None /\ restore'[t].at # "me"
        /\ \A s \in Tabs \ {t} : access'[s] = access[s] /\ restore'[s] = restore[s]
        /\ broken' = (broken \/ flight[t].at = "answered")
        /\ Releases(t)
        /\ UNCHANGED <<stored, locks, leaving, server, late, kicked>>
    BY ReloadTypes DEF SessionInv
  <1>2. Exclusive'
    BY <1>1, RestsExclusive
  <1>3. Kept'
    <2> SUFFICES ASSUME Calm'
                 PROVE  Kept'
      BY DEF Kept
    <2>1. Calm /\ flight[t].at # "answered"
      BY <1>1 DEF Calm
    <2>2. \A s \in Tabs : flight'[s].at # "answered" => flight[s].at # "answered"
      BY <1>1, <2>1
    <2> QED
      BY <1>1, <2>1, <2>2 DEF SessionInv, Kept, server
  <1>4. Gone'
    BY <1>1 DEF SessionInv, Gone, Exchanging
  <1>5. Fresh'
    BY <1>1, DropsAccess DEF server
  <1> QED
    BY <1>1, <1>2, <1>3, <1>4, <1>5 DEF SessionInv

LEMMA TimeKeeps ==
    ASSUME SessionInv, NEW t \in Tabs, AccessExpires(t)
    PROVE  SessionInv'
  <1>1. /\ SessionTypeOK' /\ restore[t].at # "me" /\ valid' = valid \ {access[t]}
        /\ UNCHANGED <<stored, access, call, restore, flight, locks, lock, live, issued,
                       leaving, broken, late, kicked>>
    BY TimeTypes DEF SessionInv
  <1>2. access[t] \in valid
    BY DEF AccessExpires
  <1>3. Exclusive' /\ Kept' /\ Gone'
    BY <1>1 DEF SessionInv, Exclusive, Kept, Calm, Gone, Exchanging
  <1>4. access[t] # None
    BY <1>2 DEF SessionInv, SessionTypeOK, Fresh, None
  <1>5. Fresh'
    BY <1>1, <1>2, <1>4 DEF SessionInv, Fresh
  <1> QED
    BY <1>1, <1>3, <1>5 DEF SessionInv

LEMMA RefreshExpiresKeeps ==
    ASSUME SessionInv, RefreshExpires
    PROVE  SessionInv'
  <1>1. /\ SessionTypeOK' /\ broken' = TRUE
        /\ UNCHANGED <<stored, access, call, restore, flight, locks, lock, valid, issued,
                       leaving, late, kicked>>
    BY RefreshExpiresTypes DEF SessionInv
  <1>2. Exclusive' /\ Kept' /\ Gone'
    BY <1>1 DEF SessionInv, Exclusive, Kept, Calm, Gone, Exchanging
  <1>3. Fresh'
    BY <1>1 DEF SessionInv, Fresh
  <1> QED
    BY <1>1, <1>2, <1>3 DEF SessionInv

LEMMA LeavingKeeps ==
    ASSUME SessionInv, NEW t \in Tabs, AsksToLeave(t) \/ Leaves(t)
    PROVE  SessionInv'
  <1>1. CASE AsksToLeave(t)
    <2>1. /\ SessionTypeOK' /\ leaving[t] = "no" /\ leaving'[t] = "asked"
          /\ \A s \in Tabs \ {t} : leaving'[s] = leaving[s]
          /\ UNCHANGED <<stored, access, call, restore, flight, locks, lock, valid, issued,
                         history>>
      BY <1>1, AsksTypes DEF SessionInv
    <2>2. Exclusive' /\ Kept' /\ Gone'
      BY <2>1 DEF SessionInv, Exclusive, Kept, Calm, Gone, Exchanging, history
    <2>3. Fresh'
      BY <2>1 DEF SessionInv, Fresh
    <2> QED
      BY <2>1, <2>2, <2>3 DEF SessionInv
  <1>2. CASE Leaves(t)
    <2>1. /\ SessionTypeOK' /\ leaving'[t] = "gone" /\ stored' = None
          /\ access'[t] = None /\ restore'[t].at = "no"
          /\ \A s \in Tabs \ {t} : access'[s] = access[s] /\ restore'[s] = restore[s]
          /\ late' = (late \/ \E s \in Tabs : Exchanging(s))
          /\ UNCHANGED <<call, flight, locks, lock, server, events, broken, kicked>>
      BY <1>2, LeavesTypes DEF SessionInv
    <2>2. Exclusive' /\ Kept'
      BY <2>1 DEF SessionInv, Exclusive, Kept, Calm
    <2>3. Gone'
      BY <2>1 DEF Gone, Exchanging
    <2>4. Fresh'
      BY <2>1, DropsAccess DEF server
    <2> QED
      BY <2>1, <2>2, <2>3, <2>4 DEF SessionInv
  <1> QED
    BY <1>1, <1>2

LEMMA SessionBegins == SessionInit => SessionInv
  <1> SUFFICES ASSUME SessionInit
               PROVE  SessionInv
    OBVIOUS
  <1>1. /\ stored = 1 /\ live = {1} /\ issued = 1 /\ valid = {} /\ lock = NoTab
        /\ access = [t \in Tabs |-> None]
        /\ call = [t \in Tabs |-> [c \in Calls |-> Unsent]]
        /\ restore = [t \in Tabs |-> [at |-> "waits", with |-> None]]
        /\ leaving = [t \in Tabs |-> "no"] /\ locks \in BOOLEAN
        /\ events = 0 /\ broken = FALSE /\ late = FALSE /\ kicked = {}
    BY DEF SessionInit
  <1>2. PICK f \in Exchange : f.at = "lock" /\ flight = [t \in Tabs |-> f]
    BY RestingIs DEF SessionInit
  <1>3. [at |-> "waits", with |-> None] \in [at : {"no", "waits", "me"}, with : Nat]
        /\ None \in Nat /\ 0 \in 0 .. MaxEvents
    BY SessionsAssumption DEF None
  <1>4. [c \in Calls |-> Unsent] \in [Calls -> ApiCall]
    BY UnsentIs
  <1>5. DataTyped /\ call \in [Tabs -> [Calls -> ApiCall]]
    <2>1. /\ access \in [Tabs -> Nat] /\ flight \in [Tabs -> Exchange]
          /\ restore \in [Tabs -> [at : {"no", "waits", "me"}, with : Nat]]
          /\ leaving \in [Tabs -> {"no", "asked", "gone"}]
      BY <1>1, <1>2, <1>3
    <2>2. call \in [Tabs -> [Calls -> ApiCall]]
      BY <1>1, <1>4
    <2>3. /\ stored \in Nat /\ live \subseteq Nat /\ valid \subseteq Nat /\ issued \in Nat
          /\ lock \in Tabs \cup {NoTab} /\ events \in 0 .. MaxEvents /\ kicked \subseteq Tabs
      BY <1>1, <1>3
    <2> QED
      BY <1>1, <2>1, <2>2, <2>3 DEF DataTyped
  <1>6. SessionTypeOK
    BY <1>5, TypeIs
  <1>7. Exclusive /\ Kept /\ Gone
    BY <1>1, <1>2 DEF Exclusive, Kept, Calm, Gone, Exchanging, None
  <1>8. Fresh
    BY <1>1, <1>2 DEF Fresh, None
  <1> QED
    BY <1>6, <1>7, <1>8 DEF SessionInv

LEMMA SessionKeeps == SessionInv /\ [SessionNext]_sessionVars => SessionInv'
  <1> SUFFICES ASSUME SessionInv, [SessionNext]_sessionVars
               PROVE  SessionInv'
    OBVIOUS
  <1>1. CASE UNCHANGED sessionVars
    <2>1. SessionTypeOK'
      BY <1>1 DEF SessionInv, SessionTypeOK, sessionVars
    <2> QED
      BY <1>1, <2>1, StillSession DEF sessionVars
  <1>2. CASE RefreshExpires
    BY <1>2, RefreshExpiresKeeps
  <1>3. CASE \E t \in Tabs : TabStep(t)
    <2>1. PICK t \in Tabs : TabStep(t)
      BY <1>3
    <2>2. CASE \E c \in Calls : Send(t, c) \/ CallStep(t, c)
      BY <2>2, CallKeeps
    <2>3. CASE Granted(t)
      BY <2>3, GrantedKeeps
    <2>4. CASE ExchangeStep(t)
      BY <2>4, MovesKeep, RevokesKeeps, IssuesKeeps, SucceedsKeeps, RefusedKeeps, FailsKeeps
      DEF ExchangeStep
    <2>5. CASE RequestLost(t) \/ AnswerLost(t)
      BY <2>5, MovesKeep
    <2>6. CASE HydratorStep(t)
      BY <2>6, RestoredKeeps, RestoreRefusedKeeps DEF HydratorStep
    <2>7. CASE Reload(t)
      BY <2>7, ReloadKeeps
    <2>8. CASE AccessExpires(t)
      BY <2>8, TimeKeeps
    <2>9. CASE AsksToLeave(t) \/ Leaves(t)
      BY <2>9, LeavingKeeps
    <2> QED
      BY <2>1, <2>2, <2>3, <2>4, <2>5, <2>6, <2>7, <2>8, <2>9 DEF TabStep
  <1> QED
    BY <1>1, <1>2, <1>3 DEF SessionNext

\* The invariant of a session holds in every state.
THEOREM SessionInvariant == SessionSpec => []SessionInv
  BY SessionBegins, SessionKeeps, PTL DEF SessionSpec

\* However the calls, exchanges and page loads of the tabs interleave, the state
\* of the session keeps its type.
THEOREM SessionTypeCorrect == SessionSpec => []SessionTypeOK
  <1>1. SessionInv => SessionTypeOK
    BY DEF SessionInv
  <1> QED
    BY <1>1, SessionInvariant, PTL

\* Any number of tabs: with navigator.locks the tabs keep their session, and nobody
\* is sent to the sign-in page, whatever they refresh, reload and fail, unless an
\* exchange is lost between revocation and answer, the stored token runs out, a page
\* load is refused, or somebody signs out.
THEOREM NobodyForcedOut == SessionSpec => []NoForcedSignOut
  <1>1. SessionInv => NoForcedSignOut
    BY DEF SessionInv, Kept, Calm, NoForcedSignOut
  <1> QED
    BY <1>1, SessionInvariant, PTL

\* After a sign-out that interrupted no exchange, no tab stores a token again.
THEOREM SignedOutForGood == SessionSpec => []SignOutHolds
  <1>1. SessionInv => SignOutHolds
    BY DEF SessionInv, Gone, SignOutHolds
  <1> QED
    BY <1>1, SessionInvariant, PTL

\* A step that gives a tab a newer access token finds the old one expired.
LEMMA NewerOnlyThen ==
    ASSUME SessionInv, [SessionNext]_sessionVars, NEW t \in Tabs, access[t] # None,
           access'[t] > access[t]
    PROVE  access[t] \notin valid
  <1>0. access[t] \in Nat /\ access'[t] # access[t] /\ access'[t] # None
    <2>1. access[t] \in Nat
      BY DEF SessionInv, SessionTypeOK
    <2> QED
      BY <2>1 DEF None
  <1>1. SessionNext
    BY <1>0 DEF sessionVars
  <1>2. PICK s \in Tabs : TabStep(s)
    <2>1. CASE RefreshExpires
      BY <1>0, <2>1 DEF RefreshExpires
    <2> QED
      BY <1>1, <2>1 DEF SessionNext
  <1>3. SessionTypeOK
    BY DEF SessionInv
  <1>4. ASSUME \E c \in Calls : Send(s, c) \/ CallStep(s, c)
        PROVE  FALSE
    BY <1>0, <1>3, <1>4, CallTypes
  <1>5. ASSUME Expires(s)
        PROVE  FALSE
    BY <1>0, <1>3, <1>5, ExpiresTypes
  <1>6. ASSUME Granted(s) \/ Refused(s)
        PROVE  FALSE
    BY <1>0, <1>3, <1>5, <1>6, GrantedTypes, RefusedTypes
  <1>7. ASSUME \/ ServerChecks(s) \/ RequestLost(s) \/ AnswerLost(s)
               \/ ServerRevokes(s) \/ ServerIssues(s) \/ Fails(s)
        PROVE  FALSE
    BY <1>0, <1>3, <1>7, MovesTypes, RevokesTypes, IssuesTypes, FailsTypes
  <1>8. ASSUME HydratorStep(s)
        PROVE  FALSE
    BY <1>0, <1>3, <1>8, RestoredKeeps, RestoredTypes, RestoreRefusedTypes DEF HydratorStep
  <1>9. ASSUME Reload(s) \/ Leaves(s)
        PROVE  FALSE
    BY <1>0, <1>3, <1>9, ReloadTypes, LeavesTypes
  <1>10. ASSUME AccessExpires(s) \/ AsksToLeave(s)
         PROVE  FALSE
    BY <1>0, <1>3, <1>10, TimeTypes, AsksTypes
  <1>11. Succeeds(s)
    BY <1>2, <1>4, <1>6, <1>7, <1>8, <1>9, <1>10
    DEF TabStep, ExchangeStep
  <1>12. flight[s].at = "answered" /\ \A r \in Tabs \ {s} : access'[r] = access[r]
    BY <1>3, <1>11, SucceedsTypes
  <1>13. s = t
    BY <1>0, <1>12
  <1> QED
    BY <1>12, <1>13 DEF SessionInv, Fresh

\* No exchange replaces an access token that still works, however late the 401
\* that asked for it arrives and however many calls ask at once.
THEOREM RotatesWhenExpired == SessionSpec => RotatesOnlyExpired
  <1>1. SessionInv /\ [SessionNext]_sessionVars =>
           [\A t \in Tabs : access[t] # None /\ access'[t] > access[t] =>
                access[t] \notin valid]_sessionVars
    BY NewerOnlyThen
  <1> QED
    BY <1>1, SessionInvariant, PTL DEF SessionSpec, RotatesOnlyExpired
=============================================================================
