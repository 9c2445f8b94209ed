------------------------------ MODULE StockLedger ------------------------------
(***************************************************************************)
(* What the add-on stock promises its callers, and nothing else: an order  *)
(* claims units of several variants at once, if all of them are free, and  *)
(* its claim ends once, sold or returned.  There are no counters, quotes,  *)
(* deadlines or jobs here; AddOnStock implements this.                     *)
(***************************************************************************)
EXTENDS Naturals, FiniteSets

CONSTANTS Orders, Variants, MaxLine, StartStock

VARIABLES
    claim, \* of each order: none, held, sold or returned
    units, \* the units of each variant it claims
    total  \* the units of each variant there are

vars == <<claim, units, total>>

\* The units of v that claims keep from others.
Promised(v) ==
    {u \in Orders \X (1 .. MaxLine) :
        claim[u[1]] \in {"held", "sold"} /\ u[2] <= units[u[1]][v]}

Init ==
    /\ claim = [r \in Orders |-> "none"]
    /\ units = [r \in Orders |-> [v \in Variants |-> 0]]
    /\ total = StartStock

Hold(r, lines) ==
    /\ claim[r] = "none"
    /\ \A v \in Variants : Cardinality(Promised(v)) + lines[v] <= total[v]
    /\ claim' = [claim EXCEPT ![r] = "held"]
    /\ units' = [units EXCEPT ![r] = lines]
    /\ UNCHANGED total

Sell(r) ==
    /\ claim[r] = "held"
    /\ claim' = [claim EXCEPT ![r] = "sold"]
    /\ UNCHANGED <<units, total>>

Return(r) ==
    /\ claim[r] = "held"
    /\ claim' = [claim EXCEPT ![r] = "returned"]
    /\ UNCHANGED <<units, total>>

\* The organizer changes the stock, never to less than what is promised.
Restock ==
    /\ total' \in [Variants -> Nat]
    /\ \A v \in Variants : Cardinality(Promised(v)) <= total'[v]
    /\ UNCHANGED <<claim, units>>

Next ==
    \/ \E r \in Orders :
          \/ \E lines \in [Variants -> 0 .. MaxLine] : Hold(r, lines)
          \/ Sell(r) \/ Return(r)
    \/ Restock

Spec == Init /\ [][Next]_vars
=============================================================================
