-------------------------------- MODULE Deal --------------------------------
(***************************************************************************)
(* What the end of an auction promises its parties, with no workflow, no   *)
(* services and no failures: the listing is sold to one bid, whose gold is *)
(* spent, or it is called off and nothing ever is.  Only a sale pays the   *)
(* seller and delivers the item, each once, and gold once given back or    *)
(* spent stays so.                                                         *)
(***************************************************************************)
CONSTANT Bids

VARIABLES
    outcome,    \* of the auction
    gold,       \* gold[b]: what became of the gold bid b put up
    paid,       \* whether the seller has been paid
    delivered   \* whether the item has gone to the buyer

vars == <<outcome, gold, paid, delivered>>

Init ==
    /\ outcome = "open"
    /\ gold \in [Bids -> {"none", "held", "back"}]
    /\ ~paid /\ ~delivered

\* the pivot
Sell(b) ==
    /\ outcome = "open" /\ gold[b] = "held"
    /\ outcome' = "sold"
    /\ gold' = [gold EXCEPT ![b] = "spent"]
    /\ UNCHANGED <<paid, delivered>>

CallOff ==
    /\ outcome = "open"
    /\ outcome' = "unsold"
    /\ UNCHANGED <<gold, paid, delivered>>

GiveBack(b) ==
    /\ gold[b] = "held"
    /\ gold' = [gold EXCEPT ![b] = "back"]
    /\ UNCHANGED <<outcome, paid, delivered>>

Pay == outcome = "sold" /\ ~paid /\ paid' = TRUE /\ UNCHANGED <<outcome, gold, delivered>>

Deliver ==
    outcome = "sold" /\ ~delivered /\ delivered' = TRUE /\ UNCHANGED <<outcome, gold, paid>>

Next == CallOff \/ Pay \/ Deliver \/ \E b \in Bids : Sell(b) \/ GiveBack(b)

Spec == Init /\ [][Next]_vars

=============================================================================
