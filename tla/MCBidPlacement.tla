--------------------------- MODULE MCBidPlacement ---------------------------
(***************************************************************************)
(* Instances of BidPlacement: alice and bob bid against each other, and    *)
(* alice may buy out.                                                      *)
(***************************************************************************)
EXTENDS BidPlacement, TLC

CONSTANTS alice, bob, seller, a1, b1, ax, ay, w1, w2, none

\* bob makes b1; alice makes a1 and the buyouts ax and ay
MCBidder == [b \in Bids |-> IF b = b1 THEN bob ELSE alice]

Workmates == Permutations({w1, w2})
=============================================================================
