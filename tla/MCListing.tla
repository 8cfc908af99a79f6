----------------------------- MODULE MCListing ------------------------------
(***************************************************************************)
(* Instances of Listing: two bidders and the seller contend for one        *)
(* listing while the clock passes its lock and its end.                    *)
(***************************************************************************)
EXTENDS Listing, TLC

CONSTANTS alice, bob, seller, a1, a2, b1, ax, w1, w2, none

\* alice makes a1, a2 and the buyout ax; bob makes b1
MCBidder == [b \in Bids |-> IF b = b1 THEN bob ELSE alice]

Workmates == Permutations({w1, w2})
=============================================================================
