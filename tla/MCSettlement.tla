---------------------------- MODULE MCSettlement ----------------------------
(***************************************************************************)
(* Instances of Settlement: two bids of two members, so that the auction   *)
(* ends with no bid, a bid that was withdrawn, a leader alone, or a leader *)
(* with one that was outbid or withdrawn.                                  *)
(***************************************************************************)
EXTENDS Settlement, TLC

CONSTANTS seller, alice, bob, a1, b1, none

MCBidder == (a1 :> alice) @@ (b1 :> bob)
=============================================================================
