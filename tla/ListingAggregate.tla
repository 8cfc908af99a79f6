-------------------------- MODULE ListingAggregate --------------------------
(***************************************************************************)
(* marketplace-service's aggregate root: one listing with its bids, and    *)
(* the verbs of domain/listing/listing.go as operators on it.  A verb      *)
(* comes in two parts: MayX, the conditions under which it is not refused, *)
(* and X, what it makes of the listing.  No bid's identity is minted here: *)
(* a keyed bid's id is derived from its member and its key (PlaceBidID,    *)
(* BuyoutBidID), so an id stands for the key, the member and the type too. *)
(***************************************************************************)
EXTENDS Integers, FiniteSets

CONSTANTS
    Bids,         \* bid ids
    Members,      \* accounts
    Seller,       \* the listing's seller
    Bidder,       \* Bidder[b]: the member bid b is made by
    Buyouts,      \* the ids of BUYOUT bids; the others are BIDs
    Amounts,      \* gold a bid may offer
    StartPrice,
    BuyoutPrice,  \* 0 where the seller set none
    Cap,          \* bidWithdrawalCap
    LockFrom,     \* endsAt less LeaderWithdrawLock, and less ListingWithdrawLock
    EndsAt

ASSUME ListingConstants ==
    /\ IsFiniteSet(Bids)
    /\ Seller \in Members
    /\ Bidder \in [Bids -> Members]
    /\ Buyouts \subseteq Bids
    /\ Amounts \subseteq Nat \ {0}
    /\ StartPrice \in Nat \ {0} /\ BuyoutPrice \in Nat
    /\ BuyoutPrice # 0 => StartPrice < BuyoutPrice
    /\ Cap \in Nat \ {0}
    /\ LockFrom \in Nat /\ EndsAt \in Nat /\ LockFrom < EndsAt

-----------------------------------------------------------------------------
(* The state.                                                              *)

ListingStatuses ==
    {"ACTIVE", "CANCELLED", "PENDING_SETTLEMENT", "EXPIRED", "SOLD", "SETTLEMENT_FAILED"}
BidStatuses == {"PENDING", "WINNING", "OUTBID", "WON", "LOST", "CANCELLED", "FAILED"}

\* the bids that hold gold, or may: isLive
LiveBid == {"PENDING", "WINNING", "OUTBID"}

NoBid == [status |-> "NONE", amount |-> 0, led |-> FALSE]
Unsold == [buyer |-> "nobody", price |-> 0]

\* led is withdrawnWhileLeading
Bid == [status : BidStatuses, amount : Nat \ {0}, led : BOOLEAN] \cup {NoBid}
Sale == [buyer : Members, price : Nat \ {0}] \cup {Unsold}
Listing == [status : ListingStatuses, bids : [Bids -> Bid], sold : Sale, version : Nat]

NewListing ==
    [status |-> "ACTIVE", bids |-> [b \in Bids |-> NoBid], sold |-> Unsold, version |-> 0]

Having(l, S) == {b \in Bids : l.bids[b].status \in S}
Recorded(l) == {b \in Bids : l.bids[b] # NoBid}
Winning(l) == Having(l, {"WINNING"})

\* the highest bids of B
Highest(l, B) == {b \in B : \A c \in B : l.bids[c].amount <= l.bids[b].amount}

\* the two whitelists
CanBidTransition(from, to) ==
    \/ from = "PENDING" /\ to \in {"WINNING", "OUTBID", "FAILED", "CANCELLED", "LOST"}
    \/ from = "WINNING" /\ to \in {"OUTBID", "WON", "CANCELLED", "LOST"}
    \/ from = "OUTBID" /\ to \in {"LOST", "WINNING", "CANCELLED"}
    \/ from = "WON" /\ to = "LOST"

CanTransition(from, to) ==
    \/ from = "ACTIVE" /\ to \in {"CANCELLED", "PENDING_SETTLEMENT", "EXPIRED"}
    \/ from = "PENDING_SETTLEMENT" /\ to \in {"SOLD", "CANCELLED", "EXPIRED", "SETTLEMENT_FAILED"}

\* l with the bids of B in status s
Move(l, B, s) ==
    [l EXCEPT !.bids = [b \in Bids |-> IF b \in B THEN [l.bids[b] EXCEPT !.status = s]
                                       ELSE l.bids[b]]]

-----------------------------------------------------------------------------
(* Placing and confirming a bid.                                           *)

\* mutant: a landed buyout leaves the listing open
NeverBoughtOut(l) == FALSE

BoughtOut(l) == Recorded(l) \cap Buyouts # {}

\* mutant: the freeze does not close the bidding
OpenWhenFrozen(l) == l.status \in {"ACTIVE", "PENDING_SETTLEMENT"} /\ ~BoughtOut(l)

\* acceptingBidChanges
AcceptsBidChanges(l) == l.status = "ACTIVE" /\ ~BoughtOut(l)

AcceptsBidAt(l, t) == AcceptsBidChanges(l) /\ t < EndsAt

CanPlaceBid(l, m, t) == m # Seller /\ AcceptsBidAt(l, t)

WithinBidWithdrawalCap(l, m) ==
    Cardinality({b \in Having(l, {"CANCELLED"}) : Bidder[b] = m /\ l.bids[b].led}) < Cap

\* findContendingBid: an unconfirmed bid sets the bar too
Contending(l) == Highest(l, Having(l, {"WINNING", "PENDING"}))

NotLeading(l, m) == \A c \in Contending(l) : Bidder[c] # m

AcceptsBidAmount(l, amount) ==
    /\ Contending(l) = {} => amount >= StartPrice
    /\ \A c \in Contending(l) : amount > l.bids[c].amount
    /\ BuyoutPrice # 0 => amount < BuyoutPrice

MayPlaceBid(l, b, amount, t) ==
    /\ CanPlaceBid(l, Bidder[b], t)
    /\ WithinBidWithdrawalCap(l, Bidder[b])
    /\ NotLeading(l, Bidder[b])
    /\ AcceptsBidAmount(l, amount)

\* PlaceBidWithID of a bid not yet recorded
PlaceBid(l, b, amount) ==
    [l EXCEPT !.bids[b] = [status |-> "PENDING", amount |-> amount, led |-> FALSE]]

MayConfirmBid(l, b) ==
    \/ l.bids[b].status \in {"WINNING", "OUTBID"}
    \/ /\ l.bids[b].status = "PENDING"
       /\ AcceptsBidChanges(l) \/ (l.status = "ACTIVE" /\ BoughtOut(l))

ConfirmBid(l, b) ==
    IF l.bids[b].status \in {"WINNING", "OUTBID"} THEN l
    ELSE IF BoughtOut(l) \/ \E i \in Winning(l) : l.bids[b].amount <= l.bids[i].amount
    THEN Move(l, {b}, "OUTBID")
    ELSE Move(Move(l, Winning(l), "OUTBID"), {b}, "WINNING")

-----------------------------------------------------------------------------
(* Buying out, withdrawing, accepting.                                     *)

HasBuyoutBy(l, m) == \E b \in Recorded(l) \cap Buyouts : Bidder[b] = m

CanBuyout(l, m, amount, t) ==
    /\ m # Seller
    /\ BuyoutPrice # 0 /\ amount = BuyoutPrice
    /\ AcceptsBidAt(l, t)

Buyout(l, b) ==
    [Move(l, Winning(l), "OUTBID")
        EXCEPT !.bids[b] = [status |-> "WINNING", amount |-> BuyoutPrice, led |-> FALSE]]

MayWithdrawBid(l, b, m, t) ==
    /\ AcceptsBidAt(l, t)
    /\ Bidder[b] = m
    /\ l.bids[b].status = "WINNING" => t < LockFrom
    /\ CanBidTransition(l.bids[b].status, "CANCELLED")

\* findRunnerUp; which of two equal bids came first is not kept
RunnersUp(l) == Highest(l, Having(l, {"OUTBID"}))

\* the listings WithdrawBid may make of l
WithdrawBid(l, b) ==
    LET led == l.bids[b].status = "WINNING"
        left == [l EXCEPT !.bids[b] = [@ EXCEPT !.status = "CANCELLED", !.led = led]]
    IN  IF led /\ RunnersUp(l) # {}
        THEN {Move(left, {heir}, "WINNING") : heir \in RunnersUp(l)}
        ELSE {left}

MayWithdraw(l, m, t) ==
    /\ m = Seller
    /\ \/ l.status = "CANCELLED"
       \/ AcceptsBidAt(l, t) /\ (Having(l, LiveBid) # {} => t < LockFrom)

Withdraw(l) ==
    IF l.status = "CANCELLED" THEN l
    ELSE [Move(l, Having(l, LiveBid), "LOST") EXCEPT !.status = "CANCELLED"]

CanAcceptBid(l, m, floor, t) ==
    /\ m = Seller
    /\ AcceptsBidAt(l, t)
    /\ Winning(l) # {}
    /\ floor > 0
    /\ \A b \in Winning(l) : l.bids[b].amount >= floor

-----------------------------------------------------------------------------
(* Settlement's share: steps 0a, 1a, 6, NB2 and the rollback.              *)

\* FreezeListingUC: frozen already is a retry
MayFreeze(l) ==
    l.status = "PENDING_SETTLEMENT" \/ CanTransition(l.status, "PENDING_SETTLEMENT")

Freeze(l) == [l EXCEPT !.status = "PENDING_SETTLEMENT"]

MaySetWinningBid(l, b) ==
    l.bids[b].status = "WON" \/ CanBidTransition(l.bids[b].status, "WON")

SetWinningBid(l, b) == Move(l, {b}, "WON")

MayMarkSold(l) ==
    \/ l.status = "SOLD"
    \/ l.status = "PENDING_SETTLEMENT" /\ Having(l, {"WON"}) # {}

MarkSold(l) ==
    IF l.status = "SOLD" THEN l
    ELSE LET won == CHOOSE b \in Having(l, {"WON"}) : TRUE IN
         [l EXCEPT !.status = "SOLD",
                   !.sold = [buyer |-> Bidder[won], price |-> l.bids[won].amount]]

MayExpire(l) == l.status \in {"EXPIRED", "PENDING_SETTLEMENT"}
Expire(l) == [l EXCEPT !.status = "EXPIRED"]

MarkSettlementFailed(l) ==
    IF l.status = "PENDING_SETTLEMENT" THEN [l EXCEPT !.status = "SETTLEMENT_FAILED"] ELSE l

\* mutant: the rollback rewrites the bids their bidders withdrew
LoseEveryBid(l) == Move(l, Recorded(l), "LOST")

\* all but those in bidsLeftAsTheyAre
LoseAllBids(l) == Move(l, Recorded(l) \ Having(l, {"CANCELLED", "FAILED", "LOST"}), "LOST")

=============================================================================
