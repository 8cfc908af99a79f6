----------------------------- MODULE ListingProofs -----------------------------
(***************************************************************************)
(* Proofs about module Listing, for any bids, members, prices and callers: *)
(* the leader is above every bid it outbid (LeaderIsHighest), what a call  *)
(* was answered stays true (AnswersStand), a landed buyout ends the        *)
(* contest (BuyoutWins), and the settlement's outcome is the one its       *)
(* freeze found (WinnerStands, SpentMeansSold).  The last part is about    *)
(* module ItemReservation, how the listing comes to be (ListingHasItem).   *)
(*                                                                         *)
(* The argument: what a row of the listing may look like does not depend   *)
(* on who wrote it (RowOK), and every verb keeps it so.  A save that the   *)
(* version lets through is a verb on the row as it is (Fresh).  What the   *)
(* settlement has issued tells which path it is on (Course), so that an    *)
(* attempt which lands late finds what its own path left (Outcome).        *)
(***************************************************************************)
EXTENDS Listing, ReservedItem, FiniteSetTheorems, WellFoundedInduction, TLAPS

Leads(l, b) == l.bids[b].status \in {"WINNING", "WON"}

RowOK(l) ==
    /\ \A b \in Bids : l.bids[b].status \notin {"PENDING", "FAILED"}
    /\ \A i, j \in Bids : Leads(l, i) /\ Leads(l, j) => i = j
    /\ \A i, j \in Bids : l.bids[i].status = "WINNING" /\ l.bids[j].status = "OUTBID" =>
          l.bids[i].amount > l.bids[j].amount
    /\ \A i, j \in Bids : /\ l.bids[i].status \in {"WINNING", "OUTBID"}
                         /\ l.bids[j].status \in {"WINNING", "OUTBID"}
                         /\ l.bids[i].amount = l.bids[j].amount
                         => i = j
    /\ l.status = "ACTIVE" =>
          \A j \in Bids : l.bids[j].status = "OUTBID" => \E i \in Bids : l.bids[i].status = "WINNING"
    /\ \A b \in Bids \cap Buyouts : l.bids[b].status # "NONE" =>
          BuyoutPrice # 0 /\ l.bids[b].amount = BuyoutPrice
    /\ \A b \in Bids \ Buyouts : l.bids[b].status # "NONE" /\ BuyoutPrice # 0 =>
          l.bids[b].amount < BuyoutPrice
    /\ (\E b \in Buyouts : l.bids[b].status # "NONE") =>
          \/ l.status = "SETTLEMENT_FAILED"
          \/ /\ \E i \in Bids : Leads(l, i)
             /\ \A i \in Bids : Leads(l, i) => i \in Buyouts
    /\ l.status = "ACTIVE" => \A b \in Bids : l.bids[b].status # "WON"
    /\ l.status = "CANCELLED" => \A b \in Bids : l.bids[b].status \notin LiveBid \cup {"WON"}

\* a call about to save read a row it may withdraw its bid from, and has it still if no
\* other write came between
Fresh ==
    \A w \in Callers :
        /\ pc[w] \in {"load", "save"} => req[w].op = "WithdrawBid"
        /\ pc[w] = "save" =>
              /\ MayWithdrawBid(snap[w], req[w].bid, req[w].member, at[w])
              /\ snap[w].version <= listing.version
              /\ snap[w].version = listing.version => snap[w] = listing

RolledBack == {"MarkSettlementFailed", "LoseAllBids", "failed"}

\* what was issued tells which path the settlement is on, and what the listing may be
Course ==
    /\ step = "none" => issued = {}
    /\ ~frozen.known => /\ frozen.winner = NoBidId
                        /\ issued \subseteq {"FreezeListing", "MarkSettlementFailed"}
                        /\ step \in {"none", "FreezeListing", "MarkSettlementFailed", "failed"}
                        /\ \A b \in Bids : listing.bids[b].status # "WON"
    /\ frozen.known => /\ step \notin {"none", "FreezeListing"}
                       /\ listing.status \notin {"ACTIVE", "CANCELLED"}
    /\ frozen.known /\ frozen.winner = NoBidId =>
          /\ issued \subseteq {"FreezeListing", "ExpireListing"}
          /\ step \in {"ReturnItem", "ExpireListing", "completed"}
    /\ frozen.winner # NoBidId =>
          "ExpireListing" \notin issued /\ step \notin {"ReturnItem", "ExpireListing"}
    /\ "MarkSettlementFailed" \in issued => step \in RolledBack
    /\ "MarkSold" \in issued => step \in {"MarkSold", "completed"}
    /\ "ExpireListing" \in issued => step \in {"ExpireListing", "completed"}
    /\ "LoseAllBids" \in issued => step \in {"LoseAllBids", "failed"}
    /\ step = "LoseAllBids" => listing.status = "SETTLEMENT_FAILED"
    /\ step = "failed" /\ frozen.known => listing.status = "SETTLEMENT_FAILED"
    /\ step = "completed" =>
          listing.status = IF frozen.winner = NoBidId THEN "EXPIRED" ELSE "SOLD"
    /\ listing.status = "EXPIRED" => "ExpireListing" \in issued
    /\ listing.status = "SOLD" => "MarkSold" \in issued
    /\ listing.status = "SETTLEMENT_FAILED" => "MarkSettlementFailed" \in issued

\* the freeze's answer, and the winner on the way to the pivot and past it
Outcome ==
    /\ frozen.known =>
          /\ \A b \in Bids : Leads(listing, b) => b = frozen.winner
          /\ \A b \in Bids : b \in frozen.bids <=> listing.bids[b].status # "NONE"
    /\ frozen.winner # NoBidId => /\ listing.bids[frozen.winner].status # "NONE"
                                  /\ listing.bids[frozen.winner].amount = frozen.amount
    /\ frozen.winner # NoBidId /\ step \in {"CommitHold", "MarkSold", "completed"} =>
          listing.bids[frozen.winner].status = "WON"
    /\ listing.status = "SOLD" =>
          listing.sold = [buyer |-> Bidder[frozen.winner], price |-> frozen.amount]

Answered ==
    /\ \A b \in Bids : <<"refused by index", b>> \notin told
    /\ \A b \in Bids : <<"withdrawn", b>> \in told => listing.bids[b].status = "CANCELLED"
    /\ \A b \in Bids : <<"recorded", b>> \in told => listing.bids[b].status # "NONE"
    /\ <<"taken down">> \in told =>
          /\ listing.status = "CANCELLED"
          /\ \A b \in Bids : b \in handed <=> listing.bids[b].status # "NONE"

IInv == TypeOK /\ RowOK(listing) /\ Fresh /\ Course /\ Outcome /\ Answered

-----------------------------------------------------------------------------
(* What a verb makes of the row.                                           *)

(* A bid is recorded exactly if it has a status of its own. *)
LEMMA BidKinds ==
    ASSUME NEW x \in Bid
    PROVE  /\ x = NoBid <=> x.status = "NONE"
           /\ x # NoBid => x \in [status : BidStatuses, amount : Nat \ {0}, led : BOOLEAN]
BY DEF Bid, NoBid, BidStatuses

(* Moving recorded bids to a status changes nothing else. *)
LEMMA MoveEffect ==
    ASSUME NEW l \in Listing, NEW B \in SUBSET Recorded(l), NEW s \in BidStatuses
    PROVE  /\ Move(l, B, s) \in Listing
           /\ \A c \in Bids : /\ Move(l, B, s).bids[c].amount = l.bids[c].amount
                              /\ c \in B => Move(l, B, s).bids[c].status = s
                              /\ c \notin B => Move(l, B, s).bids[c] = l.bids[c]
<1> DEFINE moved == [b \in Bids |-> IF b \in B THEN [l.bids[b] EXCEPT !.status = s] ELSE l.bids[b]]
<1>1. ASSUME NEW c \in Bids
      PROVE  /\ moved[c] \in Bid /\ moved[c].amount = l.bids[c].amount
             /\ c \in B => moved[c].status = s
             /\ c \notin B => moved[c] = l.bids[c]
  <2>1. l.bids[c] \in Bid
    BY DEF Listing
  <2>2. CASE c \in B
    <3>1. l.bids[c] \in [status : BidStatuses, amount : Nat \ {0}, led : BOOLEAN]
      BY <2>1, <2>2, BidKinds DEF Recorded
    <3> QED BY <2>2, <3>1 DEF Bid
  <2>3. CASE c \notin B
    BY <2>1, <2>3
  <2> QED BY <2>2, <2>3
<1>2. Move(l, B, s) = [l EXCEPT !.bids = moved]
  BY DEF Move
<1>3. moved \in [Bids -> Bid]
  BY <1>1
<1> HIDE DEF moved
<1> QED BY <1>1, <1>2, <1>3 DEF Listing

(* A bid's amount is a number. *)
LEMMA AmountIsNat == ASSUME NEW l \in Listing, NEW b \in Bids PROVE l.bids[b].amount \in Nat
BY DEF Listing, Bid, NoBid

(* The bids made by a buyout are bids. *)
LEMMA BuyoutsAreBids == Buyouts \subseteq Bids
BY ListingConstants

(* Moving bids leaves the listing's own columns alone. *)
LEMMA MoveKeeps ==
    ASSUME NEW l \in Listing, NEW B, NEW s
    PROVE  /\ Move(l, B, s).status = l.status /\ Move(l, B, s).sold = l.sold
           /\ Move(l, B, s).version = l.version
BY DEF Move, Listing

(* Of a non-empty set of bids one is highest. *)
LEMMA HighestExists ==
    ASSUME NEW l \in Listing, NEW B \in SUBSET Bids, B # {}
    PROVE  Highest(l, B) # {}
<1> DEFINE Above(b) == {c \in B : l.bids[c].amount > l.bids[b].amount}
<1> DEFINE T == {Above(b) : b \in B}
<1>1. IsFiniteSet(B)
  BY FS_Subset, ListingConstants
<1>2. T \subseteq FiniteSubsetsOf(B) /\ T # {}
  <2>1. \A b \in B : Above(b) \in SUBSET B
    OBVIOUS
  <2>2. FiniteSubsetsOf(B) = SUBSET B
    BY <1>1, FS_FiniteSubsetsOfFinite
  <2> HIDE DEF Above
  <2>3. PICK d : d \in B
    OBVIOUS
  <2>4. Above(d) \in T
    BY <2>3
  <2>5. T \subseteq SUBSET B
    BY <2>1
  <2> QED BY <2>2, <2>4, <2>5
<1>3. PICK x \in T : \A y \in T : ~(<<y, x>> \in StrictSubsetOrdering(B))
  <2>1. IsWellFoundedOn(StrictSubsetOrdering(B), FiniteSubsetsOf(B))
    BY FS_StrictSubsetOrderingWellFounded
  <2> HIDE DEF T
  <2> QED BY <1>2, <2>1, WFMin
<1>4. PICK b \in B : x = Above(b)
  BY <1>3
<1>5. \A c \in B : l.bids[c].amount \in Nat
  BY AmountIsNat
<1>6. ASSUME NEW c \in Above(b) PROVE FALSE
  <2>1. Above(c) \in T /\ Above(c) \subseteq B /\ Above(b) \subseteq B
    OBVIOUS
  <2>2. Above(c) \subseteq Above(b)
    BY <1>5
  <2>3. c \in Above(b) /\ c \notin Above(c)
    BY <1>5
  <2>4. <<Above(c), Above(b)>> \in StrictSubsetOrdering(B)
    <3> HIDE DEF Above
    <3> QED BY <2>1, <2>2, <2>3 DEF StrictSubsetOrdering
  <2> QED BY <1>3, <1>4, <2>1, <2>4
<1>7. b \in Highest(l, B)
  BY <1>5, <1>6 DEF Highest
<1> QED BY <1>7

(* A bid leads the row it joined: b, placed or bought out. *)
NewLeader(l, k, b) ==
    /\ l.status = "ACTIVE" /\ k.status = "ACTIVE" /\ k.sold = l.sold
    /\ l.bids[b] = NoBid /\ k.bids[b].status = "WINNING"
    /\ b \in Buyouts => BuyoutPrice # 0 /\ k.bids[b].amount = BuyoutPrice
    /\ b \notin Buyouts /\ BuyoutPrice # 0 => k.bids[b].amount < BuyoutPrice
    /\ \A c \in Bids \cap Buyouts : l.bids[c].status = "NONE"
    /\ \A c \in Bids : l.bids[c].status = "WINNING" =>
          /\ k.bids[c].status = "OUTBID" /\ k.bids[c].amount = l.bids[c].amount
          /\ k.bids[b].amount > l.bids[c].amount
    /\ \A c \in Bids \ {b} : l.bids[c].status # "WINNING" => k.bids[c] = l.bids[c]

LEMMA PlaceLeads ==
    ASSUME NEW l \in Listing, RowOK(l), NEW b \in Bids \ Buyouts, NEW n \in Amounts, NEW t,
           b \notin Recorded(l), MayPlaceBid(l, b, n, t)
    PROVE  LET k == ConfirmBid(PlaceBid(l, b, n), b) IN k \in Listing /\ NewLeader(l, k, b)
<1> DEFINE p == PlaceBid(l, b, n)
<1> DEFINE k == ConfirmBid(p, b)
<1>1. /\ l.status = "ACTIVE" /\ l.bids[b] = NoBid /\ n \in Nat \ {0}
      /\ \A c \in Bids \cap Buyouts : l.bids[c].status = "NONE"
      /\ BuyoutPrice # 0 => n < BuyoutPrice
  BY ListingConstants DEF MayPlaceBid, CanPlaceBid, AcceptsBidAt, AcceptsBidChanges, BoughtOut,
     Recorded, AcceptsBidAmount, NoBid
<1>2. \A c \in Bids : l.bids[c].status = "WINNING" => n > l.bids[c].amount
  <2> SUFFICES ASSUME NEW c \in Bids, l.bids[c].status = "WINNING" PROVE n > l.bids[c].amount
    OBVIOUS
  <2>1. \A d \in Having(l, {"WINNING", "PENDING"}) : d = c
    BY DEF RowOK, Leads, Having
  <2>2. l.bids[c].amount \in Nat
    BY AmountIsNat
  <2>3. c \in Contending(l)
    BY <2>1, <2>2 DEF Contending, Highest, Having
  <2> QED BY <2>3 DEF MayPlaceBid, AcceptsBidAmount
<1>3. /\ p \in Listing /\ p.status = "ACTIVE" /\ p.sold = l.sold
      /\ p.bids[b] = [status |-> "PENDING", amount |-> n, led |-> FALSE]
      /\ \A c \in Bids \ {b} : p.bids[c] = l.bids[c]
  <2>1. [status |-> "PENDING", amount |-> n, led |-> FALSE] \in Bid
    BY <1>1 DEF Bid, BidStatuses
  <2> QED BY <1>1, <2>1 DEF PlaceBid, Listing
<1> HIDE DEF p
<1>4. ~BoughtOut(p)
  <2>1. ASSUME NEW c \in Buyouts PROVE p.bids[c] = NoBid
    <3>1. c \in Bids \ {b} /\ c \in Buyouts
      BY BuyoutsAreBids
    <3>2. l.bids[c].status = "NONE" /\ l.bids[c] \in Bid
      BY <1>1, <3>1 DEF Listing
    <3> QED BY <1>3, <3>1, <3>2 DEF Bid, BidStatuses, NoBid
  <2> QED BY <2>1 DEF BoughtOut, Recorded
<1>5. b \notin Winning(p) /\ \A c \in Bids : c \in Winning(p) <=> l.bids[c].status = "WINNING"
  BY <1>1, <1>3 DEF Winning, Having, NoBid
<1>6. k = Move(Move(p, Winning(p), "OUTBID"), {b}, "WINNING")
  <2>1. ~\E i \in Winning(p) : p.bids[b].amount <= p.bids[i].amount
    <3>1. ASSUME NEW i \in Winning(p) PROVE ~(p.bids[b].amount <= p.bids[i].amount)
      <4>1. i \in Bids /\ i # b /\ l.bids[i].status = "WINNING"
        BY <1>5 DEF Winning, Having
      <4>2. n > l.bids[i].amount /\ l.bids[i].amount \in Nat /\ n \in Nat
        BY <1>1, <1>2, <4>1, AmountIsNat
      <4> QED BY <1>3, <4>1, <4>2
    <3> QED BY <3>1
  <2> QED BY <1>3, <1>4, <2>1 DEF ConfirmBid
<1> DEFINE q == Move(p, Winning(p), "OUTBID")
<1>7. Winning(p) \in SUBSET Recorded(p)
  BY DEF Winning, Having, Recorded, NoBid
<1>8. /\ q \in Listing /\ q.status = "ACTIVE" /\ q.sold = l.sold
      /\ \A c \in Bids : /\ q.bids[c].amount = p.bids[c].amount
                         /\ c \in Winning(p) => q.bids[c].status = "OUTBID"
                         /\ c \notin Winning(p) => q.bids[c] = p.bids[c]
  <2>1. "OUTBID" \in BidStatuses
    BY DEF BidStatuses
  <2> QED BY <1>3, <1>7, <2>1, MoveEffect, MoveKeeps
<1> HIDE DEF q
<1>9. {b} \in SUBSET Recorded(q)
  BY <1>3, <1>5, <1>8 DEF Recorded, NoBid
<1>10. /\ k \in Listing /\ k.status = "ACTIVE" /\ k.sold = l.sold
       /\ \A c \in Bids : /\ k.bids[c].amount = q.bids[c].amount
                          /\ c = b => k.bids[c].status = "WINNING"
                          /\ c # b => k.bids[c] = q.bids[c]
  <2>1. "WINNING" \in BidStatuses /\ k = Move(q, {b}, "WINNING")
    BY <1>6 DEF BidStatuses, q
  <2> HIDE DEF k
  <2> QED BY <1>8, <1>9, <2>1, MoveEffect, MoveKeeps
<1> HIDE DEF k
<1>11. k.bids[b].amount = n /\ k.bids[b].status = "WINNING"
  BY <1>3, <1>5, <1>8, <1>10
<1>12. ASSUME NEW c \in Bids \ {b}
       PROVE  /\ l.bids[c].status = "WINNING" => k.bids[c].status = "OUTBID" /\ k.bids[c].amount = l.bids[c].amount
              /\ l.bids[c].status # "WINNING" => k.bids[c] = l.bids[c]
  BY <1>3, <1>5, <1>8, <1>10, <1>12
<1>13. NewLeader(l, k, b)
  <2>1. l.bids[b].status # "WINNING"
    BY <1>1 DEF NoBid
  <2> QED BY <1>1, <1>2, <1>10, <1>11, <1>12, <2>1 DEF NewLeader
<1> QED BY <1>10, <1>13 DEF k, p

LEMMA BuyoutLeads ==
    ASSUME NEW l \in Listing, RowOK(l), NEW b \in Buyouts, NEW m, NEW t,
           b \notin Recorded(l), CanBuyout(l, m, BuyoutPrice, t)
    PROVE  Buyout(l, b) \in Listing /\ NewLeader(l, Buyout(l, b), b)
<1>1. /\ l.status = "ACTIVE" /\ l.bids[b] = NoBid /\ BuyoutPrice \in Nat \ {0} /\ b \in Bids
      /\ \A c \in Bids \cap Buyouts : l.bids[c].status = "NONE"
  BY ListingConstants DEF CanBuyout, AcceptsBidAt, AcceptsBidChanges, BoughtOut, Recorded, NoBid
<1> DEFINE q == Move(l, Winning(l), "OUTBID")
<1>2. Winning(l) \in SUBSET Recorded(l) /\ "OUTBID" \in BidStatuses
  BY DEF Winning, Having, Recorded, NoBid, BidStatuses
<1>3. /\ q \in Listing /\ q.status = "ACTIVE" /\ q.sold = l.sold
      /\ \A c \in Bids : /\ q.bids[c].amount = l.bids[c].amount
                         /\ c \in Winning(l) => q.bids[c].status = "OUTBID"
                         /\ c \notin Winning(l) => q.bids[c] = l.bids[c]
  BY <1>1, <1>2, MoveEffect, MoveKeeps
<1>4. Buyout(l, b) = [q EXCEPT !.bids[b] = [status |-> "WINNING", amount |-> BuyoutPrice, led |-> FALSE]]
  BY DEF Buyout
<1>5. [status |-> "WINNING", amount |-> BuyoutPrice, led |-> FALSE] \in Bid
  BY <1>1 DEF Bid, BidStatuses
<1> HIDE DEF q
<1> DEFINE k == Buyout(l, b)
<1>6. /\ k \in Listing /\ k.status = "ACTIVE" /\ k.sold = l.sold
      /\ k.bids[b].status = "WINNING" /\ k.bids[b].amount = BuyoutPrice
      /\ \A c \in Bids \ {b} : k.bids[c] = q.bids[c]
  <2> DEFINE d == [status |-> "WINNING", amount |-> BuyoutPrice, led |-> FALSE]
  <2> DEFINE f == [q.bids EXCEPT ![b] = d]
  <2>1. q.bids \in [Bids -> Bid]
    BY <1>3 DEF Listing
  <2>2. d \in Bid /\ d.status = "WINNING" /\ d.amount = BuyoutPrice
    BY <1>5
  <2>3. k = [q EXCEPT !.bids = f]
    BY <1>3, <1>4 DEF Listing
  <2> HIDE DEF d
  <2>4. f \in [Bids -> Bid] /\ f[b] = d /\ \A c \in Bids \ {b} : f[c] = q.bids[c]
    BY <1>1, <2>1, <2>2
  <2> HIDE DEF f, k
  <2>5. k \in Listing /\ k.bids = f /\ k.status = q.status /\ k.sold = q.sold
    BY <1>3, <2>3, <2>4 DEF Listing
  <2> QED BY <1>3, <2>2, <2>4, <2>5
<1> HIDE DEF k
<1>7. \A c \in Bids : c \in Winning(l) <=> l.bids[c].status = "WINNING"
  BY DEF Winning, Having
<1>8. ASSUME NEW c \in Bids, l.bids[c].status = "WINNING"
      PROVE  /\ k.bids[c].status = "OUTBID" /\ k.bids[c].amount = l.bids[c].amount
             /\ k.bids[b].amount > l.bids[c].amount
  <2>1. c # b /\ c \notin Buyouts
    BY <1>1, <1>8 DEF NoBid
  <2>2. l.bids[c].amount < BuyoutPrice
    BY <1>1, <1>8, <2>1 DEF RowOK
  <2>3. l.bids[c].amount \in Nat
    BY AmountIsNat
  <2> QED BY <1>1, <1>3, <1>6, <1>7, <1>8, <2>1, <2>2, <2>3
<1>9. ASSUME NEW c \in Bids \ {b}, l.bids[c].status # "WINNING" PROVE k.bids[c] = l.bids[c]
  BY <1>3, <1>6, <1>7, <1>9
<1>10. NewLeader(l, k, b)
  BY <1>1, <1>6, <1>8, <1>9 DEF NewLeader
<1> QED BY <1>6, <1>10 DEF k

(* The row a new leader leaves is in order. *)
LEMMA NewLeaderOK ==
    ASSUME NEW l \in Listing, NEW k \in Listing, RowOK(l), NEW b \in Bids, NewLeader(l, k, b)
    PROVE  RowOK(k)
<1>1. /\ l.status = "ACTIVE" /\ k.status = "ACTIVE" /\ k.bids[b].status = "WINNING"
      /\ \A c \in Bids : l.bids[c].status # "WON"
      /\ \A c \in Bids : l.bids[c].amount \in Nat /\ k.bids[c].amount \in Nat
  BY AmountIsNat DEF NewLeader, RowOK
<1>2. ASSUME NEW c \in Bids \ {b}
      PROVE  /\ k.bids[c].amount = l.bids[c].amount
             /\ k.bids[c].status \notin {"WINNING", "WON", "PENDING", "FAILED"}
             /\ k.bids[c].status = "OUTBID" => l.bids[c].status \in {"WINNING", "OUTBID"}
             /\ k.bids[c].status # "NONE" => l.bids[c].status # "NONE"
  BY <1>1, <1>2 DEF NewLeader, RowOK
<1>3. ASSUME NEW j \in Bids, k.bids[j].status = "OUTBID"
      PROVE  k.bids[b].amount > k.bids[j].amount
  <2>1. j \in Bids \ {b}
    BY <1>1, <1>3
  <2>2. CASE l.bids[j].status = "WINNING"
    BY <1>2, <2>1, <2>2 DEF NewLeader
  <2>3. CASE l.bids[j].status = "OUTBID"
    <3>1. PICK i \in Bids : l.bids[i].status = "WINNING"
      BY <1>1, <2>3 DEF RowOK
    <3>2. l.bids[i].amount > l.bids[j].amount
      BY <2>3, <3>1 DEF RowOK
    <3>3. k.bids[b].amount > l.bids[i].amount
      BY <3>1 DEF NewLeader
    <3> QED BY <1>1, <1>2, <2>1, <3>2, <3>3
  <2> QED BY <1>2, <1>3, <2>1, <2>2, <2>3
<1>4. ASSUME NEW i \in Bids, NEW j \in Bids, k.bids[i].status \in {"WINNING", "OUTBID"},
             k.bids[j].status \in {"WINNING", "OUTBID"}, k.bids[i].amount = k.bids[j].amount
      PROVE  i = j
  <2>1. CASE i = b \/ j = b
    BY <1>1, <1>2, <1>3, <1>4, <2>1
  <2>2. CASE i # b /\ j # b
    BY <1>2, <1>4, <2>2 DEF RowOK
  <2> QED BY <2>1, <2>2
<1>5. \A c \in Bids \cap Buyouts : k.bids[c].status # "NONE" => c = b
  BY <1>2 DEF NewLeader
<1>6. \A c \in Bids : k.bids[c].status \notin {"PENDING", "FAILED"}
  BY <1>1, <1>2
<1>7. \A c \in Bids : k.bids[c].status \in {"WINNING", "WON"} <=> c = b
  BY <1>1, <1>2
<1>8. \A c \in Bids \cap Buyouts : k.bids[c].status # "NONE" =>
          BuyoutPrice # 0 /\ k.bids[c].amount = BuyoutPrice
  BY <1>5 DEF NewLeader
<1>9. \A c \in Bids \ Buyouts : k.bids[c].status # "NONE" /\ BuyoutPrice # 0 =>
          k.bids[c].amount < BuyoutPrice
  <2> SUFFICES ASSUME NEW c \in Bids \ Buyouts, k.bids[c].status # "NONE", BuyoutPrice # 0
               PROVE  k.bids[c].amount < BuyoutPrice
    OBVIOUS
  <2>1. CASE c = b
    BY <2>1 DEF NewLeader
  <2>2. CASE c # b
    BY <1>2, <2>2 DEF RowOK
  <2> QED BY <2>1, <2>2
<1>10. (\E c \in Buyouts : k.bids[c].status # "NONE") => b \in Buyouts
  BY <1>5, BuyoutsAreBids
<1>11. \A i, j \in Bids : k.bids[i].status = "WINNING" /\ k.bids[j].status = "OUTBID" =>
          k.bids[i].amount > k.bids[j].amount
  BY <1>3, <1>7
<1>12. \A i, j \in Bids : Leads(k, i) /\ Leads(k, j) => i = j
  BY <1>7 DEF Leads
<1>13. (\E c \in Buyouts : k.bids[c].status # "NONE") =>
          \/ k.status = "SETTLEMENT_FAILED"
          \/ /\ \E i \in Bids : Leads(k, i)
             /\ \A i \in Bids : Leads(k, i) => i \in Buyouts
  BY <1>7, <1>10 DEF Leads
<1>14. k.status = "ACTIVE" =>
          \A j \in Bids : k.bids[j].status = "OUTBID" => \E i \in Bids : k.bids[i].status = "WINNING"
  BY <1>1
<1>15. k.status = "ACTIVE" => \A c \in Bids : k.bids[c].status # "WON"
  BY <1>1, <1>2
<1> QED BY <1>1, <1>4, <1>6, <1>8, <1>9, <1>11, <1>12, <1>13, <1>14, <1>15 DEF RowOK

(* A bidder takes bid b back; the highest of the outbid takes its lead. *)
Left(l, k, b) ==
    /\ l.status = "ACTIVE" /\ k.status = "ACTIVE" /\ k.sold = l.sold /\ k.version = l.version
    /\ \A c \in Bids \cap Buyouts : l.bids[c].status = "NONE"
    /\ l.bids[b].status \in {"WINNING", "OUTBID"} /\ k.bids[b].status = "CANCELLED"
    /\ \A c \in Bids : k.bids[c].amount = l.bids[c].amount
    /\ \/ /\ \A c \in Bids \ {b} : k.bids[c] = l.bids[c]
          /\ l.bids[b].status = "OUTBID" \/ \A c \in Bids : l.bids[c].status # "OUTBID"
       \/ /\ l.bids[b].status = "WINNING"
          /\ \E heir \in Bids \ {b} :
                /\ l.bids[heir].status = "OUTBID" /\ k.bids[heir].status = "WINNING"
                /\ \A c \in Bids \ {b, heir} : k.bids[c] = l.bids[c]
                /\ \A c \in Bids : l.bids[c].status = "OUTBID" =>
                      l.bids[c].amount <= l.bids[heir].amount

LEMMA WithdrawBidLeaves ==
    ASSUME NEW l \in Listing, RowOK(l), NEW b \in Bids, NEW m, NEW t, MayWithdrawBid(l, b, m, t),
           NEW k \in WithdrawBid(l, b)
    PROVE  k \in Listing /\ Left(l, k, b)
<1> DEFINE led == l.bids[b].status = "WINNING"
<1> DEFINE d == [l.bids[b] EXCEPT !.status = "CANCELLED", !.led = led]
<1> DEFINE left == [l EXCEPT !.bids[b] = [@ EXCEPT !.status = "CANCELLED", !.led = led]]
<1>1. /\ l.status = "ACTIVE" /\ l.bids[b].status \in {"WINNING", "OUTBID"}
      /\ \A c \in Bids \cap Buyouts : l.bids[c].status = "NONE"
  <2>1. AcceptsBidChanges(l) /\ CanBidTransition(l.bids[b].status, "CANCELLED")
    BY DEF MayWithdrawBid, AcceptsBidAt
  <2>2. l.bids[b].status # "PENDING"
    BY DEF RowOK
  <2>3. ASSUME NEW c \in Bids \cap Buyouts PROVE l.bids[c].status = "NONE"
    <3>1. l.bids[c] = NoBid
      BY <2>1 DEF AcceptsBidChanges, BoughtOut, Recorded
    <3> QED BY <3>1 DEF NoBid
  <2> QED BY <2>1, <2>2, <2>3 DEF AcceptsBidChanges, CanBidTransition
<1>2. d \in Bid /\ d.status = "CANCELLED" /\ d.amount = l.bids[b].amount
  <2>1. l.bids[b] \in Bid /\ l.bids[b] # NoBid
    BY <1>1 DEF Listing, NoBid
  <2>2. l.bids[b] \in [status : BidStatuses, amount : Nat \ {0}, led : BOOLEAN]
    BY <2>1, BidKinds
  <2>3. "CANCELLED" \in BidStatuses /\ led \in BOOLEAN
    BY DEF BidStatuses
  <2> QED BY <2>2, <2>3 DEF Bid
<1>3. /\ left \in Listing /\ left.status = l.status /\ left.sold = l.sold /\ left.version = l.version
      /\ left.bids[b] = d /\ \A c \in Bids \ {b} : left.bids[c] = l.bids[c]
  <2> DEFINE f == [l.bids EXCEPT ![b] = d]
  <2>1. l.bids \in [Bids -> Bid]
    BY DEF Listing
  <2>2. left = [l EXCEPT !.bids = f]
    BY DEF Listing
  <2> HIDE DEF d
  <2>3. f \in [Bids -> Bid] /\ f[b] = d /\ \A c \in Bids \ {b} : f[c] = l.bids[c]
    BY <1>2, <2>1
  <2> HIDE DEF f, left
  <2>4. /\ left \in Listing /\ left.bids = f /\ left.status = l.status /\ left.sold = l.sold
        /\ left.version = l.version
    BY <2>2, <2>3 DEF Listing
  <2> QED BY <2>3, <2>4
<1>4. WithdrawBid(l, b) = IF led /\ RunnersUp(l) # {}
                          THEN {Move(left, {heir}, "WINNING") : heir \in RunnersUp(l)} ELSE {left}
  BY DEF WithdrawBid
<1> HIDE DEF d, left
<1>5. \A c \in Bids : left.bids[c].amount = l.bids[c].amount
  BY <1>2, <1>3
<1>6. CASE led /\ RunnersUp(l) # {}
  <2>1. PICK heir \in RunnersUp(l) : k = Move(left, {heir}, "WINNING")
    BY <1>4, <1>6
  <2>2. /\ heir \in Bids \ {b} /\ l.bids[heir].status = "OUTBID"
        /\ \A c \in Bids : l.bids[c].status = "OUTBID" => l.bids[c].amount <= l.bids[heir].amount
    BY <1>6 DEF RunnersUp, Highest, Having
  <2>3. {heir} \in SUBSET Recorded(left) /\ "WINNING" \in BidStatuses
    BY <1>3, <2>2 DEF Recorded, NoBid, BidStatuses
  <2>4. /\ k \in Listing /\ k.status = l.status /\ k.sold = l.sold /\ k.version = l.version
        /\ \A c \in Bids : /\ k.bids[c].amount = l.bids[c].amount
                           /\ c = heir => k.bids[c].status = "WINNING"
                           /\ c # heir => k.bids[c] = left.bids[c]
    BY <1>3, <1>5, <2>1, <2>3, MoveEffect, MoveKeeps
  <2>5. k.bids[b].status = "CANCELLED" /\ \A c \in Bids \ {b, heir} : k.bids[c] = l.bids[c]
    BY <1>2, <1>3, <2>2, <2>4
  <2>6. \E h \in Bids \ {b} :
                /\ l.bids[h].status = "OUTBID" /\ k.bids[h].status = "WINNING"
                /\ \A c \in Bids \ {b, h} : k.bids[c] = l.bids[c]
                /\ \A c \in Bids : l.bids[c].status = "OUTBID" =>
                      l.bids[c].amount <= l.bids[h].amount
    BY <2>2, <2>4, <2>5
  <2> QED BY <1>1, <1>6, <2>4, <2>5, <2>6 DEF Left
<1>7. CASE ~(led /\ RunnersUp(l) # {})
  <2>1. k = left
    BY <1>4, <1>7
  <2>2. l.bids[b].status = "OUTBID" \/ \A c \in Bids : l.bids[c].status # "OUTBID"
    <3>1. SUFFICES ASSUME led, RunnersUp(l) = {}, NEW c \in Bids, l.bids[c].status = "OUTBID"
                   PROVE  FALSE
      BY <1>1, <1>7
    <3>2. Having(l, {"OUTBID"}) \in SUBSET Bids /\ Having(l, {"OUTBID"}) # {}
      BY <3>1 DEF Having
    <3> QED BY <3>1, <3>2, HighestExists DEF RunnersUp
  <2> QED BY <1>1, <1>2, <1>3, <1>5, <2>1, <2>2 DEF Left
<1> QED BY <1>6, <1>7

LEMMA LeftOK ==
    ASSUME NEW l \in Listing, NEW k \in Listing, RowOK(l), NEW b \in Bids, Left(l, k, b)
    PROVE  RowOK(k)
<1>1. /\ l.status = "ACTIVE" /\ k.status = "ACTIVE" /\ k.bids[b].status = "CANCELLED"
      /\ \A c \in Bids : l.bids[c].status # "WON"
      /\ \A c \in Bids : k.bids[c].amount = l.bids[c].amount /\ l.bids[c].amount \in Nat
      /\ \A c \in Bids \cap Buyouts : l.bids[c].status = "NONE"
      /\ l.bids[b].status \in {"WINNING", "OUTBID"}
  BY AmountIsNat DEF Left, RowOK
<1>2. CASE /\ \A c \in Bids \ {b} : k.bids[c] = l.bids[c]
           /\ l.bids[b].status = "OUTBID" \/ \A c \in Bids : l.bids[c].status # "OUTBID"
  <2>1. \A c \in Bids : /\ k.bids[c].status \notin {"PENDING", "FAILED", "WON"}
                        /\ k.bids[c].status = "WINNING" => l.bids[c].status = "WINNING"
                        /\ k.bids[c].status = "OUTBID" => l.bids[c].status = "OUTBID"
                        /\ k.bids[c].status # "NONE" <=> l.bids[c].status # "NONE"
    BY <1>1, <1>2 DEF RowOK
  <2>2. ASSUME NEW j \in Bids, k.bids[j].status = "OUTBID"
        PROVE  \E i \in Bids : k.bids[i].status = "WINNING"
    <3>1. l.bids[j].status = "OUTBID"
      BY <2>1, <2>2
    <3>2. PICK i \in Bids : l.bids[i].status = "WINNING"
      BY <1>1, <3>1 DEF RowOK
    <3>3. i # b
      BY <1>2, <3>1, <3>2
    <3> QED BY <1>2, <3>2, <3>3
  <2>3. \A i, j \in Bids : Leads(k, i) /\ Leads(k, j) => i = j
    BY <2>1 DEF RowOK, Leads
  <2>4. \A i, j \in Bids : k.bids[i].status = "WINNING" /\ k.bids[j].status = "OUTBID" =>
          k.bids[i].amount > k.bids[j].amount
    BY <1>1, <2>1 DEF RowOK
  <2>5. \A i, j \in Bids : /\ k.bids[i].status \in {"WINNING", "OUTBID"}
                         /\ k.bids[j].status \in {"WINNING", "OUTBID"}
                         /\ k.bids[i].amount = k.bids[j].amount
                         => i = j
    BY <1>1, <2>1 DEF RowOK
  <2>6. \A c \in Bids \cap Buyouts : k.bids[c].status = "NONE"
    BY <1>1, <2>1
  <2>7. \A c \in Bids \ Buyouts : k.bids[c].status # "NONE" /\ BuyoutPrice # 0 =>
          k.bids[c].amount < BuyoutPrice
    BY <1>1, <2>1 DEF RowOK
  <2> QED BY <1>1, <2>1, <2>2, <2>3, <2>4, <2>5, <2>6, <2>7, BuyoutsAreBids DEF RowOK
<1>3. CASE l.bids[b].status = "WINNING" /\ ~ \A c \in Bids \ {b} : k.bids[c] = l.bids[c]
  <2>1. PICK heir \in Bids \ {b} :
                /\ l.bids[heir].status = "OUTBID" /\ k.bids[heir].status = "WINNING"
                /\ \A c \in Bids \ {b, heir} : k.bids[c] = l.bids[c]
                /\ \A c \in Bids : l.bids[c].status = "OUTBID" =>
                      l.bids[c].amount <= l.bids[heir].amount
    BY <1>3 DEF Left
  <2>2. \A c \in Bids : c # b => l.bids[c].status # "WINNING"
    BY <1>3 DEF RowOK, Leads
  <2>3. \A c \in Bids : /\ k.bids[c].status \notin {"PENDING", "FAILED", "WON"}
                        /\ k.bids[c].status = "WINNING" <=> c = heir
                        /\ k.bids[c].status = "OUTBID" => l.bids[c].status = "OUTBID" /\ c # heir
                        /\ k.bids[c].status # "NONE" <=> l.bids[c].status # "NONE"
    BY <1>1, <2>1, <2>2 DEF RowOK
  <2>4. ASSUME NEW j \in Bids, k.bids[j].status = "OUTBID"
        PROVE  k.bids[heir].amount > k.bids[j].amount
    <3>1. l.bids[j].status = "OUTBID" /\ j # heir
      BY <2>3, <2>4
    <3>2. l.bids[j].amount <= l.bids[heir].amount /\ l.bids[j].amount # l.bids[heir].amount
      BY <2>1, <3>1 DEF RowOK
    <3> QED BY <1>1, <3>2
  <2>5. ASSUME NEW i \in Bids, NEW j \in Bids, k.bids[i].status \in {"WINNING", "OUTBID"},
             k.bids[j].status \in {"WINNING", "OUTBID"}, k.bids[i].amount = k.bids[j].amount
      PROVE  i = j
    <3>1. l.bids[i].status = "OUTBID" /\ l.bids[j].status = "OUTBID"
      BY <2>1, <2>3, <2>5
    <3> QED BY <1>1, <2>5, <3>1 DEF RowOK
  <2>6. \A i, j \in Bids : Leads(k, i) /\ Leads(k, j) => i = j
    BY <2>3 DEF Leads
  <2>7. \A i, j \in Bids : k.bids[i].status = "WINNING" /\ k.bids[j].status = "OUTBID" =>
          k.bids[i].amount > k.bids[j].amount
    BY <2>3, <2>4
  <2>8. \A c \in Bids \cap Buyouts : k.bids[c].status = "NONE"
    BY <1>1, <2>3
  <2>9. \A c \in Bids \ Buyouts : k.bids[c].status # "NONE" /\ BuyoutPrice # 0 =>
          k.bids[c].amount < BuyoutPrice
    BY <1>1, <2>3 DEF RowOK
  <2> QED BY <1>1, <2>1, <2>3, <2>5, <2>6, <2>7, <2>8, <2>9, BuyoutsAreBids DEF RowOK
<1> QED BY <1>2, <1>3 DEF Left

(* The seller takes the listing down with every bid on it. *)
TakenDown(l, k) ==
    /\ k.status = "CANCELLED" /\ k.sold = l.sold
    /\ \A c \in Buyouts : k.bids[c].status = "NONE"
    /\ \A c \in Bids : /\ k.bids[c].amount = l.bids[c].amount
                       /\ k.bids[c].status # "NONE" <=> l.bids[c].status # "NONE"
                       /\ k.bids[c].status \notin {"PENDING", "WINNING", "OUTBID", "WON", "FAILED"}
                       /\ l.bids[c].status = "CANCELLED" => k.bids[c].status = "CANCELLED"

LEMMA WithdrawTakesDown ==
    ASSUME NEW l \in Listing, RowOK(l), NEW m, NEW t, MayWithdraw(l, m, t)
    PROVE  /\ Withdraw(l) \in Listing /\ TakenDown(l, Withdraw(l))
           /\ l.status = "ACTIVE" \/ Withdraw(l) = l
<1>1. CASE l.status = "CANCELLED"
  <2>1. Withdraw(l) = l
    BY <1>1 DEF Withdraw
  <2>2. \A c \in Bids : l.bids[c].status \notin {"PENDING", "WINNING", "OUTBID", "WON", "FAILED"}
    BY <1>1 DEF RowOK, LiveBid
  <2>3. \A c \in Buyouts : l.bids[c].status = "NONE"
    BY <1>1, <2>2 DEF RowOK, Leads
  <2> QED BY <1>1, <2>1, <2>2, <2>3 DEF TakenDown
<1>2. CASE l.status # "CANCELLED"
  <2> DEFINE B == Having(l, LiveBid)
  <2> DEFINE q == Move(l, B, "LOST")
  <2>1. l.status = "ACTIVE" /\ \A c \in Buyouts : l.bids[c].status = "NONE"
    <3>1. AcceptsBidChanges(l)
      BY <1>2 DEF MayWithdraw, AcceptsBidAt
    <3>2. ASSUME NEW c \in Buyouts PROVE l.bids[c].status = "NONE"
      <4>1. l.bids[c] = NoBid
        BY <3>1, BuyoutsAreBids DEF AcceptsBidChanges, BoughtOut, Recorded
      <4> QED BY <4>1 DEF NoBid
    <3> QED BY <3>1, <3>2 DEF AcceptsBidChanges
  <2>2. B \in SUBSET Recorded(l) /\ "LOST" \in BidStatuses
    BY DEF Having, LiveBid, Recorded, NoBid, BidStatuses
  <2>3. /\ q \in Listing /\ q.sold = l.sold
        /\ \A c \in Bids : /\ q.bids[c].amount = l.bids[c].amount
                           /\ c \in B => q.bids[c].status = "LOST"
                           /\ c \notin B => q.bids[c] = l.bids[c]
    BY <2>2, MoveEffect, MoveKeeps
  <2>4. Withdraw(l) = [q EXCEPT !.status = "CANCELLED"]
    BY <1>2 DEF Withdraw
  <2> HIDE DEF q
  <2> DEFINE k == Withdraw(l)
  <2>5. k \in Listing /\ k.status = "CANCELLED" /\ k.sold = l.sold /\ k.bids = q.bids
    BY <2>3, <2>4 DEF Listing, ListingStatuses
  <2> HIDE DEF k
  <2>6. \A c \in Bids : c \in B <=> l.bids[c].status \in {"PENDING", "WINNING", "OUTBID"}
    BY DEF Having, LiveBid
  <2> HIDE DEF B
  <2>7. \A c \in Bids : l.bids[c].status \notin {"WON", "FAILED"}
    BY <2>1 DEF RowOK
  <2>8. \A c \in Bids :
            /\ k.bids[c].amount = l.bids[c].amount
            /\ k.bids[c].status # "NONE" <=> l.bids[c].status # "NONE"
            /\ k.bids[c].status \notin {"PENDING", "WINNING", "OUTBID", "WON", "FAILED"}
            /\ l.bids[c].status = "CANCELLED" => k.bids[c].status = "CANCELLED"
    <3> SUFFICES ASSUME NEW c \in Bids
                 PROVE  /\ k.bids[c].amount = l.bids[c].amount
                        /\ k.bids[c].status # "NONE" <=> l.bids[c].status # "NONE"
                        /\ k.bids[c].status \notin {"PENDING", "WINNING", "OUTBID", "WON", "FAILED"}
                        /\ l.bids[c].status = "CANCELLED" => k.bids[c].status = "CANCELLED"
      OBVIOUS
    <3>1. CASE c \in B
      BY <2>3, <2>5, <2>6, <3>1
    <3>2. CASE c \notin B
      <4>1. k.bids[c] = l.bids[c]
        BY <2>3, <2>5, <3>2
      <4> QED BY <2>6, <2>7, <3>2, <4>1
    <3> QED BY <3>1, <3>2
  <2>9. ASSUME NEW c \in Buyouts PROVE k.bids[c].status = "NONE"
    <3>1. c \in Bids /\ l.bids[c].status = "NONE"
      BY <2>1, BuyoutsAreBids
    <3> QED BY <2>8, <3>1
  <2>10. TakenDown(l, k)
    BY <2>5, <2>8, <2>9 DEF TakenDown
  <2> QED BY <2>1, <2>5, <2>10 DEF k
<1> QED BY <1>1, <1>2

LEMMA TakenDownOK ==
    ASSUME NEW l \in Listing, NEW k \in Listing, RowOK(l), TakenDown(l, k)
    PROVE  RowOK(k)
<1>1. \A c \in Bids : /\ k.bids[c].amount = l.bids[c].amount
                      /\ k.bids[c].status # "NONE" <=> l.bids[c].status # "NONE"
                      /\ k.bids[c].status \notin {"PENDING", "WINNING", "OUTBID", "WON", "FAILED"}
  BY DEF TakenDown
<1>2. k.status = "CANCELLED" /\ \A c \in Buyouts : k.bids[c].status = "NONE"
  BY DEF TakenDown
<1>3. \A c \in Bids \ Buyouts : k.bids[c].status # "NONE" /\ BuyoutPrice # 0 =>
          k.bids[c].amount < BuyoutPrice
  BY <1>1 DEF RowOK
<1> QED BY <1>1, <1>2, <1>3 DEF RowOK, Leads, LiveBid

(* A write of settlement: the auction is over, nobody takes the lead, and the leader *)
(* keeps it unless settlement failed.                                                *)
Closed(l, k) ==
    /\ k.status \notin {"ACTIVE", "CANCELLED"}
    /\ l.status = "SETTLEMENT_FAILED" => k.status = "SETTLEMENT_FAILED"
    /\ \A c \in Bids :
          /\ k.bids[c].amount = l.bids[c].amount
          /\ k.bids[c].status # "NONE" <=> l.bids[c].status # "NONE"
          /\ k.bids[c].status \notin {"PENDING", "FAILED"}
          /\ k.bids[c].status \in {"WINNING", "OUTBID"} => k.bids[c].status = l.bids[c].status
          /\ k.bids[c].status = "WON" => l.bids[c].status \in {"WINNING", "WON"}
          /\ l.bids[c].status = "CANCELLED" => k.bids[c].status = "CANCELLED"
          /\ k.status # "SETTLEMENT_FAILED" /\ Leads(l, c) => Leads(k, c)

LEMMA ClosedOK ==
    ASSUME NEW l \in Listing, NEW k \in Listing, RowOK(l), Closed(l, k)
    PROVE  RowOK(k)
<1>1. /\ k.status \notin {"ACTIVE", "CANCELLED"}
      /\ l.status = "SETTLEMENT_FAILED" => k.status = "SETTLEMENT_FAILED"
      /\ \A c \in Bids :
            /\ k.bids[c].amount = l.bids[c].amount
            /\ k.bids[c].status # "NONE" <=> l.bids[c].status # "NONE"
            /\ k.bids[c].status \notin {"PENDING", "FAILED"}
            /\ k.bids[c].status \in {"WINNING", "OUTBID"} => k.bids[c].status = l.bids[c].status
            /\ Leads(k, c) => Leads(l, c)
            /\ k.status # "SETTLEMENT_FAILED" /\ Leads(l, c) => Leads(k, c)
  BY DEF Closed, Leads
<1>2. \A i, j \in Bids : Leads(k, i) /\ Leads(k, j) => i = j
  BY <1>1 DEF RowOK
<1>3. \A i, j \in Bids : k.bids[i].status = "WINNING" /\ k.bids[j].status = "OUTBID" =>
          k.bids[i].amount > k.bids[j].amount
  BY <1>1 DEF RowOK
<1>4. \A i, j \in Bids : /\ k.bids[i].status \in {"WINNING", "OUTBID"}
                         /\ k.bids[j].status \in {"WINNING", "OUTBID"}
                         /\ k.bids[i].amount = k.bids[j].amount
                         => i = j
  BY <1>1 DEF RowOK
<1>5. /\ \A b \in Bids \cap Buyouts : k.bids[b].status # "NONE" =>
            BuyoutPrice # 0 /\ k.bids[b].amount = BuyoutPrice
      /\ \A b \in Bids \ Buyouts : k.bids[b].status # "NONE" /\ BuyoutPrice # 0 =>
            k.bids[b].amount < BuyoutPrice
  BY <1>1 DEF RowOK
<1>6. (\E b \in Buyouts : k.bids[b].status # "NONE") =>
          \/ k.status = "SETTLEMENT_FAILED"
          \/ /\ \E i \in Bids : Leads(k, i)
             /\ \A i \in Bids : Leads(k, i) => i \in Buyouts
  <2> SUFFICES ASSUME NEW b \in Buyouts, k.bids[b].status # "NONE", k.status # "SETTLEMENT_FAILED"
               PROVE  /\ \E i \in Bids : Leads(k, i)
                      /\ \A i \in Bids : Leads(k, i) => i \in Buyouts
    OBVIOUS
  <2>1. l.bids[b].status # "NONE" /\ l.status # "SETTLEMENT_FAILED"
    BY <1>1, BuyoutsAreBids
  <2>2. (\E i \in Bids : Leads(l, i)) /\ \A i \in Bids : Leads(l, i) => i \in Buyouts
    BY <2>1 DEF RowOK
  <2> QED BY <1>1, <2>2
<1> QED BY <1>1, <1>2, <1>3, <1>4, <1>5, <1>6 DEF RowOK

(* Freezing, expiring, failing: only the status changes. *)
LEMMA StatusCloses ==
    ASSUME NEW l \in Listing, NEW k \in Listing, RowOK(l), k.bids = l.bids,
           k.status \notin {"ACTIVE", "CANCELLED"},
           l.status = "SETTLEMENT_FAILED" => k.status = "SETTLEMENT_FAILED"
    PROVE  Closed(l, k)
BY DEF RowOK, Closed, Leads

LEMMA FreezeCloses ==
    ASSUME NEW l \in Listing, RowOK(l), MayFreeze(l)
    PROVE  LET k == Freeze(l) IN
           /\ k \in Listing /\ Closed(l, k) /\ l.status \in {"ACTIVE", "PENDING_SETTLEMENT"}
           /\ k.status = "PENDING_SETTLEMENT" /\ k.sold = l.sold /\ k.bids = l.bids
<1> DEFINE k == Freeze(l)
<1>1. /\ k \in Listing /\ k.status = "PENDING_SETTLEMENT" /\ k.sold = l.sold /\ k.bids = l.bids
      /\ l.status \in {"ACTIVE", "PENDING_SETTLEMENT"}
  BY DEF MayFreeze, CanTransition, Freeze, Listing, ListingStatuses
<1> QED BY <1>1, StatusCloses

LEMMA ExpireCloses ==
    ASSUME NEW l \in Listing, RowOK(l), MayExpire(l)
    PROVE  LET k == Expire(l) IN
           /\ k \in Listing /\ Closed(l, k) /\ l.status \in {"EXPIRED", "PENDING_SETTLEMENT"}
           /\ k.status = "EXPIRED" /\ k.sold = l.sold /\ k.bids = l.bids
<1> DEFINE k == Expire(l)
<1>1. /\ k \in Listing /\ k.status = "EXPIRED" /\ k.sold = l.sold /\ k.bids = l.bids
      /\ l.status \in {"EXPIRED", "PENDING_SETTLEMENT"}
  BY DEF MayExpire, Expire, Listing, ListingStatuses
<1> QED BY <1>1, StatusCloses

LEMMA FailureCloses ==
    ASSUME NEW l \in Listing, RowOK(l)
    PROVE  LET k == MarkSettlementFailed(l) IN
           \/ k = l /\ l.status # "PENDING_SETTLEMENT"
           \/ /\ l.status = "PENDING_SETTLEMENT"
              /\ k \in Listing /\ Closed(l, k)
              /\ k.status = "SETTLEMENT_FAILED" /\ k.sold = l.sold /\ k.bids = l.bids
<1> DEFINE k == MarkSettlementFailed(l)
<1>1. CASE l.status = "PENDING_SETTLEMENT"
  <2>1. k \in Listing /\ k.status = "SETTLEMENT_FAILED" /\ k.sold = l.sold /\ k.bids = l.bids
    BY <1>1 DEF MarkSettlementFailed, Listing, ListingStatuses
  <2> QED BY <1>1, <2>1, StatusCloses
<1>2. CASE l.status # "PENDING_SETTLEMENT"
  BY <1>2 DEF MarkSettlementFailed
<1> QED BY <1>1, <1>2

LEMMA SaleCloses ==
    ASSUME NEW l \in Listing, RowOK(l), MayMarkSold(l)
    PROVE  LET k == MarkSold(l) IN
           \/ k = l /\ l.status = "SOLD"
           \/ /\ l.status = "PENDING_SETTLEMENT"
              /\ k \in Listing /\ Closed(l, k) /\ k.status = "SOLD" /\ k.bids = l.bids
              /\ \E won \in Bids : /\ l.bids[won].status = "WON"
                                   /\ k.sold = [buyer |-> Bidder[won], price |-> l.bids[won].amount]
<1> DEFINE k == MarkSold(l)
<1>1. CASE l.status = "SOLD"
  BY <1>1 DEF MarkSold
<1>2. CASE l.status # "SOLD"
  <2> DEFINE won == CHOOSE b \in Having(l, {"WON"}) : TRUE
  <2>1. l.status = "PENDING_SETTLEMENT" /\ won \in Bids /\ l.bids[won].status = "WON"
    BY <1>2 DEF MayMarkSold, Having
  <2> DEFINE s == [buyer |-> Bidder[won], price |-> l.bids[won].amount]
  <2>2. s \in Sale
    <3>1. l.bids[won] \in Bid /\ l.bids[won] # NoBid
      BY <2>1 DEF Listing, NoBid
    <3>2. l.bids[won].amount \in Nat \ {0}
      BY <3>1, BidKinds
    <3>3. Bidder[won] \in Members
      BY <2>1, ListingConstants
    <3> QED BY <3>2, <3>3 DEF Sale
  <2>3. k = [l EXCEPT !.status = "SOLD", !.sold = s]
    BY <1>2 DEF MarkSold
  <2>4. \E b \in Bids : l.bids[b].status = "WON" /\ s = [buyer |-> Bidder[b], price |-> l.bids[b].amount]
    BY <2>1
  <2> HIDE DEF s, k
  <2>5. k \in Listing /\ k.status = "SOLD" /\ k.bids = l.bids /\ k.sold = s
    BY <2>2, <2>3 DEF Listing, ListingStatuses
  <2>6. Closed(l, k)
    BY <2>1, <2>5, StatusCloses
  <2> QED BY <2>1, <2>4, <2>5, <2>6 DEF k
<1> QED BY <1>1, <1>2

LEMMA WinnerCloses ==
    ASSUME NEW l \in Listing, RowOK(l), NEW b \in Bids, MaySetWinningBid(l, b),
           l.status \notin {"ACTIVE", "CANCELLED"}
    PROVE  LET k == SetWinningBid(l, b) IN
           /\ k \in Listing /\ Closed(l, k) /\ Leads(l, b)
           /\ k.status = l.status /\ k.sold = l.sold
           /\ k.bids[b].status = "WON" /\ \A c \in Bids \ {b} : k.bids[c] = l.bids[c]
<1> DEFINE k == SetWinningBid(l, b)
<1>1. l.bids[b].status \in {"WON", "WINNING"}
  BY DEF MaySetWinningBid, CanBidTransition, RowOK
<1>2. {b} \in SUBSET Recorded(l) /\ "WON" \in BidStatuses
  BY <1>1 DEF Recorded, NoBid, BidStatuses
<1>3. /\ k \in Listing /\ k.status = l.status /\ k.sold = l.sold
      /\ \A c \in Bids : /\ k.bids[c].amount = l.bids[c].amount
                         /\ c = b => k.bids[c].status = "WON"
                         /\ c # b => k.bids[c] = l.bids[c]
  BY <1>2, MoveEffect, MoveKeeps DEF SetWinningBid
<1> HIDE DEF k
<1>4. Closed(l, k)
  BY <1>1, <1>3 DEF Closed, Leads, RowOK
<1> QED BY <1>1, <1>3, <1>4 DEF Leads, k

LEMMA LossCloses ==
    ASSUME NEW l \in Listing, RowOK(l), l.status = "SETTLEMENT_FAILED"
    PROVE  LET k == LoseAllBids(l) IN
           /\ k \in Listing /\ Closed(l, k)
           /\ k.status = l.status /\ k.sold = l.sold
<1> DEFINE k == LoseAllBids(l)
<1> DEFINE B == Recorded(l) \ Having(l, {"CANCELLED", "FAILED", "LOST"})
<1>1. B \in SUBSET Recorded(l) /\ "LOST" \in BidStatuses
  BY DEF BidStatuses
<1>2. /\ k \in Listing /\ k.status = l.status /\ k.sold = l.sold
      /\ \A c \in Bids : /\ k.bids[c].amount = l.bids[c].amount
                         /\ c \in B => k.bids[c].status = "LOST"
                         /\ c \notin B => k.bids[c] = l.bids[c]
  BY <1>1, MoveEffect, MoveKeeps DEF LoseAllBids
<1> HIDE DEF k
<1>3. \A c \in Bids : c \in B => l.bids[c].status \notin {"NONE", "CANCELLED"}
  <2>1. \A c \in Bids : l.bids[c] \in Bid
    BY DEF Listing
  <2> QED BY <2>1, BidKinds DEF Recorded, Having
<1>4. \A c \in Bids : c \notin B => l.bids[c].status \in {"NONE", "CANCELLED", "FAILED", "LOST"}
  BY DEF Recorded, Having, NoBid
<1> HIDE DEF B
<1>5. \A c \in Bids :
          /\ k.bids[c].amount = l.bids[c].amount
          /\ k.bids[c].status # "NONE" <=> l.bids[c].status # "NONE"
          /\ k.bids[c].status \in {"NONE", "CANCELLED", "LOST"}
          /\ l.bids[c].status = "CANCELLED" => k.bids[c].status = "CANCELLED"
  <2> SUFFICES ASSUME NEW c \in Bids
               PROVE  /\ k.bids[c].amount = l.bids[c].amount
                      /\ k.bids[c].status # "NONE" <=> l.bids[c].status # "NONE"
                      /\ k.bids[c].status \in {"NONE", "CANCELLED", "LOST"}
                      /\ l.bids[c].status = "CANCELLED" => k.bids[c].status = "CANCELLED"
    OBVIOUS
  <2>1. l.bids[c].status # "FAILED"
    BY DEF RowOK
  <2> QED BY <1>2, <1>3, <1>4, <2>1
<1> QED BY <1>2, <1>5 DEF Closed, k

-----------------------------------------------------------------------------
(* The repository.                                                         *)

(* A write keeps what a verb made of the row, and the version tells whether it changed. *)
Moved(l, x) ==
    /\ x \in Listing /\ l.version <= x.version
    /\ x.version = l.version => x = l

LEMMA WriteEffect ==
    ASSUME NEW l \in Listing, NEW k \in Listing
    PROVE  LET x == Write(l, k) IN
           Moved(l, x) /\ x.status = k.status /\ x.sold = k.sold /\ x.bids = k.bids
<1>1. CASE k = l
  BY <1>1 DEF Write, Moved, Listing
<1>2. CASE k # l
  <2>1. Write(l, k) = [k EXCEPT !.version = l.version + 1]
    BY <1>2 DEF Write
  <2>2. l.version \in Nat
    BY DEF Listing
  <2> QED BY <2>1, <2>2 DEF Moved, Listing
<1> QED BY <1>1, <1>2

LEMMA SameRowOK ==
    ASSUME NEW l, NEW k, RowOK(k), l.status = k.status, l.bids = k.bids
    PROVE  RowOK(l)
BY DEF RowOK, Leads

(* writeChanges' order of statements never shows the index two leaders. *)
LEMMA IndexAllows ==
    ASSUME NEW l \in Listing, NEW k \in Listing, RowOK(k)
    PROVE  ~IndexRefuses(l, k)
<1> SUFFICES ASSUME NEW i \in 1..3
             PROVE  LET written == UNION {Statements(l, k)[j] : j \in 1..i} IN
                    ~(Cardinality({b \in Bids :
                        (IF b \in written THEN k.bids[b] ELSE l.bids[b]).status = "WINNING"}) > 1)
  BY DEF IndexRefuses
<1> DEFINE written == UNION {Statements(l, k)[j] : j \in 1..i}
<1> DEFINE W == {b \in Bids : (IF b \in written THEN k.bids[b] ELSE l.bids[b]).status = "WINNING"}
<1>1. Changed(l, k) \ (Inserted(l, k) \cup ToWinning(l, k)) \subseteq written
  <2>1. Statements(l, k)[1] = Changed(l, k) \ (Inserted(l, k) \cup ToWinning(l, k))
    BY DEF Statements
  <2>2. 1 \in 1..i
    OBVIOUS
  <2> QED BY <2>1, <2>2
<1> HIDE DEF written
<1>2. ASSUME NEW c \in W PROVE k.bids[c].status = "WINNING"
  <2>1. CASE c \in written
    BY <2>1
  <2>2. CASE c \notin written
    <3>1. c \in Bids /\ l.bids[c].status = "WINNING" /\ c \in Recorded(l)
      BY <2>2 DEF Recorded, NoBid
    <3> SUFFICES ASSUME k.bids[c].status # "WINNING" PROVE FALSE
      OBVIOUS
    <3>2. c \in Changed(l, k)
      BY <3>1 DEF Changed
    <3>3. c \notin Inserted(l, k) /\ c \notin ToWinning(l, k)
      BY <3>1 DEF Inserted, ToWinning, Winning, Having
    <3> QED BY <1>1, <2>2, <3>2, <3>3
  <2> QED BY <2>1, <2>2
<1>3. \A c, d \in W : c = d
  BY <1>2 DEF RowOK, Leads
<1>4. Cardinality(W) = 0 \/ Cardinality(W) = 1
  <2>1. CASE W = {}
    BY <2>1, FS_EmptySet
  <2>2. CASE W # {}
    <3>1. PICK x \in W : TRUE
      BY <2>2
    <3>2. W = {x}
      BY <1>3, <3>1
    <3> QED BY <3>2, FS_Singleton
  <2> QED BY <2>1, <2>2
<1> HIDE DEF W
<1>5. ~(Cardinality(W) > 1)
  BY <1>4
<1> QED BY <1>5 DEF W, written

LEMMA UpdateEffect ==
    ASSUME listing \in Listing, NEW k \in Listing, RowOK(k), NEW b, NEW answer, UpdateTo(k, b, answer)
    PROVE  /\ Moved(listing, listing') /\ RowOK(listing') /\ told' = told \cup answer
           /\ listing'.status = k.status /\ listing'.sold = k.sold /\ listing'.bids = k.bids
<1>1. ~IndexRefuses(listing, k)
  BY IndexAllows
<1>2. listing' = Write(listing, k) /\ told' = told \cup answer
  BY <1>1 DEF UpdateTo
<1>3. /\ Moved(listing, listing')
      /\ listing'.status = k.status /\ listing'.sold = k.sold /\ listing'.bids = k.bids
  BY <1>2, WriteEffect
<1>4. RowOK(listing')
  BY <1>3, SameRowOK
<1> QED BY <1>2, <1>3, <1>4

-----------------------------------------------------------------------------
(* What a caller's step keeps.                                             *)

LEMMA ReturnEffect ==
    ASSUME TypeOK, NEW w \in Callers, Return(w)
    PROVE  /\ pc' \in [Callers -> {"idle", "write", "load", "save", "start"}]
           /\ req' \in [Callers -> Requests \cup {NoReq}]
           /\ at' \in [Callers -> 0..MaxTime]
           /\ snap' \in [Callers -> Listing]
           /\ tries' \in [Callers -> 0..(MaxRetries - 1)]
           /\ pc'[w] = "idle"
           /\ \A x \in Callers \ {w} :
                 pc'[x] = pc[x] /\ req'[x] = req[x] /\ at'[x] = at[x] /\ snap'[x] = snap[x]
<1>1. 0 \in 0..MaxTime /\ 0 \in 0..(MaxRetries - 1)
  BY CallConstants
<1>2. NewListing \in Listing
  BY DEF NewListing, Listing, ListingStatuses, Bid, Sale
<1> HIDE DEF NewListing, Listing, Requests, NoReq
<1>3. /\ pc' \in [Callers -> {"idle", "write", "load", "save", "start"}] /\ pc'[w] = "idle"
      /\ \A x \in Callers \ {w} : pc'[x] = pc[x]
  BY DEF Return, TypeOK
<1>4. req' \in [Callers -> Requests \cup {NoReq}] /\ \A x \in Callers \ {w} : req'[x] = req[x]
  BY DEF Return, TypeOK
<1>5. at' \in [Callers -> 0..MaxTime] /\ \A x \in Callers \ {w} : at'[x] = at[x]
  BY <1>1 DEF Return, TypeOK
<1>6. snap' \in [Callers -> Listing] /\ \A x \in Callers \ {w} : snap'[x] = snap[x]
  BY <1>2 DEF Return, TypeOK
<1>7. tries' \in [Callers -> 0..(MaxRetries - 1)]
  BY <1>1 DEF Return, TypeOK
<1> QED BY <1>3, <1>4, <1>5, <1>6, <1>7

LEMMA FreshKept ==
    ASSUME TypeOK, Fresh, Moved(listing, listing'),
           \A x \in Callers :
              \/ pc'[x] \notin {"load", "save"}
              \/ pc'[x] = pc[x] /\ req'[x] = req[x] /\ at'[x] = at[x] /\ snap'[x] = snap[x]
    PROVE  Fresh'
<1> SUFFICES ASSUME NEW x \in Callers, pc'[x] \in {"load", "save"}
             PROVE  /\ req'[x].op = "WithdrawBid"
                    /\ pc'[x] = "save" =>
                          /\ MayWithdrawBid(snap'[x], req'[x].bid, req'[x].member, at'[x])
                          /\ snap'[x].version <= listing'.version
                          /\ snap'[x].version = listing'.version => snap'[x] = listing'
  BY DEF Fresh
<1>1. pc'[x] = pc[x] /\ req'[x] = req[x] /\ at'[x] = at[x] /\ snap'[x] = snap[x]
  OBVIOUS
<1>2. req'[x].op = "WithdrawBid"
  BY <1>1 DEF Fresh
<1>3. ASSUME pc'[x] = "save"
      PROVE  /\ MayWithdrawBid(snap'[x], req'[x].bid, req'[x].member, at'[x])
             /\ snap'[x].version <= listing'.version
             /\ snap'[x].version = listing'.version => snap'[x] = listing'
  <2>1. /\ MayWithdrawBid(snap[x], req[x].bid, req[x].member, at[x])
        /\ snap[x].version <= listing.version
        /\ snap[x].version = listing.version => snap[x] = listing
    BY <1>1, <1>3 DEF Fresh
  <2>2. snap[x].version \in Nat /\ listing.version \in Nat /\ listing'.version \in Nat
    BY DEF TypeOK, Listing, Moved
  <2>3. listing.version <= listing'.version
        /\ (listing'.version = listing.version => listing' = listing)
    BY DEF Moved
  <2>4. snap[x].version <= listing'.version
    BY <2>1, <2>2, <2>3
  <2>5. snap[x].version = listing'.version => snap[x].version = listing.version /\ listing' = listing
    BY <2>1, <2>2, <2>3
  <2> QED BY <1>1, <2>1, <2>4, <2>5
<1> QED BY <1>2, <1>3

(* A row nobody writes stays as it is. *)
LEMMA Stays ==
    ASSUME IInv, UNCHANGED <<listing, step, issued, frozen, handed, told>>
    PROVE  Moved(listing, listing') /\ RowOK(listing') /\ Course' /\ Outcome' /\ Answered'
<1>1. Moved(listing, listing') /\ RowOK(listing')
  BY DEF Moved, IInv, TypeOK, Listing
<1>2. Course'
  BY DEF IInv, Course
<1>3. Outcome'
  BY DEF IInv, Outcome, Leads
<1>4. Answered'
  BY DEF IInv, Answered
<1> QED BY <1>1, <1>2, <1>3, <1>4

(* While the listing is on sale nothing of settlement is decided. *)
LEMMA OnSale ==
    ASSUME TypeOK, Course, Outcome, listing.status = "ACTIVE", RowOK(listing'),
           listing'.status \in {"ACTIVE", "CANCELLED"}, UNCHANGED <<step, issued, frozen>>
    PROVE  Course' /\ Outcome'
<1>1. ~frozen.known /\ frozen.winner = NoBidId
  BY DEF Course
<1>2. \A b \in Bids : listing'.bids[b].status # "WON"
  BY DEF RowOK, LiveBid
<1>3. Course'
  BY <1>1, <1>2 DEF Course
<1>4. Outcome'
  BY <1>1 DEF Outcome
<1> QED BY <1>3, <1>4

LEMMA AnsweredOnSale ==
    ASSUME Answered, listing.status = "ACTIVE", UNCHANGED handed,
           NEW b \in Bids, NEW kind \in {"recorded", "withdrawn"}, told' = told \cup {<<kind, b>>},
           kind = "recorded" => listing'.bids[b].status # "NONE",
           kind = "withdrawn" => listing'.bids[b].status = "CANCELLED",
           \A c \in Bids : /\ listing.bids[c].status = "CANCELLED" => listing'.bids[c].status = "CANCELLED"
                           /\ listing.bids[c].status # "NONE" => listing'.bids[c].status # "NONE"
    PROVE  Answered'
<1>1. <<"taken down">> \notin told'
  <2>1. <<"taken down">> \notin told
    BY DEF Answered
  <2>2. <<"taken down">> # <<kind, b>>
    OBVIOUS
  <2> QED BY <2>1, <2>2
<1>2. ASSUME NEW c \in Bids
      PROVE  /\ <<"refused by index", c>> \notin told'
             /\ <<"withdrawn", c>> \in told' => listing'.bids[c].status = "CANCELLED"
             /\ <<"recorded", c>> \in told' => listing'.bids[c].status # "NONE"
  <2>1. <<"refused by index", c>> # <<kind, b>>
    OBVIOUS
  <2>2. <<"withdrawn", c>> = <<kind, b>> => kind = "withdrawn" /\ c = b
    OBVIOUS
  <2>3. <<"recorded", c>> = <<kind, b>> => kind = "recorded" /\ c = b
    OBVIOUS
  <2>4. /\ <<"refused by index", c>> \notin told
        /\ <<"withdrawn", c>> \in told => listing.bids[c].status = "CANCELLED"
        /\ <<"recorded", c>> \in told => listing.bids[c].status # "NONE"
    BY DEF Answered
  <2> QED BY <2>1, <2>2, <2>3, <2>4
<1> QED BY <1>1, <1>2 DEF Answered

LEMMA ReqKinds ==
    ASSUME TypeOK, NEW w \in Callers
    PROVE  /\ req[w].op = "PlaceBid" => req[w].bid \in Bids \ Buyouts /\ req[w].amount \in Amounts
           /\ req[w].op = "Buyout" => req[w].bid \in Buyouts
           /\ req[w].op = "Withdraw" => req[w].member \in Members
           /\ req[w].op = "WithdrawBid" => req[w].bid \in Bids /\ req[w].member \in Members
<1>1. req[w] \in Requests \cup {NoReq}
  BY DEF TypeOK
<1>2. req[w].op = "PlaceBid" => req[w].bid \in Bids \ Buyouts /\ req[w].amount \in Amounts
  BY <1>1 DEF Requests, NoReq
<1>3. req[w].op = "Buyout" => req[w].bid \in Buyouts
  BY <1>1 DEF Requests, NoReq
<1>4. req[w].op = "Withdraw" => req[w].member \in Members
  BY <1>1 DEF Requests, NoReq
<1>5. req[w].op = "WithdrawBid" => req[w].bid \in Bids /\ req[w].member \in Members
  BY <1>1 DEF Requests, NoReq
<1> QED BY <1>2, <1>3, <1>4, <1>5

LEMMA NewLeaderKeeps ==
    ASSUME NEW l \in Listing, NEW k, NEW b \in Bids, NewLeader(l, k, b)
    PROVE  \A c \in Bids : /\ l.bids[c].status = "CANCELLED" => k.bids[c].status = "CANCELLED"
                           /\ l.bids[c].status # "NONE" => k.bids[c].status # "NONE"
BY DEF NewLeader, NoBid

LEMMA LeftKeeps ==
    ASSUME NEW l \in Listing, NEW k, NEW b \in Bids, Left(l, k, b)
    PROVE  \A c \in Bids : /\ l.bids[c].status = "CANCELLED" => k.bids[c].status = "CANCELLED"
                           /\ l.bids[c].status # "NONE" => k.bids[c].status # "NONE"
BY DEF Left

-----------------------------------------------------------------------------
(* The callers' steps.                                                     *)

LEMMA CallTypes ==
    ASSUME TypeOK, UNCHANGED <<now, step, issued, frozen>>,
           pc' \in [Callers -> {"idle", "write", "load", "save", "start"}],
           req' \in [Callers -> Requests \cup {NoReq}], at' \in [Callers -> 0..MaxTime],
           snap' \in [Callers -> Listing], tries' \in [Callers -> 0..(MaxRetries - 1)],
           listing' \in Listing, handed' \subseteq Bids, told' \subseteq Answers
    PROVE  TypeOK'
<1> HIDE DEF Listing, Requests, NoReq, Answers
<1> QED BY DEF TypeOK

LEMMA StaysReturns ==
    ASSUME IInv, NEW w \in Callers, Return(w),
           UNCHANGED <<listing, now, step, issued, frozen, handed, told>>
    PROVE  IInv'
<1>1. Moved(listing, listing') /\ RowOK(listing') /\ Course' /\ Outcome' /\ Answered'
  BY Stays
<1>2. TypeOK /\ Fresh
  BY DEF IInv
<1>3. TypeOK'
  <2>1. listing' \in Listing /\ handed' \subseteq Bids /\ told' \subseteq Answers
    BY <1>2 DEF TypeOK
  <2> QED BY <1>2, <2>1, ReturnEffect, CallTypes
<1>4. \A x \in Callers :
        \/ pc'[x] \notin {"load", "save"}
        \/ pc'[x] = pc[x] /\ req'[x] = req[x] /\ at'[x] = at[x] /\ snap'[x] = snap[x]
  BY <1>2, ReturnEffect
<1>5. Fresh'
  BY <1>1, <1>2, <1>4, FreshKept
<1> QED BY <1>1, <1>3, <1>5 DEF IInv

LEMMA BeginStep ==
    ASSUME IInv, NEW w \in Callers, NEW r \in Requests, NEW p \in {"write", "load", "start"},
           p = "load" => r.op = "WithdrawBid", Begin(w, r, p)
    PROVE  IInv'
<1>1. Moved(listing, listing') /\ RowOK(listing') /\ Course' /\ Outcome' /\ Answered'
  BY Stays DEF Begin
<1>2. TypeOK /\ Fresh
  BY DEF IInv
<1>3. /\ pc' \in [Callers -> {"idle", "write", "load", "save", "start"}] /\ pc'[w] = p
      /\ \A x \in Callers \ {w} : pc'[x] = pc[x]
  BY <1>2 DEF TypeOK, Begin
<1>4. /\ req' \in [Callers -> Requests \cup {NoReq}] /\ req'[w] = r
      /\ \A x \in Callers \ {w} : req'[x] = req[x]
  <2> HIDE DEF Requests, NoReq
  <2> QED BY <1>2 DEF TypeOK, Begin
<1>5. at' \in [Callers -> 0..MaxTime] /\ \A x \in Callers \ {w} : at'[x] = at[x]
  BY <1>2 DEF TypeOK, Begin
<1>6. UNCHANGED <<listing, now, snap, tries, step, issued, frozen, handed, told>>
  BY DEF Begin
<1>7. TypeOK'
  <2>1. /\ listing' \in Listing /\ handed' \subseteq Bids /\ told' \subseteq Answers
        /\ snap' \in [Callers -> Listing] /\ tries' \in [Callers -> 0..(MaxRetries - 1)]
    <3> HIDE DEF Listing, Answers
    <3> QED BY <1>2, <1>6 DEF TypeOK
  <2> QED BY <1>2, <1>3, <1>4, <1>5, <1>6, <2>1, CallTypes
<1>8. Fresh'
  <2> SUFFICES ASSUME NEW x \in Callers
               PROVE  /\ pc'[x] \in {"load", "save"} => req'[x].op = "WithdrawBid"
                      /\ pc'[x] = "save" =>
                            /\ MayWithdrawBid(snap'[x], req'[x].bid, req'[x].member, at'[x])
                            /\ snap'[x].version <= listing'.version
                            /\ snap'[x].version = listing'.version => snap'[x] = listing'
    BY DEF Fresh
  <2>1. CASE x = w
    BY <1>3, <1>4, <2>1
  <2>2. CASE x # w
    <3>1. /\ pc'[x] = pc[x] /\ req'[x] = req[x] /\ at'[x] = at[x] /\ snap'[x] = snap[x]
          /\ listing' = listing
      BY <1>3, <1>4, <1>5, <1>6, <2>2
    <3> QED BY <1>2, <3>1 DEF Fresh
  <2> QED BY <2>1, <2>2
<1> QED BY <1>1, <1>7, <1>8 DEF IInv

LEMMA CallStep == ASSUME IInv, NEW w \in Callers, Call(w) PROVE IInv'
<1>1. CASE \E b \in Bids, n \in Amounts : BeginPlaceBid(w, b, n)
  <2>1. PICK b \in Bids, n \in Amounts : BeginPlaceBid(w, b, n)
    BY <1>1
  <2>2. [op |-> "PlaceBid", bid |-> b, amount |-> n] \in Requests
    BY <2>1 DEF BeginPlaceBid, Requests
  <2>3. Begin(w, [op |-> "PlaceBid", bid |-> b, amount |-> n], "write")
    BY <2>1 DEF BeginPlaceBid
  <2> QED BY <2>2, <2>3, BeginStep
<1>2. CASE \E b \in Bids : BeginBuyout(w, b)
  <2>1. PICK b \in Bids : BeginBuyout(w, b)
    BY <1>2
  <2>2. [op |-> "Buyout", bid |-> b] \in Requests
    BY <2>1 DEF BeginBuyout, Requests
  <2>3. \/ Begin(w, [op |-> "Buyout", bid |-> b], "start")
        \/ Begin(w, [op |-> "Buyout", bid |-> b], "write")
    BY <2>1 DEF BeginBuyout
  <2> QED BY <2>2, <2>3, BeginStep
<1>3. CASE \E m \in Members, n \in Amounts : BeginAccept(w, m, n)
  <2>1. Begin(w, [op |-> "AcceptBid"], "start")
    BY <1>3 DEF BeginAccept
  <2>2. [op |-> "AcceptBid"] \in Requests
    BY DEF Requests
  <2> QED BY <2>1, <2>2, BeginStep
<1>4. CASE \E m \in Members : BeginWithdraw(w, m)
  <2>1. PICK m \in Members : BeginWithdraw(w, m)
    BY <1>4
  <2>2. [op |-> "Withdraw", member |-> m] \in Requests
    BY DEF Requests
  <2>3. Begin(w, [op |-> "Withdraw", member |-> m], "write")
    BY <2>1 DEF BeginWithdraw
  <2> QED BY <2>2, <2>3, BeginStep
<1>5. CASE \E b \in Bids, m \in Members : BeginWithdrawBid(w, b, m)
  <2>1. PICK b \in Bids, m \in Members : BeginWithdrawBid(w, b, m)
    BY <1>5
  <2>2. [op |-> "WithdrawBid", bid |-> b, member |-> m] \in Requests
    BY DEF Requests
  <2>3. Begin(w, [op |-> "WithdrawBid", bid |-> b, member |-> m], "load")
    BY <2>1 DEF BeginWithdrawBid
  <2> QED BY <2>2, <2>3, BeginStep
<1> QED BY <1>1, <1>2, <1>3, <1>4, <1>5 DEF Call

(* A call's write: the row it leaves, and what it tells, are in order. *)
LEMMA WriteKeeps ==
    ASSUME IInv, UNCHANGED <<now, step, issued, frozen, handed>>, listing.status = "ACTIVE",
           NEW k \in Listing, RowOK(k), k.status \in {"ACTIVE", "CANCELLED"},
           NEW b \in Bids, NEW kind \in {"recorded", "withdrawn"}, UpdateTo(k, b, {<<kind, b>>}),
           kind = "recorded" => k.bids[b].status # "NONE",
           kind = "withdrawn" => k.bids[b].status = "CANCELLED",
           \A c \in Bids : /\ listing.bids[c].status = "CANCELLED" => k.bids[c].status = "CANCELLED"
                           /\ listing.bids[c].status # "NONE" => k.bids[c].status # "NONE"
    PROVE  /\ Moved(listing, listing') /\ RowOK(listing') /\ Course' /\ Outcome' /\ Answered'
           /\ told' \subseteq Answers
<1>1. TypeOK /\ Course /\ Outcome /\ Answered /\ listing \in Listing
  BY DEF IInv, TypeOK
<1>2. /\ Moved(listing, listing') /\ RowOK(listing') /\ told' = told \cup {<<kind, b>>}
      /\ listing'.status = k.status /\ listing'.bids = k.bids
  BY <1>1, UpdateEffect
<1>3. Course' /\ Outcome'
  BY <1>1, <1>2, OnSale
<1>4. Answered'
  BY <1>1, <1>2, AnsweredOnSale
<1>5. told' \subseteq Answers
  <2>1. kind \in {"recorded", "withdrawn", "refused by index"}
    OBVIOUS
  <2>2. <<kind, b>> \in {"recorded", "withdrawn", "refused by index"} \X Bids
    BY <2>1
  <2>3. <<kind, b>> \in Answers
    BY <2>2 DEF Answers
  <2>4. told \subseteq Answers
    BY <1>1 DEF TypeOK
  <2> HIDE DEF Answers
  <2> QED BY <1>2, <2>3, <2>4
<1> QED BY <1>2, <1>3, <1>4, <1>5

(* Such a write, and the call's return. *)
LEMMA WriteReturns ==
    ASSUME IInv, NEW w \in Callers, Return(w), UNCHANGED <<now, step, issued, frozen>>,
           Moved(listing, listing'), RowOK(listing'), Course', Outcome', Answered',
           told' \subseteq Answers, handed' \subseteq Bids
    PROVE  IInv'
<1>1. TypeOK /\ Fresh
  BY DEF IInv
<1>2. TypeOK'
  <2>1. listing' \in Listing
    BY DEF Moved
  <2> QED BY <1>1, <2>1, ReturnEffect, CallTypes
<1>3. \A x \in Callers :
        \/ pc'[x] \notin {"load", "save"}
        \/ pc'[x] = pc[x] /\ req'[x] = req[x] /\ at'[x] = at[x] /\ snap'[x] = snap[x]
  BY <1>1, ReturnEffect
<1>4. Fresh'
  BY <1>1, <1>3, FreshKept
<1> QED BY <1>2, <1>4 DEF IInv

LEMMA PlaceBidStep == ASSUME IInv, NEW w \in Callers, WritePlaceBid(w) PROVE IInv'
<1> DEFINE b == req[w].bid
<1> DEFINE n == req[w].amount
<1> DEFINE k == ConfirmBid(PlaceBid(listing, b, n), b)
<1>1. /\ TypeOK /\ RowOK(listing) /\ listing \in Listing
      /\ b \in Bids \ Buyouts /\ b \in Bids /\ n \in Amounts
      /\ Return(w) /\ UNCHANGED <<now, step, issued, frozen, handed>> /\ handed' \subseteq Bids
  <2>1. TypeOK /\ RowOK(listing) /\ req[w].op = "PlaceBid"
    BY DEF IInv, WritePlaceBid
  <2>2. Return(w) /\ UNCHANGED <<now, step, issued, frozen, handed>>
    BY DEF WritePlaceBid
  <2> QED BY <2>1, <2>2, ReqKinds DEF TypeOK
<1>2. CASE b \in Recorded(listing)
  <2>1. listing' = listing /\ told' = told \cup {<<"recorded", b>>}
    BY <1>2 DEF WritePlaceBid
  <2>2. Moved(listing, listing') /\ RowOK(listing')
    BY <1>1, <2>1 DEF Moved, Listing
  <2>3. Course' /\ Outcome'
    <3>1. UNCHANGED <<listing, step, issued, frozen>>
      BY <1>1, <2>1
    <3> QED BY <3>1 DEF IInv, Course, Outcome, Leads
  <2>4. <<"recorded", b>> \in Answers
    BY <1>1 DEF Answers
  <2>5. told' \subseteq Answers
    BY <1>1, <2>1, <2>4 DEF TypeOK
  <2>6. listing'.bids[b].status # "NONE"
    <3>1. listing.bids[b] \in Bid /\ listing.bids[b] # NoBid
      BY <1>1, <1>2 DEF Recorded, Listing
    <3> QED BY <2>1, <3>1, BidKinds
  <2>7. Answered'
    <3>1. ASSUME NEW c \in Bids
          PROVE  /\ <<"refused by index", c>> \notin told'
                 /\ <<"withdrawn", c>> \in told' => listing'.bids[c].status = "CANCELLED"
                 /\ <<"recorded", c>> \in told' => listing'.bids[c].status # "NONE"
      <4>1. /\ <<"refused by index", c>> # <<"recorded", b>> /\ <<"withdrawn", c>> # <<"recorded", b>>
            /\ <<"recorded", c>> = <<"recorded", b>> => c = b
        OBVIOUS
      <4>2. /\ <<"refused by index", c>> \notin told
            /\ <<"withdrawn", c>> \in told => listing.bids[c].status = "CANCELLED"
            /\ <<"recorded", c>> \in told => listing.bids[c].status # "NONE"
        BY DEF IInv, Answered
      <4> QED BY <2>1, <2>6, <4>1, <4>2
    <3>2. <<"taken down">> \in told' => <<"taken down">> \in told
      BY <2>1
    <3>3. handed' = handed
      BY <1>1
    <3> QED BY <2>1, <3>1, <3>2, <3>3 DEF IInv, Answered
  <2> QED BY <1>1, <2>2, <2>3, <2>5, <2>7, WriteReturns
<1>3. CASE b \notin Recorded(listing) /\ MayPlaceBid(listing, b, n, at[w])
           /\ MayConfirmBid(PlaceBid(listing, b, n), b)
  <2>1. UpdateTo(k, b, {<<"recorded", b>>})
    BY <1>3 DEF WritePlaceBid
  <2>2. k \in Listing /\ NewLeader(listing, k, b)
    BY <1>1, <1>3, PlaceLeads
  <2> HIDE DEF k
  <2>3. RowOK(k)
    BY <1>1, <2>2, NewLeaderOK
  <2>4. listing.status = "ACTIVE" /\ k.status = "ACTIVE" /\ k.bids[b].status # "NONE"
    BY <2>2 DEF NewLeader
  <2>5. \A c \in Bids : /\ listing.bids[c].status = "CANCELLED" => k.bids[c].status = "CANCELLED"
                        /\ listing.bids[c].status # "NONE" => k.bids[c].status # "NONE"
    BY <1>1, <2>2, NewLeaderKeeps
  <2>6. /\ Moved(listing, listing') /\ RowOK(listing') /\ Course' /\ Outcome' /\ Answered'
        /\ told' \subseteq Answers
    <3>1. "recorded" = "withdrawn" => k.bids[b].status = "CANCELLED"
      OBVIOUS
    <3> HIDE DEF b
    <3> QED BY <1>1, <2>1, <2>2, <2>3, <2>4, <2>5, <3>1, WriteKeeps
  <2> QED BY <1>1, <2>6, WriteReturns
<1>4. CASE /\ b \notin Recorded(listing)
           /\ ~(MayPlaceBid(listing, b, n, at[w]) /\ MayConfirmBid(PlaceBid(listing, b, n), b))
  <2>1. UNCHANGED <<listing, told>>
    BY <1>4 DEF WritePlaceBid
  <2> QED BY <1>1, <2>1, StaysReturns
<1> QED BY <1>2, <1>3, <1>4

LEMMA BuyoutStep == ASSUME IInv, NEW w \in Callers, WriteBuyout(w) PROVE IInv'
<1> DEFINE b == req[w].bid
<1> DEFINE replay == b \in Recorded(listing) \/ HasBuyoutBy(listing, Bidder[b])
<1> DEFINE lands == CanBuyout(listing, Bidder[b], BuyoutPrice, at[w])
<1> DEFINE k == Buyout(listing, b)
<1>1. /\ TypeOK /\ Fresh /\ RowOK(listing) /\ listing \in Listing
      /\ b \in Buyouts /\ b \in Bids /\ pc[w] = "write"
      /\ UNCHANGED <<now, step, issued, frozen, handed>> /\ handed' \subseteq Bids
  <2>1. TypeOK /\ Fresh /\ RowOK(listing) /\ req[w].op = "Buyout"
    BY DEF IInv, WriteBuyout
  <2>2. pc[w] = "write" /\ UNCHANGED <<now, step, issued, frozen, handed>>
    BY DEF WriteBuyout
  <2> QED BY <2>1, <2>2, ReqKinds, BuyoutsAreBids DEF TypeOK
<1>2. /\ Moved(listing, listing') /\ RowOK(listing') /\ Course' /\ Outcome' /\ Answered'
      /\ told' \subseteq Answers
  <2>1. CASE ~replay /\ lands
    <3>1. UpdateTo(k, b, {<<"recorded", b>>})
      BY <2>1 DEF WriteBuyout
    <3>2. b \notin Recorded(listing)
      BY <2>1
    <3>3. k \in Listing /\ NewLeader(listing, k, b)
      BY <1>1, <2>1, <3>2, BuyoutLeads
    <3> HIDE DEF k
    <3>4. RowOK(k)
      BY <1>1, <3>3, NewLeaderOK
    <3>5. listing.status = "ACTIVE" /\ k.status = "ACTIVE" /\ k.bids[b].status # "NONE"
      BY <3>3 DEF NewLeader
    <3>6. \A c \in Bids : /\ listing.bids[c].status = "CANCELLED" => k.bids[c].status = "CANCELLED"
                          /\ listing.bids[c].status # "NONE" => k.bids[c].status # "NONE"
      BY <1>1, <3>3, NewLeaderKeeps
    <3>7. "recorded" = "withdrawn" => k.bids[b].status = "CANCELLED"
      OBVIOUS
    <3> HIDE DEF b
    <3> QED BY <1>1, <3>1, <3>3, <3>4, <3>5, <3>6, <3>7, WriteKeeps
  <2>2. CASE ~(~replay /\ lands)
    <3>1. UNCHANGED <<listing, told>>
      BY <2>2 DEF WriteBuyout
    <3>2. told' \subseteq Answers
      BY <1>1, <3>1 DEF TypeOK
    <3> QED BY <1>1, <3>1, <3>2, Stays
  <2> QED BY <2>1, <2>2
<1>3. CASE replay \/ lands
  <2>1. pc' = [pc EXCEPT ![w] = "start"] /\ UNCHANGED <<req, at, snap, tries>>
    BY <1>3 DEF WriteBuyout
  <2>2. /\ pc' \in [Callers -> {"idle", "write", "load", "save", "start"}] /\ pc'[w] = "start"
        /\ \A x \in Callers \ {w} : pc'[x] = pc[x]
    BY <1>1, <2>1 DEF TypeOK
  <2>3. TypeOK'
    <3>1. /\ req' \in [Callers -> Requests \cup {NoReq}] /\ at' \in [Callers -> 0..MaxTime]
          /\ snap' \in [Callers -> Listing] /\ tries' \in [Callers -> 0..(MaxRetries - 1)]
      <4> HIDE DEF Listing, Requests, NoReq
      <4> QED BY <1>1, <2>1 DEF TypeOK
    <3>2. listing' \in Listing
      BY <1>2 DEF Moved
    <3> QED BY <1>1, <1>2, <2>2, <3>1, <3>2, CallTypes
  <2>4. \A x \in Callers :
          \/ pc'[x] \notin {"load", "save"}
          \/ pc'[x] = pc[x] /\ req'[x] = req[x] /\ at'[x] = at[x] /\ snap'[x] = snap[x]
    BY <2>1, <2>2
  <2>5. Fresh'
    BY <1>1, <1>2, <2>4, FreshKept
  <2> QED BY <1>2, <2>3, <2>5 DEF IInv
<1>4. CASE ~(replay \/ lands)
  <2>1. Return(w)
    BY <1>4 DEF WriteBuyout
  <2> QED BY <1>1, <1>2, <2>1, WriteReturns
<1> QED BY <1>3, <1>4

LEMMA WithdrawStep == ASSUME IInv, NEW w \in Callers, WriteWithdraw(w) PROVE IInv'
<1>1. /\ TypeOK /\ Course /\ Outcome /\ Answered /\ RowOK(listing) /\ listing \in Listing
      /\ Return(w) /\ UNCHANGED <<now, step, issued, frozen>>
  BY DEF IInv, TypeOK, WriteWithdraw
<1>2. CASE MayWithdraw(listing, req[w].member, at[w])
  <2> DEFINE k == Withdraw(listing)
  <2>1. listing' = Write(listing, k) /\ handed' = Recorded(listing) /\ told' = told \cup {<<"taken down">>}
    BY <1>2 DEF WriteWithdraw
  <2>2. k \in Listing /\ TakenDown(listing, k) /\ (listing.status = "ACTIVE" \/ k = listing)
    BY <1>1, <1>2, WithdrawTakesDown
  <2> HIDE DEF k
  <2>3. /\ Moved(listing, listing')
        /\ listing'.status = k.status /\ listing'.sold = k.sold /\ listing'.bids = k.bids
    BY <1>1, <2>1, <2>2, WriteEffect
  <2>4. RowOK(k)
    BY <1>1, <2>2, TakenDownOK
  <2>5. RowOK(listing')
    BY <2>3, <2>4, SameRowOK
  <2>6. Course' /\ Outcome'
    <3>1. CASE listing.status = "ACTIVE"
      <4>1. listing'.status \in {"ACTIVE", "CANCELLED"}
        BY <2>2, <2>3 DEF TakenDown
      <4> QED BY <1>1, <2>5, <3>1, <4>1, OnSale
    <3>2. CASE k = listing
      <4>1. listing' = listing
        BY <2>1, <3>2 DEF Write
      <4> QED BY <1>1, <4>1 DEF Course, Outcome, Leads
    <3> QED BY <2>2, <3>1, <3>2
  <2>7. handed' \subseteq Bids /\ told' \subseteq Answers
    BY <1>1, <2>1 DEF Recorded, TypeOK, Answers
  <2>8. Answered'
    <3>1. ASSUME NEW c \in Bids
          PROVE  /\ <<"refused by index", c>> \notin told'
                 /\ <<"withdrawn", c>> \in told' => listing'.bids[c].status = "CANCELLED"
                 /\ <<"recorded", c>> \in told' => listing'.bids[c].status # "NONE"
                 /\ c \in handed' <=> listing'.bids[c].status # "NONE"
      <4>1. /\ <<"refused by index", c>> \in told' => <<"refused by index", c>> \in told
            /\ <<"withdrawn", c>> \in told' => <<"withdrawn", c>> \in told
            /\ <<"recorded", c>> \in told' => <<"recorded", c>> \in told
        BY <2>1
      <4>2. /\ <<"refused by index", c>> \notin told
            /\ <<"withdrawn", c>> \in told => listing.bids[c].status = "CANCELLED"
            /\ <<"recorded", c>> \in told => listing.bids[c].status # "NONE"
        BY <1>1 DEF Answered
      <4>3. /\ listing'.bids[c].status # "NONE" <=> listing.bids[c].status # "NONE"
            /\ listing.bids[c].status = "CANCELLED" => listing'.bids[c].status = "CANCELLED"
        BY <2>2, <2>3 DEF TakenDown
      <4>4. c \in handed' <=> listing.bids[c].status # "NONE"
        <5>1. listing.bids[c] \in Bid
          BY <1>1 DEF Listing
        <5>2. c \in handed' <=> listing.bids[c] # NoBid
          BY <2>1 DEF Recorded
        <5> QED BY <5>1, <5>2, BidKinds
      <4> QED BY <4>1, <4>2, <4>3, <4>4
    <3>2. listing'.status = "CANCELLED"
      BY <2>2, <2>3 DEF TakenDown
    <3> QED BY <3>1, <3>2 DEF Answered
  <2> QED BY <1>1, <2>3, <2>5, <2>6, <2>7, <2>8, WriteReturns
<1>3. CASE ~MayWithdraw(listing, req[w].member, at[w])
  <2>1. UNCHANGED <<listing, handed, told>>
    BY <1>3 DEF WriteWithdraw
  <2> QED BY <1>1, <2>1, StaysReturns
<1> QED BY <1>2, <1>3

(* Whoever starts a settlement starts it from the freeze, once. *)
LEMMA StartKeeps ==
    ASSUME IInv, step' = Started, UNCHANGED <<listing, issued, frozen, handed, told>>
    PROVE  /\ Moved(listing, listing') /\ RowOK(listing') /\ Course' /\ Outcome' /\ Answered'
           /\ step' \in Steps
<1>1. CASE step # "none"
  <2>1. step' = step
    BY <1>1 DEF Started
  <2> QED BY <2>1, Stays DEF IInv, TypeOK
<1>2. CASE step = "none"
  <2>1. step' = "FreezeListing" /\ step' \in Steps
    BY <1>2 DEF Started, Steps
  <2>2. Moved(listing, listing') /\ RowOK(listing')
    BY DEF Moved, IInv, TypeOK, Listing
  <2>3. issued = {} /\ ~frozen.known /\ frozen.winner = NoBidId
    BY <1>2 DEF IInv, Course
  <2>4. listing.status \notin {"EXPIRED", "SOLD", "SETTLEMENT_FAILED"}
    BY <2>3 DEF IInv, Course
  <2>5. \A b \in Bids : listing'.bids[b].status # "WON"
    BY <2>3 DEF IInv, Course
  <2>6. Course'
    BY <2>1, <2>3, <2>4, <2>5 DEF Course
  <2>7. Outcome'
    BY <2>1, <2>3, <2>4 DEF Outcome
  <2>8. Answered'
    BY DEF IInv, Answered
  <2> QED BY <2>1, <2>2, <2>6, <2>7, <2>8
<1> QED BY <1>1, <1>2

LEMMA StartStep == ASSUME IInv, NEW w \in Callers, StartSettlement(w) PROVE IInv'
<1>1. /\ TypeOK /\ Fresh /\ Return(w)
      /\ step' = Started /\ UNCHANGED <<listing, now, issued, frozen, handed, told>>
  BY DEF IInv, StartSettlement
<1>2. /\ Moved(listing, listing') /\ RowOK(listing') /\ Course' /\ Outcome' /\ Answered'
      /\ step' \in Steps
  BY <1>1, StartKeeps
<1>3. TypeOK'
  <2> HIDE DEF Listing, Requests, NoReq, Answers, Steps
  <2> QED BY <1>1, <1>2, ReturnEffect DEF TypeOK
<1>4. \A x \in Callers :
        \/ pc'[x] \notin {"load", "save"}
        \/ pc'[x] = pc[x] /\ req'[x] = req[x] /\ at'[x] = at[x] /\ snap'[x] = snap[x]
  BY <1>1, ReturnEffect
<1>5. Fresh'
  BY <1>1, <1>2, <1>4, FreshKept
<1> QED BY <1>2, <1>3, <1>5 DEF IInv

LEMMA LoadStep == ASSUME IInv, NEW w \in Callers, LoadWithdrawBid(w) PROVE IInv'
<1>1. /\ TypeOK /\ Fresh /\ pc[w] = "load"
      /\ UNCHANGED <<listing, now, step, issued, frozen, handed, told>>
  BY DEF IInv, LoadWithdrawBid
<1>2. CASE MayWithdrawBid(listing, req[w].bid, req[w].member, at[w])
  <2>1. /\ snap' = [snap EXCEPT ![w] = listing] /\ pc' = [pc EXCEPT ![w] = "save"]
        /\ UNCHANGED <<req, at, tries>>
    BY <1>2 DEF LoadWithdrawBid
  <2>2. Moved(listing, listing') /\ RowOK(listing') /\ Course' /\ Outcome' /\ Answered'
    BY <1>1, Stays
  <2>3. /\ pc' \in [Callers -> {"idle", "write", "load", "save", "start"}] /\ pc'[w] = "save"
        /\ \A x \in Callers \ {w} : pc'[x] = pc[x]
    BY <1>1, <2>1 DEF TypeOK
  <2>4. /\ snap' \in [Callers -> Listing] /\ snap'[w] = listing
        /\ \A x \in Callers \ {w} : snap'[x] = snap[x]
    <3> HIDE DEF Listing
    <3> QED BY <1>1, <2>1 DEF TypeOK
  <2>5. TypeOK'
    <3>1. /\ req' \in [Callers -> Requests \cup {NoReq}] /\ at' \in [Callers -> 0..MaxTime]
          /\ tries' \in [Callers -> 0..(MaxRetries - 1)]
          /\ listing' \in Listing /\ handed' \subseteq Bids /\ told' \subseteq Answers
      <4> HIDE DEF Listing, Requests, NoReq, Answers
      <4> QED BY <1>1, <2>1 DEF TypeOK
    <3> QED BY <1>1, <2>3, <2>4, <3>1, CallTypes
  <2>6. Fresh'
    <3> SUFFICES ASSUME NEW x \in Callers
                 PROVE  /\ pc'[x] \in {"load", "save"} => req'[x].op = "WithdrawBid"
                        /\ pc'[x] = "save" =>
                              /\ MayWithdrawBid(snap'[x], req'[x].bid, req'[x].member, at'[x])
                              /\ snap'[x].version <= listing'.version
                              /\ snap'[x].version = listing'.version => snap'[x] = listing'
      BY DEF Fresh
    <3>1. req' = req /\ at' = at /\ listing' = listing
      BY <1>1, <2>1
    <3>2. CASE x = w
      <4>1. req[w].op = "WithdrawBid"
        BY <1>1 DEF Fresh
      <4>2. listing.version <= listing.version
        BY <1>1 DEF TypeOK, Listing
      <4> QED BY <1>2, <2>4, <3>1, <3>2, <4>1, <4>2
    <3>3. CASE x # w
      <4>1. pc'[x] = pc[x] /\ snap'[x] = snap[x]
        BY <2>3, <2>4, <3>3
      <4> QED BY <1>1, <3>1, <4>1 DEF Fresh
    <3> QED BY <3>2, <3>3
  <2> QED BY <2>2, <2>5, <2>6 DEF IInv
<1>3. CASE ~MayWithdrawBid(listing, req[w].bid, req[w].member, at[w])
  <2>1. Return(w)
    BY <1>3 DEF LoadWithdrawBid
  <2> QED BY <1>1, <2>1, StaysReturns
<1> QED BY <1>2, <1>3

(* Saving what a verb made of the row as it is saves just that. *)
LEMMA SavedIs ==
    ASSUME listing \in Listing, NEW k \in Listing, k.version = listing.version
    PROVE  Saved(listing, k) = k
<1> DEFINE f == [b \in Bids |-> IF b \in Changed(listing, k) THEN k.bids[b] ELSE listing.bids[b]]
<1>1. k.bids \in [Bids -> Bid]
  BY DEF Listing
<1>2. ASSUME NEW b \in Bids PROVE f[b] = k.bids[b]
  BY DEF Changed
<1>3. f = k.bids
  BY <1>1, <1>2
<1>4. Saved(listing, k) = [status |-> k.status, sold |-> k.sold, version |-> listing.version, bids |-> f]
  BY DEF Saved
<1> HIDE DEF f
<1>5. k = [status |-> k.status, sold |-> k.sold, version |-> k.version, bids |-> k.bids]
  BY DEF Listing
<1> QED BY <1>3, <1>4, <1>5

LEMMA SaveStep == ASSUME IInv, NEW w \in Callers, SaveWithdrawBid(w) PROVE IInv'
<1> DEFINE b == req[w].bid
<1>1. /\ TypeOK /\ RowOK(listing) /\ listing \in Listing /\ b \in Bids
      /\ Return(w) /\ UNCHANGED <<now, step, issued, frozen, handed>> /\ handed' \subseteq Bids
  <2>1. TypeOK /\ RowOK(listing) /\ req[w].op = "WithdrawBid"
    BY DEF IInv, SaveWithdrawBid, Fresh
  <2>2. Return(w) /\ UNCHANGED <<now, step, issued, frozen, handed>>
    BY DEF SaveWithdrawBid
  <2> QED BY <2>1, <2>2, ReqKinds DEF TypeOK
<1>2. snap[w] = listing /\ MayWithdrawBid(listing, b, req[w].member, at[w])
  <2>1. pc[w] = "save" /\ listing.version = snap[w].version
    BY DEF SaveWithdrawBid, VersionMatches
  <2> QED BY <2>1 DEF IInv, Fresh
<1>3. PICK k \in WithdrawBid(listing, b) :
          UpdateTo(Saved(listing, k), b, {<<"withdrawn", b>>})
  BY <1>2 DEF SaveWithdrawBid
<1>4. k \in Listing /\ Left(listing, k, b)
  BY <1>1, <1>2, WithdrawBidLeaves
<1>5. UpdateTo(k, b, {<<"withdrawn", b>>})
  <2>1. k.version = listing.version
    BY <1>4 DEF Left
  <2>2. Saved(listing, k) = k
    BY <1>1, <1>4, <2>1, SavedIs
  <2> QED BY <1>3, <2>2
<1>6. RowOK(k)
  BY <1>1, <1>4, LeftOK
<1>7. listing.status = "ACTIVE" /\ k.status = "ACTIVE" /\ k.bids[b].status = "CANCELLED"
  BY <1>4 DEF Left
<1>8. \A c \in Bids : /\ listing.bids[c].status = "CANCELLED" => k.bids[c].status = "CANCELLED"
                      /\ listing.bids[c].status # "NONE" => k.bids[c].status # "NONE"
  BY <1>1, <1>4, LeftKeeps
<1>9. /\ Moved(listing, listing') /\ RowOK(listing') /\ Course' /\ Outcome' /\ Answered'
      /\ told' \subseteq Answers
  <2>1. "withdrawn" = "recorded" => k.bids[b].status # "NONE"
    OBVIOUS
  <2> HIDE DEF b
  <2> QED BY <1>1, <1>4, <1>5, <1>6, <1>7, <1>8, <2>1, WriteKeeps
<1> QED BY <1>1, <1>9, WriteReturns

LEMMA RacedStep == ASSUME IInv, NEW w \in Callers, SaveRaced(w) PROVE IInv'
<1>1. /\ TypeOK /\ Fresh /\ pc[w] = "save"
      /\ UNCHANGED <<listing, now, step, issued, frozen, handed, told>>
  BY DEF IInv, SaveRaced
<1>2. CASE RetriesLeft(tries[w])
  <2>1. /\ tries' = [tries EXCEPT ![w] = @ + 1] /\ pc' = [pc EXCEPT ![w] = "load"]
        /\ snap' = [snap EXCEPT ![w] = NewListing] /\ UNCHANGED <<req, at>>
    BY <1>2 DEF SaveRaced
  <2>2. Moved(listing, listing') /\ RowOK(listing') /\ Course' /\ Outcome' /\ Answered'
    BY <1>1, Stays
  <2>3. /\ pc' \in [Callers -> {"idle", "write", "load", "save", "start"}] /\ pc'[w] = "load"
        /\ \A x \in Callers \ {w} : pc'[x] = pc[x]
    BY <1>1, <2>1 DEF TypeOK
  <2>4. NewListing \in Listing
    BY DEF NewListing, Listing, ListingStatuses, Bid, Sale
  <2>5. snap' \in [Callers -> Listing] /\ \A x \in Callers \ {w} : snap'[x] = snap[x]
    <3> HIDE DEF Listing, NewListing
    <3> QED BY <1>1, <2>1, <2>4 DEF TypeOK
  <2>6. tries' \in [Callers -> 0..(MaxRetries - 1)]
    <3>1. tries \in [Callers -> 0..(MaxRetries - 1)]
      BY <1>1 DEF TypeOK
    <3>2. tries[w] \in 0..(MaxRetries - 1)
      BY <3>1
    <3>3. tries[w] + 1 \in 0..(MaxRetries - 1)
      BY <1>2, <3>2, CallConstants DEF RetriesLeft
    <3> QED BY <2>1, <3>1, <3>3
  <2>7. TypeOK'
    <3>1. /\ req' \in [Callers -> Requests \cup {NoReq}] /\ at' \in [Callers -> 0..MaxTime]
          /\ listing' \in Listing /\ handed' \subseteq Bids /\ told' \subseteq Answers
      <4> HIDE DEF Listing, Requests, NoReq, Answers
      <4> QED BY <1>1, <2>1 DEF TypeOK
    <3> QED BY <1>1, <2>3, <2>5, <2>6, <3>1, CallTypes
  <2>8. Fresh'
    <3> SUFFICES ASSUME NEW x \in Callers
                 PROVE  /\ pc'[x] \in {"load", "save"} => req'[x].op = "WithdrawBid"
                        /\ pc'[x] = "save" =>
                              /\ MayWithdrawBid(snap'[x], req'[x].bid, req'[x].member, at'[x])
                              /\ snap'[x].version <= listing'.version
                              /\ snap'[x].version = listing'.version => snap'[x] = listing'
      BY DEF Fresh
    <3>1. req' = req /\ at' = at /\ listing' = listing
      BY <1>1, <2>1
    <3>2. CASE x = w
      BY <1>1, <2>3, <3>1, <3>2 DEF Fresh
    <3>3. CASE x # w
      <4>1. pc'[x] = pc[x] /\ snap'[x] = snap[x]
        BY <2>3, <2>5, <3>3
      <4> QED BY <1>1, <3>1, <4>1 DEF Fresh
    <3> QED BY <3>2, <3>3
  <2> QED BY <2>2, <2>7, <2>8 DEF IInv
<1>3. CASE ~RetriesLeft(tries[w])
  <2>1. Return(w)
    BY <1>3 DEF SaveRaced
  <2> QED BY <1>1, <2>1, StaysReturns
<1> QED BY <1>2, <1>3

LEMMA CallerStep ==
    ASSUME IInv, NEW w \in Callers, Call(w) \/ Proceed(w) \/ Crash(w) PROVE IInv'
<1>1. CASE Crash(w)
  BY <1>1, StaysReturns DEF Crash
<1>2. CASE Proceed(w)
  BY <1>2, PlaceBidStep, BuyoutStep, WithdrawStep, StartStep, LoadStep, SaveStep, RacedStep
     DEF Proceed
<1> QED BY <1>1, <1>2, CallStep

-----------------------------------------------------------------------------
(* The settlement's steps.                                                 *)

FrozenType == [known : BOOLEAN, winner : Bids \cup {NoBidId}, amount : Nat, bids : SUBSET Bids]

LEMMA SettleKeeps ==
    ASSUME IInv, UnchangedCalls, UNCHANGED <<handed, told>>,
           Moved(listing, listing'), RowOK(listing'), Course', Outcome', Answered',
           step' \in Steps, issued' \subseteq Activities, frozen' \in FrozenType
    PROVE  IInv'
<1>1. TypeOK /\ Fresh /\ UNCHANGED <<now, pc, req, at, snap, tries>>
  BY DEF IInv, UnchangedCalls
<1>2. TypeOK'
  <2>1. listing' \in Listing
    BY DEF Moved
  <2> HIDE DEF Listing, Requests, NoReq, Answers, Steps, Activities
  <2> QED BY <1>1, <2>1 DEF TypeOK, FrozenType
<1>3. \A x \in Callers :
        \/ pc'[x] \notin {"load", "save"}
        \/ pc'[x] = pc[x] /\ req'[x] = req[x] /\ at'[x] = at[x] /\ snap'[x] = snap[x]
  BY <1>1
<1>4. Fresh'
  BY <1>1, <1>3, FreshKept
<1> QED BY <1>2, <1>4 DEF IInv

(* What callers were told survives whatever settlement writes. *)
LEMMA ToldStands ==
    ASSUME Answered, UNCHANGED <<handed, told>>,
           \/ listing'.status = listing.status /\ listing'.bids = listing.bids
           \/ listing.status # "CANCELLED" /\ Closed(listing, listing')
    PROVE  Answered'
<1>1. CASE listing'.status = listing.status /\ listing'.bids = listing.bids
  BY <1>1 DEF Answered
<1>2. CASE listing.status # "CANCELLED" /\ Closed(listing, listing')
  <2>1. \A c \in Bids : /\ listing.bids[c].status = "CANCELLED" => listing'.bids[c].status = "CANCELLED"
                        /\ listing.bids[c].status # "NONE" => listing'.bids[c].status # "NONE"
    BY <1>2 DEF Closed
  <2>2. <<"taken down">> \notin told
    BY <1>2 DEF Answered
  <2> QED BY <2>1, <2>2 DEF Answered
<1> QED BY <1>1, <1>2

(* Settlement's write of k, which the row allows. *)
LEMMA SettleWrites ==
    ASSUME IInv, UNCHANGED <<handed, told>>, NEW k \in Listing, listing' = Write(listing, k),
           k = listing \/ (listing.status # "CANCELLED" /\ Closed(listing, k))
    PROVE  /\ Moved(listing, listing') /\ RowOK(listing') /\ Answered'
           /\ listing'.status = k.status /\ listing'.sold = k.sold /\ listing'.bids = k.bids
<1>1. listing \in Listing /\ RowOK(listing) /\ Answered
  BY DEF IInv, TypeOK
<1>2. /\ Moved(listing, listing')
      /\ listing'.status = k.status /\ listing'.sold = k.sold /\ listing'.bids = k.bids
  BY <1>1, WriteEffect
<1>3. RowOK(k)
  BY <1>1, ClosedOK
<1>4. RowOK(listing')
  BY <1>2, <1>3, SameRowOK
<1>5. Answered'
  <2>1. CASE k = listing
    BY <1>1, <1>2, <2>1, ToldStands
  <2>2. CASE listing.status # "CANCELLED" /\ Closed(listing, k)
    <3>1. Closed(listing, listing')
      BY <1>2, <2>2 DEF Closed, Leads
    <3> QED BY <1>1, <2>2, <3>1, ToldStands
  <2> QED BY <2>1, <2>2
<1> QED BY <1>2, <1>4, <1>5

(* An attempt lands: the one waited for (Succeed), or another (LandLate). *)
Lands(a) ==
    /\ a \in issued /\ Possible(a)
    /\ listing' = Write(listing, Effect(a))
    /\ UnchangedCalls /\ UNCHANGED <<issued, handed, told>>
    /\ \/ step' = step /\ frozen' = frozen
       \/ /\ step = a /\ step' = NextStep(a)
          /\ frozen' = IF a = "FreezeListing" THEN FrozenAs(listing) ELSE frozen

LEMMA FreezeLands == ASSUME IInv, Lands("FreezeListing") PROVE IInv'
<1> DEFINE k == Freeze(listing)
<1>1. /\ TypeOK /\ RowOK(listing) /\ Course /\ Outcome /\ listing \in Listing /\ UnchangedCalls
      /\ UNCHANGED <<issued, handed, told>> /\ "FreezeListing" \in issued
      /\ issued' \subseteq Activities
  BY DEF IInv, TypeOK, Lands
<1>2. MayFreeze(listing) /\ listing' = Write(listing, k)
  BY DEF Lands, Possible, Effect
<1>3. /\ k \in Listing /\ Closed(listing, k) /\ listing.status \in {"ACTIVE", "PENDING_SETTLEMENT"}
      /\ k.status = "PENDING_SETTLEMENT" /\ k.sold = listing.sold /\ k.bids = listing.bids
  BY <1>1, <1>2, FreezeCloses
<1> HIDE DEF k
<1>4. /\ Moved(listing, listing') /\ RowOK(listing') /\ Answered'
      /\ listing'.status = "PENDING_SETTLEMENT" /\ listing'.bids = listing.bids
  BY <1>1, <1>2, <1>3, SettleWrites
<1>5. CASE step' = step /\ frozen' = frozen
  <2>1. Course'
    BY <1>1, <1>3, <1>4, <1>5 DEF Course
  <2>2. Outcome'
    BY <1>1, <1>4, <1>5 DEF Outcome, Leads
  <2>3. step' \in Steps /\ frozen' \in FrozenType
    BY <1>1, <1>5 DEF TypeOK, FrozenType
  <2> QED BY <1>1, <1>4, <2>1, <2>2, <2>3, SettleKeeps
<1>6. CASE /\ step = "FreezeListing" /\ step' = NextStep("FreezeListing")
           /\ frozen' = FrozenAs(listing)
  <2>1. step' = IF Winning(listing) = {} THEN "ReturnItem" ELSE "FreezeItem"
    BY <1>6 DEF NextStep
  <2>2. ~frozen.known /\ issued = {"FreezeListing"} /\ \A b \in Bids : listing.bids[b].status # "WON"
    BY <1>1, <1>6 DEF Course, RolledBack
  <2>3. /\ frozen'.known /\ frozen'.bids = Recorded(listing) /\ frozen' \in FrozenType
        /\ Winning(listing) = {} => frozen'.winner = NoBidId
        /\ Winning(listing) # {} => /\ frozen'.winner \in Winning(listing)
                                    /\ frozen'.amount = listing.bids[frozen'.winner].amount
    <3>1. Recorded(listing) \in SUBSET Bids /\ Winning(listing) \subseteq Bids
      BY DEF Recorded, Winning, Having
    <3>2. CASE Winning(listing) = {}
      <4>1. frozen' = [known |-> TRUE, winner |-> NoBidId, amount |-> 0, bids |-> Recorded(listing)]
        BY <1>6, <3>2 DEF FrozenAs
      <4> QED BY <3>1, <3>2, <4>1 DEF FrozenType
    <3>3. CASE Winning(listing) # {}
      <4> DEFINE b == CHOOSE b \in Winning(listing) : TRUE
      <4>1. frozen' = [known |-> TRUE, winner |-> b, amount |-> listing.bids[b].amount, bids |-> Recorded(listing)]
        BY <1>6, <3>3 DEF FrozenAs
      <4>2. b \in Winning(listing)
        BY <3>3
      <4> HIDE DEF b
      <4>3. listing.bids[b].amount \in Nat
        BY <1>1, <3>1, <4>2, AmountIsNat
      <4> QED BY <3>1, <3>3, <4>1, <4>2, <4>3 DEF FrozenType
    <3> QED BY <3>2, <3>3
  <2>4. frozen'.winner = NoBidId <=> Winning(listing) = {}
    BY <2>3, CallConstants DEF Winning, Having
  <2>5. Course'
    BY <1>4, <2>1, <2>2, <2>3, <2>4, <1>1 DEF Course
  <2>6. \A b \in Bids : Leads(listing', b) => b = frozen'.winner
    <3> SUFFICES ASSUME NEW b \in Bids, Leads(listing', b) PROVE b = frozen'.winner
      OBVIOUS
    <3>1. b \in Winning(listing)
      BY <1>4, <2>2 DEF Leads, Winning, Having
    <3>2. frozen'.winner \in Winning(listing)
      BY <2>3, <3>1
    <3> QED BY <1>1, <3>1, <3>2 DEF RowOK, Leads, Winning, Having
  <2>7. \A b \in Bids : b \in frozen'.bids <=> listing'.bids[b].status # "NONE"
    <3>1. \A b \in Bids : listing.bids[b] \in Bid
      BY <1>1 DEF Listing
    <3> QED BY <1>4, <2>3, <3>1, BidKinds DEF Recorded
  <2>8. frozen'.winner # NoBidId => /\ listing'.bids[frozen'.winner].status # "NONE"
                                    /\ listing'.bids[frozen'.winner].amount = frozen'.amount
    BY <1>4, <2>3 DEF Winning, Having
  <2>9. Outcome'
    BY <1>4, <2>1, <2>6, <2>7, <2>8 DEF Outcome
  <2>10. step' \in Steps
    BY <2>1 DEF Steps
  <2> QED BY <1>1, <1>4, <2>3, <2>5, <2>9, <2>10, SettleKeeps
<1> QED BY <1>5, <1>6 DEF Lands

LEMMA ExpireLands == ASSUME IInv, Lands("ExpireListing") PROVE IInv'
<1> DEFINE k == Expire(listing)
<1>1. /\ TypeOK /\ RowOK(listing) /\ Course /\ Outcome /\ listing \in Listing /\ UnchangedCalls
      /\ UNCHANGED <<issued, handed, told>> /\ "ExpireListing" \in issued
      /\ issued' \subseteq Activities
  BY DEF IInv, TypeOK, Lands
<1>2. MayExpire(listing) /\ listing' = Write(listing, k)
  BY DEF Lands, Possible, Effect
<1>3. /\ k \in Listing /\ Closed(listing, k) /\ listing.status \in {"EXPIRED", "PENDING_SETTLEMENT"}
      /\ k.status = "EXPIRED" /\ k.sold = listing.sold /\ k.bids = listing.bids
  BY <1>1, <1>2, ExpireCloses
<1> HIDE DEF k
<1>4. /\ Moved(listing, listing') /\ RowOK(listing') /\ Answered'
      /\ listing'.status = "EXPIRED" /\ listing'.bids = listing.bids
  BY <1>1, <1>2, <1>3, SettleWrites
<1>5. frozen' = frozen /\ (step' = step \/ (step = "ExpireListing" /\ step' = "completed"))
  BY DEF Lands, NextStep
<1>6. frozen.known /\ frozen.winner = NoBidId /\ step \in {"ExpireListing", "completed"}
  BY <1>1 DEF Course
<1>7. Course'
  BY <1>1, <1>4, <1>5, <1>6 DEF Course
<1>8. Outcome'
  BY <1>1, <1>4, <1>5, <1>6 DEF Outcome, Leads
<1>9. step' \in Steps /\ frozen' \in FrozenType
  BY <1>1, <1>5 DEF TypeOK, FrozenType, Steps
<1> QED BY <1>1, <1>4, <1>7, <1>8, <1>9, SettleKeeps

LEMMA SaleLands == ASSUME IInv, Lands("MarkSold") PROVE IInv'
<1> DEFINE k == MarkSold(listing)
<1>1. /\ TypeOK /\ RowOK(listing) /\ Course /\ Outcome /\ listing \in Listing /\ UnchangedCalls
      /\ UNCHANGED <<issued, handed, told>> /\ "MarkSold" \in issued
      /\ issued' \subseteq Activities
  BY DEF IInv, TypeOK, Lands
<1>2. MayMarkSold(listing) /\ listing' = Write(listing, k)
  BY DEF Lands, Possible, Effect
<1>3. frozen' = frozen /\ (step' = step \/ (step = "MarkSold" /\ step' = "completed"))
  BY DEF Lands, NextStep
<1>4. frozen.known /\ frozen.winner # NoBidId /\ step \in {"MarkSold", "completed"}
  BY <1>1 DEF Course
<1>5. \/ k = listing /\ listing.status = "SOLD"
      \/ /\ listing.status = "PENDING_SETTLEMENT"
         /\ k \in Listing /\ Closed(listing, k) /\ k.status = "SOLD" /\ k.bids = listing.bids
         /\ \E won \in Bids : /\ listing.bids[won].status = "WON"
                              /\ k.sold = [buyer |-> Bidder[won], price |-> listing.bids[won].amount]
  BY <1>1, <1>2, SaleCloses
<1> HIDE DEF k
<1>6. /\ Moved(listing, listing') /\ RowOK(listing') /\ Answered'
      /\ listing'.status = "SOLD" /\ listing'.sold = k.sold /\ listing'.bids = listing.bids
  <2>1. k \in Listing /\ k.status = "SOLD" /\ k.bids = listing.bids
    BY <1>1, <1>5
  <2>2. k = listing \/ (listing.status # "CANCELLED" /\ Closed(listing, k))
    BY <1>5
  <2> QED BY <1>1, <1>2, <2>1, <2>2, SettleWrites
<1>7. k.sold = [buyer |-> Bidder[frozen.winner], price |-> frozen.amount]
  <2>1. CASE k = listing /\ listing.status = "SOLD"
    BY <1>1, <2>1 DEF Outcome
  <2>2. CASE listing.status = "PENDING_SETTLEMENT"
    <3>1. PICK won \in Bids : /\ listing.bids[won].status = "WON"
                              /\ k.sold = [buyer |-> Bidder[won], price |-> listing.bids[won].amount]
      BY <1>5, <2>2
    <3>2. won = frozen.winner
      BY <1>1, <1>4, <3>1 DEF Outcome, Leads
    <3>3. listing.bids[won].amount = frozen.amount
      BY <1>1, <1>4, <3>2 DEF Outcome
    <3> QED BY <3>1, <3>2, <3>3
  <2> QED BY <1>5, <2>1, <2>2
<1>8. Course'
  BY <1>1, <1>3, <1>4, <1>6 DEF Course, RolledBack
<1>9. Outcome'
  BY <1>1, <1>3, <1>4, <1>6, <1>7 DEF Outcome, Leads
<1>10. step' \in Steps /\ frozen' \in FrozenType
  BY <1>1, <1>3 DEF TypeOK, FrozenType, Steps
<1> QED BY <1>1, <1>6, <1>8, <1>9, <1>10, SettleKeeps

LEMMA WinnerLands == ASSUME IInv, Lands("SetWinningBid") PROVE IInv'
<1> DEFINE win == frozen.winner
<1> DEFINE k == SetWinningBid(listing, win)
<1>1. /\ TypeOK /\ RowOK(listing) /\ Course /\ Outcome /\ listing \in Listing /\ UnchangedCalls
      /\ UNCHANGED <<issued, handed, told>> /\ "SetWinningBid" \in issued
      /\ issued' \subseteq Activities
  BY DEF IInv, TypeOK, Lands
<1>2. MaySetWinningBid(listing, win) /\ listing' = Write(listing, k)
  BY DEF Lands, Possible, Effect
<1>3. frozen' = frozen /\ (step' = step \/ (step = "SetWinningBid" /\ step' = "CommitHold"))
  BY DEF Lands, NextStep
<1>4. /\ frozen.known /\ win # NoBidId /\ win \in Bids
      /\ listing.status \notin {"ACTIVE", "CANCELLED"}
  BY <1>1 DEF Course, TypeOK
<1>5. /\ k \in Listing /\ Closed(listing, k) /\ k.status = listing.status /\ k.sold = listing.sold
      /\ k.bids[win].status = "WON" /\ \A c \in Bids \ {win} : k.bids[c] = listing.bids[c]
  BY <1>1, <1>2, <1>4, WinnerCloses
<1> HIDE DEF k
<1>6. /\ Moved(listing, listing') /\ RowOK(listing') /\ Answered'
      /\ listing'.status = listing.status /\ listing'.sold = listing.sold /\ listing'.bids = k.bids
  BY <1>1, <1>2, <1>4, <1>5, SettleWrites
<1>7. Course'
  BY <1>1, <1>3, <1>4, <1>6 DEF Course, RolledBack
<1>8. \A b \in Bids : /\ Leads(listing', b) => Leads(listing, b)
                      /\ listing'.bids[b].status # "NONE" <=> listing.bids[b].status # "NONE"
                      /\ listing'.bids[b].amount = listing.bids[b].amount
  BY <1>5, <1>6 DEF Closed, Leads
<1>9. Outcome'
  <2>1. /\ \A b \in Bids : Leads(listing', b) => b = win
        /\ \A b \in Bids : b \in frozen.bids <=> listing'.bids[b].status # "NONE"
    BY <1>1, <1>4, <1>8 DEF Outcome
  <2>2. listing'.bids[win].status # "NONE" /\ listing'.bids[win].amount = frozen.amount
    BY <1>1, <1>4, <1>8 DEF Outcome
  <2>3. listing'.bids[win].status = "WON"
    BY <1>5, <1>6
  <2>4. listing'.status = "SOLD" =>
            listing'.sold = [buyer |-> Bidder[win], price |-> frozen.amount]
    BY <1>1, <1>6 DEF Outcome
  <2> QED BY <1>3, <2>1, <2>2, <2>3, <2>4 DEF Outcome
<1>10. step' \in Steps /\ frozen' \in FrozenType
  BY <1>1, <1>3 DEF TypeOK, FrozenType, Steps
<1> QED BY <1>1, <1>6, <1>7, <1>9, <1>10, SettleKeeps

LEMMA FailureLands == ASSUME IInv, Lands("MarkSettlementFailed") PROVE IInv'
<1> DEFINE k == MarkSettlementFailed(listing)
<1>1. /\ TypeOK /\ RowOK(listing) /\ Course /\ Outcome /\ listing \in Listing /\ UnchangedCalls
      /\ UNCHANGED <<issued, handed, told>> /\ "MarkSettlementFailed" \in issued
      /\ issued' \subseteq Activities
  BY DEF IInv, TypeOK, Lands
<1>2. listing' = Write(listing, k)
  BY DEF Lands, Effect
<1>3. /\ frozen' = frozen
      /\ \/ step' = step
         \/ /\ step = "MarkSettlementFailed"
            /\ step' = IF frozen.known THEN "LoseAllBids" ELSE "failed"
  BY DEF Lands, NextStep
<1>4. \/ k = listing /\ listing.status # "PENDING_SETTLEMENT"
      \/ /\ listing.status = "PENDING_SETTLEMENT"
         /\ k \in Listing /\ Closed(listing, k)
         /\ k.status = "SETTLEMENT_FAILED" /\ k.sold = listing.sold /\ k.bids = listing.bids
  BY <1>1, FailureCloses
<1> HIDE DEF k
<1>5. /\ Moved(listing, listing') /\ RowOK(listing') /\ Answered'
      /\ listing'.status = k.status /\ listing'.sold = listing.sold /\ listing'.bids = listing.bids
  <2>1. k \in Listing /\ k.sold = listing.sold /\ k.bids = listing.bids
    BY <1>1, <1>4
  <2>2. k = listing \/ (listing.status # "CANCELLED" /\ Closed(listing, k))
    BY <1>4
  <2> QED BY <1>1, <1>2, <2>1, <2>2, SettleWrites
<1>6. /\ listing'.status # "PENDING_SETTLEMENT"
      /\ listing'.status = listing.status \/ listing'.status = "SETTLEMENT_FAILED"
      /\ listing.status = "PENDING_SETTLEMENT" => listing'.status = "SETTLEMENT_FAILED"
  BY <1>4, <1>5
<1>7. /\ step \in RolledBack /\ "MarkSold" \notin issued /\ "ExpireListing" \notin issued
      /\ listing.status \notin {"SOLD", "EXPIRED"}
  BY <1>1 DEF Course, RolledBack
<1>8. frozen.known => listing'.status = "SETTLEMENT_FAILED"
  BY <1>1, <1>6, <1>7 DEF Course, TypeOK, Listing, ListingStatuses
<1>9. step' \in RolledBack /\ step' \in Steps /\ frozen' \in FrozenType
  BY <1>1, <1>3, <1>7 DEF TypeOK, FrozenType, Steps, RolledBack
<1>10. Course'
  <2>1. step' \in {"MarkSettlementFailed", "LoseAllBids", "failed"}
    BY <1>9 DEF RolledBack
  <2>2. step' = "LoseAllBids" => frozen.known
    BY <1>1, <1>3 DEF Course
  <2>3. frozen.known /\ frozen.winner = NoBidId => FALSE
    BY <1>1, <1>7 DEF Course
  <2>4. ~frozen.known => step' \in {"MarkSettlementFailed", "failed"}
    BY <1>1, <1>3, <1>7 DEF Course, RolledBack
  <2>5. "LoseAllBids" \in issued => step' \in {"LoseAllBids", "failed"}
    BY <1>1, <1>3 DEF Course
  <2>6. listing'.status \notin {"SOLD", "EXPIRED"}
    BY <1>6, <1>7
  <2>7. \A b \in Bids : ~frozen.known => listing'.bids[b].status # "WON"
    BY <1>1, <1>5 DEF Course
  <2>8. frozen.known => listing'.status \notin {"ACTIVE", "CANCELLED"}
    BY <1>8
  <2> QED BY <1>1, <1>3, <1>7, <1>8, <1>9, <2>1, <2>2, <2>3, <2>4, <2>5, <2>6, <2>7, <2>8 DEF Course
<1>11. Outcome'
  <2>1. step' \notin {"CommitHold", "MarkSold", "completed"}
    BY <1>9 DEF RolledBack
  <2>2. listing'.status # "SOLD"
    BY <1>6, <1>7
  <2> QED BY <1>1, <1>3, <1>5, <2>1, <2>2 DEF Outcome, Leads
<1> QED BY <1>1, <1>5, <1>9, <1>10, <1>11, SettleKeeps

LEMMA LossLands == ASSUME IInv, Lands("LoseAllBids") PROVE IInv'
<1> DEFINE k == LoseAllBids(listing)
<1>1. /\ TypeOK /\ RowOK(listing) /\ Course /\ Outcome /\ listing \in Listing /\ UnchangedCalls
      /\ UNCHANGED <<issued, handed, told>> /\ "LoseAllBids" \in issued
      /\ issued' \subseteq Activities
  BY DEF IInv, TypeOK, Lands
<1>2. listing' = Write(listing, k)
  BY DEF Lands, Effect
<1>3. frozen' = frozen /\ (step' = step \/ (step = "LoseAllBids" /\ step' = "failed"))
  BY DEF Lands, NextStep
<1>4. /\ frozen.known /\ step \in {"LoseAllBids", "failed"}
      /\ listing.status = "SETTLEMENT_FAILED"
  BY <1>1 DEF Course
<1>5. k \in Listing /\ Closed(listing, k) /\ k.status = listing.status /\ k.sold = listing.sold
  BY <1>1, <1>4, LossCloses
<1> HIDE DEF k
<1>6. /\ Moved(listing, listing') /\ RowOK(listing') /\ Answered'
      /\ listing'.status = listing.status /\ listing'.bids = k.bids
  BY <1>1, <1>2, <1>4, <1>5, SettleWrites
<1>7. Course'
  BY <1>1, <1>3, <1>4, <1>6 DEF Course, RolledBack
<1>8. \A b \in Bids : /\ Leads(listing', b) => Leads(listing, b)
                      /\ listing'.bids[b].status # "NONE" <=> listing.bids[b].status # "NONE"
                      /\ listing'.bids[b].amount = listing.bids[b].amount
  BY <1>5, <1>6 DEF Closed, Leads
<1>9. Outcome'
  <2>1. /\ \A b \in Bids : Leads(listing', b) => b = frozen.winner
        /\ \A b \in Bids : b \in frozen.bids <=> listing'.bids[b].status # "NONE"
    BY <1>1, <1>4, <1>8 DEF Outcome
  <2>2. frozen.winner # NoBidId => /\ listing'.bids[frozen.winner].status # "NONE"
                                   /\ listing'.bids[frozen.winner].amount = frozen.amount
    BY <1>1, <1>4, <1>8 DEF Outcome, TypeOK
  <2> QED BY <1>3, <1>4, <1>6, <2>1, <2>2 DEF Outcome
<1>10. step' \in Steps /\ frozen' \in FrozenType
  BY <1>1, <1>3 DEF TypeOK, FrozenType, Steps
<1> QED BY <1>1, <1>6, <1>7, <1>9, <1>10, SettleKeeps

LEMMA AttemptLands ==
    ASSUME IInv, NEW a \in Activities, Succeed(a) \/ LandLate(a) PROVE IInv'
<1>1. Lands(a)
  BY DEF Succeed, LandLate, Lands
<1>2. a \in {"FreezeListing", "ExpireListing", "SetWinningBid", "MarkSold",
             "MarkSettlementFailed", "LoseAllBids"}
  BY DEF Activities
<1> QED BY <1>1, <1>2, FreezeLands, ExpireLands, WinnerLands, SaleLands, FailureLands, LossLands

(* A step that leaves the row alone. *)
LEMMA RowAlone ==
    ASSUME IInv, UnchangedCalls, UNCHANGED <<listing, frozen, handed, told>>,
           step' \in Steps, issued' \subseteq Activities, Course', Outcome'
    PROVE  IInv'
<1>1. Moved(listing, listing') /\ RowOK(listing') /\ frozen' \in FrozenType
  BY DEF Moved, IInv, TypeOK, Listing, FrozenType
<1>2. Answered'
  BY DEF IInv, Answered
<1> QED BY <1>1, <1>2, SettleKeeps

LEMMA IssueStep == ASSUME IInv, NEW a \in Activities, Issue(a) PROVE IInv'
<1>1. /\ Course /\ Outcome /\ step = a /\ issued' = issued \cup {a}
      /\ UnchangedCalls /\ UNCHANGED <<listing, step, frozen, handed, told>>
      /\ step' \in Steps /\ issued' \subseteq Activities
  BY DEF IInv, TypeOK, Issue
<1>2. Course'
  BY <1>1 DEF Course, RolledBack, Activities
<1>3. Outcome'
  BY <1>1 DEF Outcome, Leads
<1> QED BY <1>1, <1>2, <1>3, RowAlone

LEMMA ImpossibleStep == ASSUME IInv, NEW a \in Activities, Impossible(a) PROVE IInv'
<1>1. /\ Course /\ Outcome /\ step \in {"FreezeListing", "SetWinningBid"}
      /\ step' = "MarkSettlementFailed"
      /\ UnchangedCalls /\ UNCHANGED <<listing, issued, frozen, handed, told>>
      /\ step' \in Steps /\ issued' \subseteq Activities
  BY DEF IInv, TypeOK, Impossible, Steps
<1>2. Course'
  BY <1>1 DEF Course, RolledBack
<1>3. Outcome'
  BY <1>1 DEF Outcome, Leads
<1> QED BY <1>1, <1>2, <1>3, RowAlone

LEMMA ElsewhereStep == ASSUME IInv, Elsewhere PROVE IInv'
<1>1. /\ Course /\ Outcome
      /\ \/ step = "ReturnItem" /\ step' = "ExpireListing"
         \/ step = "FreezeItem" /\ step' = "SetWinningBid"
         \/ step = "CommitHold" /\ step' = "MarkSold"
         \/ step \in {"FreezeItem", "CommitHold"} /\ step' = "MarkSettlementFailed"
      /\ UnchangedCalls /\ UNCHANGED <<listing, issued, frozen, handed, told>>
      /\ step' \in Steps /\ issued' \subseteq Activities
  <2>1. \/ step = "ReturnItem" /\ step' = "ExpireListing"
        \/ step = "FreezeItem" /\ step' = "SetWinningBid"
        \/ step = "CommitHold" /\ step' = "MarkSold"
        \/ step \in {"FreezeItem", "CommitHold"} /\ step' = "MarkSettlementFailed"
    <3>1. CASE step = "ReturnItem"
      BY <3>1 DEF Elsewhere, NextStep
    <3>2. CASE step = "FreezeItem"
      BY <3>2 DEF Elsewhere, NextStep
    <3>3. CASE step = "CommitHold"
      BY <3>3 DEF Elsewhere, NextStep
    <3> QED BY <3>1, <3>2, <3>3 DEF Elsewhere
  <2> QED BY <2>1 DEF IInv, TypeOK, Elsewhere, Steps
<1>2. Course'
  BY <1>1 DEF Course, RolledBack
<1>3. Outcome'
  BY <1>1 DEF Outcome, Leads
<1> QED BY <1>1, <1>2, <1>3, RowAlone

LEMMA PollStep == ASSUME IInv, PollExpired PROVE IInv'
<1>1. /\ step' = Started /\ UnchangedCalls /\ UNCHANGED <<listing, issued, frozen, handed, told>>
      /\ issued' \subseteq Activities /\ frozen' \in FrozenType
  BY DEF IInv, TypeOK, FrozenType, PollExpired
<1>2. /\ Moved(listing, listing') /\ RowOK(listing') /\ Course' /\ Outcome' /\ Answered'
      /\ step' \in Steps
  BY <1>1, StartKeeps
<1> QED BY <1>1, <1>2, SettleKeeps

LEMMA TickStep == ASSUME IInv, Tick PROVE IInv'
<1>1. /\ TypeOK /\ Fresh /\ now' \in 0..MaxTime
      /\ UNCHANGED <<listing, pc, req, at, snap, tries, step, issued, frozen, handed, told>>
  BY CallConstants DEF IInv, TypeOK, Tick
<1>2. Moved(listing, listing') /\ RowOK(listing') /\ Course' /\ Outcome' /\ Answered'
  BY <1>1, Stays
<1>3. TypeOK'
  <2> HIDE DEF Listing, Requests, NoReq, Answers, Steps, Activities
  <2> QED BY <1>1 DEF TypeOK
<1>4. \A x \in Callers :
        \/ pc'[x] \notin {"load", "save"}
        \/ pc'[x] = pc[x] /\ req'[x] = req[x] /\ at'[x] = at[x] /\ snap'[x] = snap[x]
  BY <1>1
<1>5. Fresh'
  BY <1>1, <1>2, <1>4, FreshKept
<1> QED BY <1>2, <1>3, <1>5 DEF IInv

-----------------------------------------------------------------------------
(* The invariant, and the properties.                                      *)

LEMMA AtFirst == ASSUME Init PROVE IInv
<1>1. /\ \A b \in Bids : listing.bids[b] = NoBid /\ listing.bids[b].status = "NONE"
      /\ listing.status = "ACTIVE"
  BY DEF Init, NewListing, NoBid
<1>2. TypeOK
  <2>1. NewListing \in Listing
    BY DEF NewListing, Listing, ListingStatuses, Bid, Sale
  <2>2. 0 \in 0..MaxTime /\ 0 \in 0..(MaxRetries - 1)
    BY CallConstants
  <2>3. frozen \in [known : BOOLEAN, winner : Bids \cup {NoBidId}, amount : Nat, bids : SUBSET Bids]
    BY DEF Init, NotFrozen
  <2> HIDE DEF Listing, NewListing, Requests, NoReq, Answers
  <2> QED BY <2>1, <2>2, <2>3 DEF Init, TypeOK, Steps
<1>3. RowOK(listing)
  BY <1>1, BuyoutsAreBids DEF RowOK, Leads
<1>4. Fresh
  BY DEF Init, Fresh
<1>5. Course
  BY <1>1 DEF Init, Course, NotFrozen, RolledBack
<1>6. Outcome
  BY <1>1 DEF Init, Outcome, NotFrozen
<1>7. Answered
  BY DEF Init, Answered
<1> QED BY <1>2, <1>3, <1>4, <1>5, <1>6, <1>7 DEF IInv

LEMMA EveryStep == ASSUME IInv, [Next]_vars PROVE IInv'
<1>1. CASE \E w \in Callers : Call(w) \/ Proceed(w) \/ Crash(w)
  BY <1>1, CallerStep
<1>2. CASE PollExpired
  BY <1>2, PollStep
<1>3. CASE Settle
  <2>1. CASE \E a \in Activities : Issue(a) \/ Succeed(a) \/ Impossible(a)
    BY <2>1, IssueStep, AttemptLands, ImpossibleStep
  <2>2. CASE Elsewhere
    BY <2>2, ElsewhereStep
  <2> QED BY <1>3, <2>1, <2>2 DEF Settle
<1>4. CASE \E a \in Activities : LandLate(a)
  BY <1>4, AttemptLands
<1>5. CASE Tick
  BY <1>5, TickStep
<1>6. CASE UNCHANGED vars
  <2>1. UNCHANGED <<listing, now, pc, req, at, snap, tries, step, issued, frozen, handed, told>>
    BY <1>6 DEF vars
  <2>2. UnchangedCalls
    BY <2>1 DEF UnchangedCalls
  <2>3. Course' /\ Outcome' /\ step' \in Steps /\ issued' \subseteq Activities
    BY <2>1, Stays DEF IInv, TypeOK
  <2> QED BY <2>1, <2>2, <2>3, RowAlone
<1> QED BY <1>1, <1>2, <1>3, <1>4, <1>5, <1>6 DEF Next

LEMMA Inductive == Spec => []IInv
BY AtFirst, EveryStep, PTL DEF Spec

(* Module Listing's variables keep their types. *)
THEOREM TypeCorrect == Spec => []TypeOK
<1>1. IInv => TypeOK
  BY DEF IInv
<1> QED BY <1>1, Inductive, PTL

(* LeaderIsHighest holds for any bids, bidders, prices and callers. *)
THEOREM LeaderIsHighestCorrect == Spec => []LeaderIsHighest
<1>1. ASSUME IInv PROVE LeaderIsHighest
  <2> DEFINE lead == Winning(listing)
  <2> DEFINE rest == Having(listing, {"OUTBID", "PENDING"})
  <2>1. RowOK(listing) /\ listing \in Listing
    BY <1>1 DEF IInv, TypeOK
  <2>2. Cardinality(lead) <= 1
    <3>1. CASE lead = {}
      <4>1. Cardinality(lead) = 0
        BY <3>1, FS_EmptySet
      <4> QED BY <4>1
    <3>2. CASE lead # {}
      <4>1. PICK x \in lead : TRUE
        BY <3>2
      <4>2. lead = {x}
        BY <2>1, <4>1 DEF RowOK, Leads, Winning, Having
      <4>3. Cardinality(lead) = 1
        BY <4>2, FS_Singleton
      <4> QED BY <4>3
    <3> QED BY <3>1, <3>2
  <2>3. \A b \in lead, c \in rest : listing.bids[b].amount > listing.bids[c].amount
    BY <2>1 DEF RowOK, Winning, Having
  <2>4. listing.status = "ACTIVE" /\ rest # {} => lead # {}
    BY <2>1 DEF RowOK, Winning, Having
  <2> QED BY <2>2, <2>3, <2>4 DEF LeaderIsHighest
<1> QED BY <1>1, Inductive, PTL

(* AnswersStand holds for any bids, bidders, prices and callers. *)
THEOREM AnswersStandCorrect == Spec => []AnswersStand
<1>1. ASSUME IInv PROVE AnswersStand
  <2>1. RowOK(listing) /\ listing \in Listing /\ Answered
    BY <1>1 DEF IInv, TypeOK
  <2>2. \A b \in Bids : <<"refused by index", b>> \notin told
    BY <2>1 DEF Answered
  <2>3. \A b \in Bids : <<"withdrawn", b>> \in told => listing.bids[b].status = "CANCELLED"
    BY <2>1 DEF Answered
  <2>4. \A b \in Bids : <<"recorded", b>> \in told => b \in Recorded(listing)
    <3>1. \A b \in Bids : listing.bids[b] = NoBid => listing.bids[b].status = "NONE"
      BY DEF NoBid
    <3> QED BY <2>1, <3>1 DEF Answered, Recorded
  <2>5. <<"taken down">> \in told =>
          listing.status = "CANCELLED" /\ Having(listing, LiveBid \cup {"WON"}) = {}
    BY <2>1 DEF Answered, RowOK, Having
  <2> QED BY <2>2, <2>3, <2>4, <2>5 DEF AnswersStand
<1> QED BY <1>1, Inductive, PTL

(* BuyoutWins holds for any bids, bidders, prices and callers. *)
THEOREM BuyoutWinsCorrect == Spec => []BuyoutWins
<1>1. ASSUME IInv PROVE BuyoutWins
  <2>1. RowOK(listing) /\ listing \in Listing
    BY <1>1 DEF IInv, TypeOK
  <2>2. SUFFICES ASSUME NEW b \in Recorded(listing) \cap Buyouts, listing.status # "SETTLEMENT_FAILED"
                 PROVE  /\ Having(listing, {"WINNING", "WON"}) \subseteq Buyouts
                        /\ Having(listing, {"WINNING", "WON"}) # {}
    BY DEF BuyoutWins
  <2>3. b \in Buyouts /\ listing.bids[b].status # "NONE"
    <3>1. listing.bids[b] \in Bid /\ listing.bids[b] # NoBid
      BY <2>1 DEF Recorded, Listing
    <3> QED BY <3>1, BidKinds
  <2>4. (\E i \in Bids : Leads(listing, i)) /\ \A i \in Bids : Leads(listing, i) => i \in Buyouts
    BY <2>1, <2>2, <2>3 DEF RowOK
  <2> QED BY <2>4 DEF Leads, Having
<1> QED BY <1>1, Inductive, PTL

(* WinnerStands holds for any bids, bidders, prices and callers. *)
THEOREM WinnerStandsCorrect == Spec => []WinnerStands
<1>1. ASSUME IInv PROVE WinnerStands
  <2>1. TypeOK /\ listing \in Listing /\ Outcome /\ Answered
    BY <1>1 DEF IInv, TypeOK
  <2>2. \A b \in Bids : b \in Recorded(listing) <=> listing.bids[b].status # "NONE"
    <3>1. \A b \in Bids : listing.bids[b] \in Bid
      BY <2>1 DEF Listing
    <3> QED BY <3>1, BidKinds DEF Recorded
  <2>3. Recorded(listing) \subseteq Bids /\ frozen.bids \subseteq Bids /\ handed \subseteq Bids
    BY <2>1 DEF Recorded, TypeOK
  <2>4. frozen.known =>
        /\ Having(listing, {"WINNING", "WON"}) \subseteq {frozen.winner}
        /\ listing.status = "SOLD" =>
              listing.sold = [buyer |-> Bidder[frozen.winner], price |-> frozen.amount]
        /\ Recorded(listing) = frozen.bids
    <3> SUFFICES ASSUME frozen.known
                 PROVE  /\ Having(listing, {"WINNING", "WON"}) \subseteq {frozen.winner}
                        /\ listing.status = "SOLD" =>
                              listing.sold = [buyer |-> Bidder[frozen.winner], price |-> frozen.amount]
                        /\ Recorded(listing) = frozen.bids
      OBVIOUS
    <3>1. Having(listing, {"WINNING", "WON"}) \subseteq {frozen.winner}
      BY <2>1 DEF Outcome, Leads, Having
    <3>2. \A b \in Bids : b \in Recorded(listing) <=> b \in frozen.bids
      BY <2>1, <2>2 DEF Outcome
    <3> QED BY <2>1, <2>3, <3>1, <3>2 DEF Outcome
  <2>5. listing.status = "CANCELLED" /\ <<"taken down">> \in told => Recorded(listing) = handed
    <3> SUFFICES ASSUME <<"taken down">> \in told PROVE Recorded(listing) = handed
      OBVIOUS
    <3>1. \A b \in Bids : b \in Recorded(listing) <=> b \in handed
      BY <2>1, <2>2 DEF Answered
    <3> QED BY <2>3, <3>1
  <2> QED BY <2>4, <2>5 DEF WinnerStands
<1> QED BY <1>1, Inductive, PTL

(* SpentMeansSold holds for any bids, bidders, prices and callers. *)
THEOREM SpentMeansSoldCorrect == Spec => []SpentMeansSold
<1>1. ASSUME IInv PROVE SpentMeansSold
  <2>1. TypeOK /\ listing \in Listing /\ Course /\ Outcome
    BY <1>1 DEF IInv, TypeOK
  <2>2. ASSUME step = "MarkSold"
        PROVE  /\ listing.status \in {"PENDING_SETTLEMENT", "SOLD"}
               /\ Having(listing, {"WON"}) = {frozen.winner}
    <3>1. frozen.known /\ frozen.winner # NoBidId /\ frozen.winner \in Bids
      BY <2>1, <2>2 DEF Course, TypeOK
    <3>2. listing.status \notin {"ACTIVE", "CANCELLED", "EXPIRED", "SETTLEMENT_FAILED"}
      BY <2>1, <2>2, <3>1 DEF Course, RolledBack
    <3>3. listing.status \in {"PENDING_SETTLEMENT", "SOLD"}
      BY <2>1, <3>2 DEF Listing, ListingStatuses
    <3>4. listing.bids[frozen.winner].status = "WON"
      BY <2>1, <2>2, <3>1 DEF Outcome
    <3>5. \A b \in Bids : listing.bids[b].status = "WON" => b = frozen.winner
      BY <2>1, <3>1 DEF Outcome, Leads
    <3> QED BY <3>1, <3>3, <3>4, <3>5 DEF Having
  <2>3. step = "completed" =>
          listing.status = IF frozen.winner = NoBidId THEN "EXPIRED" ELSE "SOLD"
    BY <2>1 DEF Course
  <2> QED BY <2>2, <2>3 DEF SpentMeansSold
<1> QED BY <1>1, Inductive, PTL

---------------------------------------------------------------------------
(* How the listing comes to be: module ItemReservation, for any ids,       *)
(* consumers and number of deliveries.  As long as no event is handled     *)
(* past the grace of its first confirmation, no live listing is ever       *)
(* without its item (ListingHasItem).                                      *)

\* the constants and variables of module ItemReservation, beside ReservedItem's
CONSTANTS Consumers, Unfit, Publishes, LateRedelivery
VARIABLES minted, over, outbox, queue, task, late, pass

Creation == INSTANCE ItemReservation

Statuses == {"NONE", "ACTIVE", "SETTLING", "FROZEN", "CANCELLED", "ENDED"}
Places == {"idle", "confirm", "insert", "release"}
Judgements == {"idle", "look", "confirm", "cancel", "release"}

Items ==
    [status : {"AVAILABLE", "LISTED", "PENDING_SETTLEMENT"}, listing : Ids \cup {NoId},
     waiting : BOOLEAN, old : BOOLEAN]
Tasks == [at : Places, id : Ids \cup {NoId}]

Shape ==
    /\ item \in Items
    /\ minted \subseteq Ids /\ late \subseteq Ids
    /\ row \in [Ids -> Statuses]
    /\ outbox \in [Ids -> Nat] /\ queue \in [Ids -> Nat]
    /\ task \in [Consumers -> Tasks]
    /\ pass \in [Creation!Passes -> [at : Judgements, id : Ids \cup {NoId}]]

\* nothing is known of an id before it is minted
Known ==
    /\ item.status # "AVAILABLE" => item.listing \in minted
    /\ \A l \in Ids : row[l] # "NONE" \/ outbox[l] # 0 \/ queue[l] # 0 => l \in minted
    /\ late \subseteq minted
    /\ \A c \in Consumers : task[c].at # "idle" => task[c].id \in minted
    /\ \A k \in Creation!Passes : pass[k].at # "idle" => pass[k].id \in minted

\* only listings the schema accepts are ever written, and only the others are compensated
Fit ==
    /\ \A l \in Ids : row[l] # "NONE" \/ l \in late => l \notin Unfit
    /\ \A c \in Consumers : task[c].at = "release" => task[c].id \in Unfit

\* ListingHasItem, and that the reservation of a listing that exists is confirmed
Reserved ==
    \A l \in Ids :
        /\ row[l] \in {"ACTIVE", "SETTLING", "CANCELLED"} => Creation!Listed(l) /\ ~item.waiting
        /\ row[l] = "FROZEN" => item.listing = l /\ item.status = "PENDING_SETTLEMENT"

\* a listing about to be inserted has a confirmed reservation within its grace
Confirmed ==
    \A l \in Ids :
        Creation!Inserting(l) /\ l \notin Unfit /\ row[l] = "NONE"
            => Creation!Listed(l) /\ ~item.waiting /\ ~item.old

\* what a reconciler found is still so when it acts on it, where it matters
Judged ==
    \A k \in Creation!Passes :
        LET l == pass[k].id IN
        /\ pass[k].at = "release" /\ Creation!Listed(l) /\ l \notin Unfit
             => row[l] = "NONE" /\ ~item.waiting /\ item.old
        /\ k = "confirmed" /\ pass[k].at = "look" /\ Creation!Listed(l)
             => ~item.waiting /\ (row[l] = "NONE" => item.old)
        /\ pass[k].at = "confirm" => row[l] # "NONE"

CreationInv ==
    Creation!ReservationConstants /\ Shape /\ Known /\ Fit /\ Reserved /\ Confirmed /\ Judged


LEMMA InitCreationInv ==
    ASSUME Creation!ReservationConstants, Creation!Init
    PROVE  CreationInv
  <1> USE DEF Creation!ReservationConstants, Creation!Init
  <1>1. Shape BY DEF Shape, Items, Tasks, Creation!Free, Creation!Idle, Statuses, Places, Judgements, Creation!Passes
  <1>2. Known BY DEF Known, Creation!Free, Creation!Idle
  <1>3. Fit BY DEF Fit, Creation!Idle
  <1>4. Reserved BY DEF Reserved
  <1>5. Confirmed BY DEF Confirmed, Creation!Inserting, Creation!Idle
  <1>6. Judged BY DEF Judged, Creation!Idle
  <1> QED BY <1>1, <1>2, <1>3, <1>4, <1>5, <1>6 DEF CreationInv

\* What a confirmation does to the item.
LEMMA ConfirmEffect ==
    ASSUME Shape, NEW l \in Ids, Creation!ConfirmReservation(l)
    PROVE  /\ item' \in Items
           /\ item'.status = item.status /\ item'.listing = item.listing
           /\ Creation!Listed(l) => ~item'.waiting /\ ~item'.old
           /\ ~Creation!Listed(l) => item' = item
  BY DEF Shape, Items, Creation!ConfirmReservation, Creation!Listed

\* A reservation taken back is taken back whole, or the write matched nothing.
LEMMA FreeEffect ==
    ASSUME Shape, NEW l \in Ids, Creation!CancelReservation(l) \/ Creation!ReleaseConfirmed(l)
    PROVE  /\ item' \in Items
           /\ item' = item \/ (Creation!Listed(l) /\ item' = Creation!Free)
           /\ Creation!CancelReservation(l) => item' = item \/ item.waiting
  <1>1. Creation!Free \in Items
    BY DEF Creation!Free, Items
  <1>2. item' = item \/ (Creation!Listed(l) /\ item' = Creation!Free)
    BY DEF Creation!CancelReservation, Creation!ReleaseConfirmed
  <1>3. Creation!CancelReservation(l) => item' = item \/ item.waiting
    BY DEF Creation!CancelReservation
  <1> QED BY <1>1, <1>2, <1>3 DEF Shape

\* A consumer that gives an event back is idle, and the event is queued once more.
LEMMA RequeueEffect ==
    ASSUME Shape, NEW c \in Consumers, task[c].id \in Ids, Creation!Requeue(c)
    PROVE  /\ task' \in [Consumers -> Tasks] /\ queue' \in [Ids -> Nat]
           /\ task'[c] = Creation!Idle /\ \A d \in Consumers : d # c => task'[d] = task[d]
           /\ \A l \in Ids : queue'[l] # 0 => queue[l] # 0 \/ l = task[c].id
  BY DEF Shape, Creation!Requeue, Tasks, Places, Creation!Idle

\* A consumer that is done with an event is idle.
LEMMA FinishEffect ==
    ASSUME Shape, NEW c \in Consumers, Creation!Finish(c)
    PROVE  /\ task' \in [Consumers -> Tasks] /\ queue' = queue
           /\ task'[c] = Creation!Idle /\ \A d \in Consumers : d # c => task'[d] = task[d]
  BY DEF Shape, Creation!Finish, Tasks, Places, Creation!Idle

\* A consumer works on an id that has been minted.
LEMMA TaskId ==
    ASSUME Shape, Known, NEW c \in Consumers, task[c].at # "idle"
    PROVE  task[c].id \in Ids /\ task[c].id \in minted
  BY DEF Shape, Known

\* An insert that lands writes its own row alone, and only if it was not there.
LEMMA LandedEffect ==
    ASSUME Shape, NEW l \in Ids, ~Creation!Refused(l), row' = Creation!Landed(l)
    PROVE  \A m \in Ids : \/ row'[m] = row[m]
                          \/ m = l /\ row[l] = "NONE" /\ row'[l] = "ACTIVE" /\ l \notin Unfit
  BY DEF Shape, Creation!Landed, Creation!Refused

\* A pass ends, or stays where it is.
PassesEnd == \A k \in Creation!Passes : pass'[k] = pass[k] \/ pass'[k] = Creation!Idle

\* A confirmation within the grace disturbs no listing, and no reconciler's finding.
LEMMA ConfirmKeeps ==
    ASSUME Shape, Reserved, Judged, NEW l \in Ids, Creation!ConfirmReservation(l),
           ~Creation!PastGrace(l), row' = row, PassesEnd
    PROVE  Reserved' /\ Judged'
  <1>1. /\ item'.status = item.status /\ item'.listing = item.listing
        /\ Creation!Listed(l) => ~item'.waiting /\ ~item'.old
        /\ ~Creation!Listed(l) => item' = item
    BY ConfirmEffect
  <1>2. Reserved'
    BY <1>1 DEF Reserved, Creation!Listed
  <1>3. \A m : Creation!Listed(m)' <=> Creation!Listed(m)
    BY <1>1 DEF Creation!Listed
  <1>4. ASSUME NEW k \in Creation!Passes, pass'[k] = pass[k]
        PROVE  LET m == pass[k].id IN
               /\ pass[k].at = "release" /\ Creation!Listed(m) /\ m \notin Unfit
                    => row[m] = "NONE" /\ ~item'.waiting /\ item'.old
               /\ k = "confirmed" /\ pass[k].at = "look" /\ Creation!Listed(m)
                    => ~item'.waiting /\ (row[m] = "NONE" => item'.old)
               /\ pass[k].at = "confirm" => row[m] # "NONE"
    <2>1. CASE ~Creation!Listed(l)
      BY <1>1, <2>1 DEF Judged
    <2>2. CASE Creation!Listed(l) /\ pass[k].id = l
      BY <1>1, <2>2 DEF Judged, Creation!PastGrace, Creation!Listed
    <2>3. CASE Creation!Listed(l) /\ pass[k].id # l
      BY <1>1, <2>3 DEF Judged, Creation!Listed
    <2> QED BY <2>1, <2>2, <2>3
  <1>5. Judged'
    BY <1>3, <1>4 DEF Judged, PassesEnd, Creation!Idle
  <1> QED BY <1>2, <1>5

LEMMA ReserveItemStep ==
    ASSUME CreationInv, NEW l \in Ids, Creation!ReserveItem(l)
    PROVE  CreationInv'
  <1> USE DEF Creation!ReservationConstants, CreationInv, Creation!ReserveItem
  <1>1. Shape' BY DEF Shape, Items
  <1>2. Known' BY DEF Known
  <1>3. Fit' BY DEF Fit
  <1>4. Reserved' BY DEF Reserved, Creation!Listed
  <1>5. Confirmed' BY DEF Confirmed, Creation!Listed, Creation!Inserting
  <1>6. Judged' BY DEF Known, Judged, Creation!Listed
  <1> QED BY <1>1, <1>2, <1>3, <1>4, <1>5, <1>6

LEMMA PublishStep ==
    ASSUME CreationInv, NEW l \in Ids, Creation!Publish(l)
    PROVE  CreationInv'
  <1> USE DEF Creation!ReservationConstants, CreationInv, Creation!Publish
  <1>1. Shape' BY DEF Shape
  <1>2. Known' BY DEF Shape, Known
  <1>3. Fit' BY DEF Fit
  <1>4. Reserved' BY DEF Reserved, Creation!Listed
  <1>5. Confirmed' BY DEF Confirmed, Creation!Listed, Creation!Inserting
  <1>6. Judged' BY DEF Judged, Creation!Listed
  <1> QED BY <1>1, <1>2, <1>3, <1>4, <1>5, <1>6

LEMMA LandLateStep ==
    ASSUME CreationInv, NEW l \in Ids, Creation!LandLate(l)
    PROVE  CreationInv'
  <1> USE DEF CreationInv
  <1>1. /\ l \in late /\ late' = late \ {l}
        /\ UNCHANGED <<item, minted, over, outbox, queue, task, pass>>
    BY DEF Creation!LandLate
  <1>2. \A m \in Ids : \/ row'[m] = row[m]
                       \/ m = l /\ row[l] = "NONE" /\ row'[l] = "ACTIVE" /\ l \notin Unfit
    BY LandedEffect DEF Creation!LandLate
  <1>3. row[l] = "NONE" /\ l \notin Unfit => Creation!Listed(l) /\ ~item.waiting /\ ~item.old
    BY <1>1 DEF Confirmed, Creation!Inserting
  <1>4. Shape' BY <1>1 DEF Creation!LandLate, Creation!Landed, Shape, Items, Statuses
  <1>5. Known' BY <1>1, <1>2 DEF Shape, Known
  <1>6. Fit' BY <1>1, <1>2 DEF Fit
  <1>7. Reserved' BY <1>1, <1>2, <1>3 DEF Reserved, Creation!Listed
  <1>8. Confirmed' BY <1>1, <1>2 DEF Confirmed, Creation!Inserting, Creation!Listed
  <1>9. Judged'
    <2>1. ASSUME NEW k \in Creation!Passes, Creation!Listed(pass[k].id)
          PROVE  pass[k].id \in Ids
      BY <2>1 DEF Shape, Creation!Listed, Known
    <2>2. ASSUME NEW k \in Creation!Passes, pass[k].at # "idle"
          PROVE  pass[k].id \in Ids
      BY <2>2 DEF Shape, Known
    <2> QED BY <1>1, <1>2, <1>3, <2>2 DEF Judged, Creation!Listed
  <1> QED BY <1>4, <1>5, <1>6, <1>7, <1>8, <1>9

LEMMA EndsAtStep ==
    ASSUME CreationInv, NEW l \in Ids, Creation!EndsAt(l)
    PROVE  CreationInv'
  <1> USE DEF Creation!ReservationConstants, CreationInv, Creation!EndsAt, Creation!delivery
  <1>1. Shape' BY DEF Shape
  <1>2. Known' BY DEF Known
  <1>3. Fit' BY DEF Fit
  <1>4. Reserved' BY DEF Reserved, Creation!Listed
  <1>5. Confirmed' BY DEF Confirmed, Creation!Listed, Creation!Inserting
  <1>6. Judged' BY DEF Judged, Creation!Listed
  <1> QED BY <1>1, <1>2, <1>3, <1>4, <1>5, <1>6

LEMMA CloseStep ==
    ASSUME CreationInv, NEW l \in Ids, Creation!Close(l)
    PROVE  CreationInv'
  <1> USE DEF Creation!ReservationConstants, CreationInv, Creation!Close, Creation!Becomes, Creation!delivery, Creation!Free
  <1>1. Shape'
    <2>1. item' \in Items
      <3>1. Creation!Free \in Items
        BY DEF Creation!Free, Items
      <3>2. [item EXCEPT !.status = "PENDING_SETTLEMENT"] \in Items
        BY DEF Shape, Items
      <3> QED BY <3>1, <3>2 DEF Creation!Close, Shape
    <2>2. row' \in [Ids -> Statuses]
      BY DEF Shape, Statuses
    <2> QED BY <2>1, <2>2 DEF Shape
  <1>2. Known' BY DEF Shape, Items, Known, Creation!Listed
  <1>3. Fit' BY DEF Shape, Fit
  <1>4. Reserved' BY DEF Shape, Items, Reserved, Creation!Listed
  <1>5. Confirmed' BY DEF Shape, Reserved, Confirmed, Creation!Listed, Creation!Inserting
  <1>6. Judged' BY DEF Shape, Items, Known, Judged, Creation!Listed
  <1> QED BY <1>1, <1>2, <1>3, <1>4, <1>5, <1>6

LEMMA DeliverStep ==
    ASSUME CreationInv, NEW c \in Consumers, NEW l \in Ids, Creation!Deliver(c, l)
    PROVE  CreationInv'
  <1> USE DEF Creation!ReservationConstants, CreationInv, Creation!Deliver, Creation!At
  <1>1. Shape' BY DEF Shape, Tasks, Places
  <1>2. Known' BY DEF Known
  <1>3. Fit' BY DEF Fit
  <1>4. Reserved' BY DEF Reserved, Creation!Listed
  <1>5. Confirmed' BY DEF Confirmed, Creation!Listed, Creation!Inserting
  <1>6. Judged' BY DEF Judged, Creation!Listed
  <1> QED BY <1>1, <1>2, <1>3, <1>4, <1>5, <1>6

LEMMA ConfirmStep ==
    ASSUME CreationInv, ~LateRedelivery, NEW c \in Consumers, Creation!Confirm(c)
    PROVE  CreationInv'
  <1> DEFINE l == task[c].id
  <1> USE DEF CreationInv
  <1>1. /\ task[c].at = "confirm" /\ ~Creation!PastGrace(l) /\ Creation!ConfirmReservation(l)
        /\ UNCHANGED <<minted, row, over, outbox, late, pass>>
    BY DEF Creation!Confirm, Creation!At
  <1>2. l \in Ids /\ l \in minted
    BY <1>1, TaskId
  <1>3. /\ item' \in Items
        /\ item'.status = item.status /\ item'.listing = item.listing
        /\ Creation!Listed(l) => ~item'.waiting /\ ~item'.old
        /\ ~Creation!Listed(l) => item' = item
    BY <1>1, <1>2, ConfirmEffect
  <1>4. /\ task' \in [Consumers -> Tasks] /\ queue' = queue
        /\ task'[c] = IF Creation!Listed(l) THEN [at |-> "insert", id |-> l] ELSE Creation!Idle
        /\ \A d \in Consumers : d # c => task'[d] = task[d]
    <2>1. CASE Creation!Listed(l)
      BY SMTT(30), <1>2, <2>1 DEF Creation!Confirm, Creation!Goto, Shape, Tasks, Places
    <2>2. CASE ~Creation!Listed(l)
      BY <2>2, FinishEffect DEF Creation!Confirm
    <2> QED BY <2>1, <2>2
  <1>5. Shape' BY <1>1, <1>3, <1>4 DEF Shape
  <1>6. Known' BY <1>1, <1>2, <1>3, <1>4 DEF Known, Creation!Idle
  <1>7. Fit' BY <1>1, <1>4 DEF Fit, Creation!Idle
  <1>8. Confirmed'
    <2>1. ASSUME NEW m \in Ids, Creation!Inserting(m)'
          PROVE  Creation!Inserting(m) \/ (m = l /\ Creation!Listed(l))
      BY <1>1, <1>4, <2>1 DEF Creation!Inserting, Creation!Idle
    <2> QED BY <1>1, <1>3, <2>1 DEF Confirmed, Creation!Listed
  <1>9. Reserved' /\ Judged'
    BY <1>1, <1>2, ConfirmKeeps DEF PassesEnd
  <1> QED BY <1>5, <1>6, <1>7, <1>8, <1>9

LEMMA ConfirmUnansweredStep ==
    ASSUME CreationInv, ~LateRedelivery, NEW c \in Consumers, Creation!ConfirmUnanswered(c)
    PROVE  CreationInv'
  <1> DEFINE l == task[c].id
  <1> USE DEF CreationInv
  <1>1. /\ task[c].at = "confirm" /\ ~Creation!PastGrace(l)
        /\ Creation!ConfirmReservation(l) \/ item' = item
        /\ Creation!Requeue(c)
        /\ UNCHANGED <<minted, row, over, outbox, late, pass>>
    BY DEF Creation!ConfirmUnanswered, Creation!At
  <1>2. l \in Ids /\ l \in minted
    BY <1>1, TaskId
  <1>3. /\ item' \in Items
        /\ item'.status = item.status /\ item'.listing = item.listing
        /\ item' = item \/ (Creation!Listed(l) /\ ~item'.waiting /\ ~item'.old)
    BY <1>1, <1>2, ConfirmEffect DEF Shape
  <1>4. /\ task' \in [Consumers -> Tasks] /\ queue' \in [Ids -> Nat]
        /\ task'[c] = Creation!Idle /\ \A d \in Consumers : d # c => task'[d] = task[d]
        /\ \A m \in Ids : queue'[m] # 0 => queue[m] # 0 \/ m = l
    BY <1>1, <1>2, RequeueEffect
  <1>5. Shape' BY <1>1, <1>3, <1>4 DEF Shape
  <1>6. Known' BY <1>1, <1>2, <1>3, <1>4 DEF Known, Creation!Idle
  <1>7. Fit' BY <1>1, <1>4 DEF Fit, Creation!Idle
  <1>8. Confirmed'
    <2>1. ASSUME NEW m \in Ids, Creation!Inserting(m)'
          PROVE  Creation!Inserting(m)
      BY <1>1, <1>4, <2>1 DEF Creation!Inserting, Creation!Idle
    <2> QED BY <1>1, <1>3, <2>1 DEF Confirmed, Creation!Listed
  <1>9. Reserved' /\ Judged'
    <2>1. CASE Creation!ConfirmReservation(l)
      BY <1>1, <1>2, <2>1, ConfirmKeeps DEF PassesEnd
    <2>2. CASE item' = item
      BY <1>1, <2>2 DEF Reserved, Judged, Creation!Listed
    <2> QED BY <1>1, <2>1, <2>2
  <1> QED BY <1>5, <1>6, <1>7, <1>8, <1>9

LEMMA InsertStep ==
    ASSUME CreationInv, NEW c \in Consumers, Creation!Insert(c)
    PROVE  CreationInv'
  <1> USE DEF Creation!ReservationConstants, CreationInv, Creation!Insert, Creation!At, Creation!Finish, Creation!Landed, Creation!Refused, Creation!Idle
  <1>1. Shape' BY DEF Shape, Tasks, Statuses, Places
  <1>2. Known' BY DEF Known
  <1>3. Fit' BY DEF Fit
  <1>4. Reserved' BY DEF Shape, Tasks, Reserved, Confirmed, Creation!Listed, Creation!Inserting
  <1>5. Confirmed' BY DEF Confirmed, Creation!Listed, Creation!Inserting
  <1>6. Judged' BY DEF Shape, Tasks, Confirmed, Judged, Creation!Listed, Creation!Inserting
  <1> QED BY <1>1, <1>2, <1>3, <1>4, <1>5, <1>6

LEMMA InsertUnansweredStep ==
    ASSUME CreationInv, NEW c \in Consumers, Creation!InsertUnanswered(c)
    PROVE  CreationInv'
  <1> USE DEF Creation!ReservationConstants, CreationInv, Creation!InsertUnanswered, Creation!At, Creation!Requeue, Creation!Refused, Creation!Idle
  <1>1. Shape'
    <2>1. task' \in [Consumers -> Tasks] /\ queue' \in [Ids -> Nat]
      BY RequeueEffect, TaskId
    <2> QED BY <2>1 DEF Shape
  <1>2. Known' BY DEF Known
  <1>3. Fit' BY DEF Fit
  <1>4. Reserved' BY DEF Reserved, Creation!Listed
  <1>5. Confirmed' BY DEF Shape, Tasks, Confirmed, Creation!Listed, Creation!Inserting
  <1>6. Judged' BY DEF Judged, Creation!Listed
  <1> QED BY <1>1, <1>2, <1>3, <1>4, <1>5, <1>6

LEMMA InsertRefusedStep ==
    ASSUME CreationInv, NEW c \in Consumers, Creation!InsertRefused(c)
    PROVE  CreationInv'
  <1> USE DEF Creation!ReservationConstants, CreationInv, Creation!InsertRefused, Creation!At, Creation!Goto, Creation!Refused
  <1>1. Shape' BY DEF Shape, Tasks, Places
  <1>2. Known' BY DEF Known
  <1>3. Fit' BY DEF Shape, Tasks, Known, Fit, Reserved, Confirmed, Creation!Listed, Creation!Inserting
  <1>4. Reserved' BY DEF Reserved, Creation!Listed
  <1>5. Confirmed' BY DEF Confirmed, Creation!Listed, Creation!Inserting
  <1>6. Judged' BY DEF Judged, Creation!Listed
  <1> QED BY <1>1, <1>2, <1>3, <1>4, <1>5, <1>6

LEMMA ReleaseAfterRefusalStep ==
    ASSUME CreationInv, NEW c \in Consumers, Creation!ReleaseAfterRefusal(c)
    PROVE  CreationInv'
  <1> USE DEF Creation!ReservationConstants, CreationInv, Creation!ReleaseAfterRefusal, Creation!At, Creation!Finish, Creation!ReleaseConfirmed, Creation!Free, Creation!Idle
  <1>1. Shape'
    <2>1. task' \in [Consumers -> Tasks] /\ queue' = queue
      BY FinishEffect
    <2>2. item' \in Items
      BY TaskId, FreeEffect
    <2> QED BY <2>1, <2>2 DEF Shape
  <1>2. Known' BY DEF Known
  <1>3. Fit' BY DEF Fit
  <1>4. Reserved' BY DEF Fit, Reserved, Creation!Listed
  <1>5. Confirmed' BY DEF Fit, Confirmed, Creation!Listed, Creation!Inserting
  <1>6. Judged' BY DEF Judged, Creation!Listed
  <1> QED BY <1>1, <1>2, <1>3, <1>4, <1>5, <1>6

LEMMA ReleaseUnansweredStep ==
    ASSUME CreationInv, NEW c \in Consumers, Creation!ReleaseUnanswered(c)
    PROVE  CreationInv'
  <1> USE DEF Creation!ReservationConstants, CreationInv, Creation!ReleaseUnanswered, Creation!At, Creation!Requeue, Creation!ReleaseConfirmed, Creation!Free, Creation!Idle
  <1>1. Shape'
    <2>1. task' \in [Consumers -> Tasks] /\ queue' \in [Ids -> Nat]
      BY RequeueEffect, TaskId
    <2>2. item' \in Items
      BY TaskId, FreeEffect DEF Shape
    <2> QED BY <2>1, <2>2 DEF Shape
  <1>2. Known' BY DEF Known
  <1>3. Fit' BY DEF Fit
  <1>4. Reserved' BY DEF Fit, Reserved, Creation!Listed
  <1>5. Confirmed' BY DEF Fit, Confirmed, Creation!Listed, Creation!Inserting
  <1>6. Judged' BY DEF Judged, Creation!Listed
  <1> QED BY <1>1, <1>2, <1>3, <1>4, <1>5, <1>6

LEMMA CrashStep ==
    ASSUME CreationInv, NEW c \in Consumers, Creation!Crash(c)
    PROVE  CreationInv'
  <1> USE DEF Creation!ReservationConstants, CreationInv, Creation!Crash, Creation!At, Creation!Requeue, Creation!Idle
  <1>1. Shape'
    <2>1. task' \in [Consumers -> Tasks] /\ queue' \in [Ids -> Nat]
      BY RequeueEffect, TaskId
    <2> QED BY <2>1 DEF Shape
  <1>2. Known' BY DEF Known
  <1>3. Fit' BY DEF Fit
  <1>4. Reserved' BY DEF Reserved, Creation!Listed
  <1>5. Confirmed' BY DEF Confirmed, Creation!Listed, Creation!Inserting
  <1>6. Judged' BY DEF Judged, Creation!Listed
  <1> QED BY <1>1, <1>2, <1>3, <1>4, <1>5, <1>6

LEMMA ReadStep ==
    ASSUME CreationInv, NEW k \in Creation!Passes, Creation!Read(k)
    PROVE  CreationInv'
  <1> USE DEF Creation!ReservationConstants, CreationInv, Creation!Read, Creation!delivery
  <1>1. Shape' BY DEF Shape, Items, Judgements
  <1>2. Known' BY DEF Known
  <1>3. Fit' BY DEF Fit
  <1>4. Reserved' BY DEF Reserved, Creation!Listed
  <1>5. Confirmed' BY DEF Confirmed, Creation!Inserting
  <1>6. Judged' BY DEF Judged, Creation!Listed
  <1> QED BY <1>1, <1>2, <1>3, <1>4, <1>5, <1>6

LEMMA LookStep ==
    ASSUME CreationInv, NEW k \in Creation!Passes, Creation!Look(k)
    PROVE  CreationInv'
  <1> DEFINE l == pass[k].id
  <1> USE DEF CreationInv
  <1>1. pass[k].at = "look" /\ UNCHANGED <<item, minted, row, over, outbox, queue, task, late>>
    BY DEF Creation!Look, Creation!delivery
  <1>2. /\ pass' \in [Creation!Passes -> [at : Judgements, id : Ids \cup {NoId}]]
        /\ \A j \in Creation!Passes : j # k => pass'[j] = pass[j]
        /\ \/ pass'[k].at = "idle"
           \/ pass'[k] = [at |-> "confirm", id |-> l] /\ row[l] # "NONE"
           \/ pass'[k] = [at |-> "cancel", id |-> l]
           \/ pass'[k] = [at |-> "release", id |-> l] /\ row[l] = "NONE" /\ k = "confirmed"
    <2>1. pass[k] \in [at : Judgements, id : Ids \cup {NoId}] /\ Creation!Idle \in [at : Judgements, id : Ids \cup {NoId}]
      BY DEF Shape, Judgements, Creation!Idle
    <2>2. CASE pass' = [pass EXCEPT ![k] = Creation!Idle]
      BY <2>1, <2>2 DEF Shape, Creation!Idle
    <2>3. CASE k = "stale" /\ Creation!Live(l)
      <3>1. pass' = [pass EXCEPT ![k] = [at |-> "confirm", id |-> l]] /\ row[l] # "NONE"
        BY <2>3 DEF Creation!Look, Creation!Live
      <3> QED BY <2>1, <3>1 DEF Shape, Judgements
    <2>4. CASE k = "stale" /\ ~Creation!Live(l)
      <3>1. pass' = [pass EXCEPT ![k] = [at |-> "cancel", id |-> l]]
        BY <2>4 DEF Creation!Look
      <3> QED BY <2>1, <3>1 DEF Shape, Judgements
    <2>5. CASE k = "confirmed" /\ row[l] = "NONE"
      <3>1. pass' = [pass EXCEPT ![k] = [at |-> "release", id |-> l]]
        BY <2>5 DEF Creation!Look
      <3> QED BY <2>1, <2>5, <3>1 DEF Shape, Judgements
    <2>6. CASE k = "confirmed" /\ row[l] # "NONE"
      BY <2>2, <2>6 DEF Creation!Look
    <2> QED BY <2>3, <2>4, <2>5, <2>6 DEF Creation!Passes
  <1>3. Shape' BY <1>1, <1>2 DEF Shape
  <1>4. Known' BY <1>1, <1>2 DEF Known
  <1>5. Fit' BY <1>1 DEF Fit
  <1>6. Reserved' BY <1>1 DEF Reserved, Creation!Listed
  <1>7. Confirmed' BY <1>1 DEF Confirmed, Creation!Inserting, Creation!Listed
  <1>8. Judged' BY <1>1, <1>2 DEF Judged, Creation!Listed
  <1> QED BY <1>3, <1>4, <1>5, <1>6, <1>7, <1>8

LEMMA WriteStep ==
    ASSUME CreationInv, NEW k \in Creation!Passes, Creation!Write(k)
    PROVE  CreationInv'
  <1> DEFINE l == pass[k].id
  <1> USE DEF CreationInv
  <1>1. /\ pass' = [pass EXCEPT ![k] = Creation!Idle]
        /\ UNCHANGED <<minted, row, over, outbox, queue, task, late>>
        /\ pass[k].at # "idle"
    BY DEF Creation!Write, Creation!delivery
  <1>2. l \in Ids /\ l \in minted
    BY <1>1 DEF Shape, Known
  <1>3. PassesEnd /\ pass' \in [Creation!Passes -> [at : Judgements, id : Ids \cup {NoId}]]
    BY <1>1 DEF PassesEnd, Shape, Judgements, Creation!Idle
  <1>4. CASE pass[k].at = "confirm" /\ Creation!ConfirmReservation(l)
    <2>1. row[l] # "NONE" /\ ~Creation!PastGrace(l)
      BY <1>4 DEF Judged, Creation!PastGrace
    <2>2. /\ item' \in Items
          /\ item'.status = item.status /\ item'.listing = item.listing
          /\ item' = item \/ (Creation!Listed(l) /\ ~item'.waiting /\ ~item'.old)
      BY <1>2, <1>4, ConfirmEffect
    <2>3. Shape' BY <1>1, <1>3, <2>2 DEF Shape
    <2>4. Known' BY <1>1, <1>3, <2>2 DEF Known, PassesEnd, Creation!Idle
    <2>5. Fit' BY <1>1 DEF Fit
    <2>6. Confirmed' BY <1>1, <2>2 DEF Confirmed, Creation!Inserting, Creation!Listed
    <2>7. Reserved' /\ Judged'
      BY <1>1, <1>2, <1>3, <1>4, <2>1, ConfirmKeeps
    <2> QED BY <2>3, <2>4, <2>5, <2>6, <2>7
  <1>5. CASE \/ pass[k].at = "cancel" /\ Creation!CancelReservation(l)
             \/ pass[k].at = "release" /\ Creation!ReleaseConfirmed(l)
    <2>1. item' \in Items /\ (item' = item \/ (Creation!Listed(l) /\ item' = Creation!Free))
      BY <1>2, <1>5, FreeEffect
    <2>2. item' = item \/ item.waiting \/ l \in Unfit \/ (row[l] = "NONE" /\ item.old)
      <3>1. CASE pass[k].at = "cancel"
        BY <1>2, <1>5, <3>1, FreeEffect
      <3>2. CASE pass[k].at = "release"
        BY <1>5, <2>1, <3>2 DEF Judged
      <3> QED BY <1>5, <3>1, <3>2
    <2>3. Shape' BY <1>1, <1>3, <2>1 DEF Shape
    <2>4. Known' BY <1>1, <1>3, <2>1 DEF Known, PassesEnd, Creation!Idle, Creation!Free
    <2>5. Fit' BY <1>1 DEF Fit
    <2>6. Reserved'
      BY <1>1, <1>2, <2>1, <2>2 DEF Reserved, Fit, Creation!Listed
    <2>7. Confirmed'
      BY <1>1, <1>2, <2>1, <2>2 DEF Confirmed, Creation!Inserting, Creation!Listed
    <2>8. Judged'
      BY <1>1, <1>3, <2>1 DEF Judged, PassesEnd, Creation!Listed, Creation!Idle, Creation!Free
    <2> QED BY <2>3, <2>4, <2>5, <2>6, <2>7, <2>8
  <1> QED BY <1>4, <1>5 DEF Creation!Write

LEMMA GiveUpStep ==
    ASSUME CreationInv, NEW k \in Creation!Passes, Creation!GiveUp(k)
    PROVE  CreationInv'
  <1> USE DEF Creation!ReservationConstants, CreationInv, Creation!GiveUp, Creation!delivery, Creation!Idle
  <1>1. Shape' BY DEF Shape, Judgements
  <1>2. Known' BY DEF Known
  <1>3. Fit' BY DEF Fit
  <1>4. Reserved' BY DEF Reserved, Creation!Listed
  <1>5. Confirmed' BY DEF Confirmed, Creation!Listed, Creation!Inserting
  <1>6. Judged' BY DEF Judged, Creation!Listed
  <1> QED BY <1>1, <1>2, <1>3, <1>4, <1>5, <1>6

LEMMA AgeStep ==
    ASSUME CreationInv, Creation!Age
    PROVE  CreationInv'
  <1> USE DEF Creation!ReservationConstants, CreationInv, Creation!Age, Creation!delivery
  <1>1. Shape' BY DEF Shape, Items
  <1>2. Known' BY DEF Known
  <1>3. Fit' BY DEF Fit
  <1>4. Reserved' BY DEF Reserved, Creation!Listed
  <1>5. Confirmed' BY DEF Confirmed, Creation!Listed, Creation!Inserting
  <1>6. Judged' BY DEF Judged, Creation!Listed
  <1> QED BY <1>1, <1>2, <1>3, <1>4, <1>5, <1>6

-----------------------------------------------------------------------------
LEMMA StepCreationInv ==
    ASSUME ~LateRedelivery, CreationInv, [Creation!Next]_(Creation!vars)
    PROVE  CreationInv'
  <1>1. ASSUME NEW l \in Ids, Creation!ReserveItem(l) \/ Creation!Publish(l) \/ Creation!LandLate(l) \/ Creation!EndsAt(l) \/ Creation!Close(l)
        PROVE  CreationInv'
    BY <1>1, ReserveItemStep, PublishStep, LandLateStep, EndsAtStep, CloseStep
  <1>2. ASSUME NEW c \in Consumers, Creation!Handle(c)
        PROVE  CreationInv'
    <2>1. CASE (\E l \in Ids : Creation!Deliver(c, l)) \/ Creation!Confirm(c) \/ Creation!ConfirmUnanswered(c)
      BY <2>1, DeliverStep, ConfirmStep, ConfirmUnansweredStep
    <2>2. CASE Creation!Insert(c) \/ Creation!InsertUnanswered(c) \/ Creation!InsertRefused(c)
      BY <2>2, InsertStep, InsertUnansweredStep, InsertRefusedStep
    <2>3. CASE Creation!ReleaseAfterRefusal(c) \/ Creation!ReleaseUnanswered(c) \/ Creation!Crash(c)
      BY <2>3, ReleaseAfterRefusalStep, ReleaseUnansweredStep, CrashStep
    <2> QED BY <1>2, <2>1, <2>2, <2>3 DEF Creation!Handle
  <1>3. ASSUME NEW k \in Creation!Passes, Creation!Reconcile(k) \/ Creation!GiveUp(k)
        PROVE  CreationInv'
    BY <1>3, ReadStep, LookStep, WriteStep, GiveUpStep DEF Creation!Reconcile
  <1>4. CASE Creation!Age
    BY <1>4, AgeStep
  <1>5. CASE UNCHANGED Creation!vars
    BY <1>5 DEF Creation!vars, CreationInv, Shape, Known, Fit, Reserved, Confirmed, Judged, Creation!Listed, Creation!Inserting
  <1> QED BY <1>1, <1>2, <1>3, <1>4, <1>5 DEF Creation!Next

\* Where no event is handled past the grace of its confirmation, a listing that can be bid
\* on or is being settled always has its item, whatever the two reconcilers, redelivered
\* events, unanswered inserts and refused rows do (ListingHasItem, for every instance).
THEOREM ListingHasItemCorrect ==
    ASSUME Creation!ReservationConstants, ~LateRedelivery
    PROVE  Creation!Spec => []ListingHasItem
  <1>1. Creation!Init => CreationInv
    BY InitCreationInv
  <1>2. CreationInv /\ [Creation!Next]_(Creation!vars) => CreationInv'
    BY StepCreationInv
  <1>3. CreationInv => ListingHasItem
    BY DEF CreationInv, Reserved, ListingHasItem, Listed, Creation!Listed
  <1> QED BY <1>1, <1>2, <1>3, PTL DEF Creation!Spec
=============================================================================
