---------------------------- MODULE SettlementProofs ----------------------------
(***************************************************************************)
(* Proofs about module Settlement, for any bids, members and outages:      *)
(* gold is spent only for a listing that is sold or being sold             *)
(* (SpentOnlyIfSold), an item that went on is let go (ItemLetGo), parked   *)
(* steps and rollbacks show (ExceptionsTell), and the settlement           *)
(* implements Deal (KeepsPromise).  They need that no attempt of CommitHold *)
(* outlives its timeout (~Lingers).                                        *)
(*                                                                         *)
(* The argument: what has been scheduled (begun) tells which path the      *)
(* workflow is on (Control), and the paths exclude each other's effects:   *)
(* the rollback and the path without bids begin only where nothing was     *)
(* committed (Spent), and each record is made before the next step begins  *)
(* (Records), so an attempt that lands late finds its own path's state.    *)
(***************************************************************************)
EXTENDS Settlement, TLAPS

RolledBack == step \in Rollback \cup {"failed"}

\* what has begun tells which path the workflow is on
Control ==
    /\ step = "none" => begun = {} /\ ~frozen.known /\ mode = "run"
    /\ step \in Activities => step \in begun
    /\ ~frozen.known => /\ frozen.winner = NoBidId
                        /\ begun \subseteq {"FreezeListing", "MarkSettlementFailed"}
                        /\ step \in {"none", "FreezeListing", "MarkSettlementFailed", "failed"}
    /\ frozen.known => step # "none"
    /\ step = "FreezeListing" => (frozen.known <=> mode = "resolve")
    /\ frozen.known /\ frozen.winner = NoBidId =>
          /\ begun \subseteq {"FreezeListing"} \cup NoBidsSteps
          /\ step \in {"FreezeListing", "completed"} \cup NoBidsSteps
    /\ frozen.winner # NoBidId => begun \cap NoBidsSteps = {} /\ step \notin NoBidsSteps
    /\ begun \cap Rollback # {} => RolledBack
    /\ RolledBack => begun \cap AfterPivot = {}
    /\ begun \cap AfterPivot # {} => step \in AfterPivot \cup {"completed"}
    /\ mode # "run" => step \in Capped
    /\ mode \in {"give up", "condemn"} => step \in BeforePivot
    /\ commits # {} => step = "CommitHold" /\ mode = "run"

\* nothing is committed but the winner's hold, and past the pivot it is
Spent ==
    /\ \A b \in Bids : holds[b] = "COMMITTED" =>
          /\ frozen.known /\ b = frozen.winner
          /\ step \in {"CommitHold", "completed"} \cup AfterPivot
          /\ mode \notin {"give up", "condemn"}
    /\ begun \cap AfterPivot # {} => holds[frozen.winner] = "COMMITTED"
    /\ mode = "resolve" /\ step = "CommitHold" => holds[frozen.winner] = "COMMITTED"

Statuses ==
    /\ frozen.known => listing.status \notin {"ACTIVE", "CANCELLED"}
    /\ listing.status = "EXPIRED" => "ExpireListing" \in begun
    /\ listing.status = "SETTLEMENT_FAILED" => "MarkSettlementFailed" \in begun
    /\ listing.status = "SOLD" => "MarkSold" \in begun

\* a record is there before the step after it begins
Records ==
    /\ "credit" \in recorded => "CreditSeller" \in begun
    /\ "transfer" \in recorded => "TransferItem" \in begun
    /\ begun \cap {"TransferItem", "AppendLedgerTx", "MarkSold"} # {} => "credit" \in recorded
    /\ begun \cap {"AppendLedgerTx", "MarkSold"} # {} => "transfer" \in recorded
    /\ "MarkSold" \in begun => "ledger" \in recorded
    /\ mode = "resolve" => /\ step = "CreditSeller" => "credit" \in recorded
                           /\ step = "TransferItem" => "transfer" \in recorded
                           /\ step = "AppendLedgerTx" => "ledger" \in recorded

\* the item is frozen for this sale, or delivered
Secured == "transfer" \in recorded \/ ReservedHere({"PENDING_SETTLEMENT"})

Goods ==
    /\ step \in {"SetWinningBid", "CommitHold"} \cup AfterPivot => Secured
    /\ mode = "resolve" /\ step = "FreezeItem" => Secured
    /\ "FreezeItem" \notin begun /\ item.listing = "here" => item.status = "LISTED"

Winner ==
    \/ step \in {"CommitHold"} \cup AfterPivot
    \/ mode = "resolve" /\ step = "SetWinningBid"
    => listing.bids[frozen.winner].status = "WON"

LetGo == theirs # NoItem => item = theirs /\ item.listing # "here"

Shown ==
    /\ ~RolledBack => open = IF raised /\ mode # "condemn" THEN {step} ELSE {}
    /\ RolledBack => alerted /\ ~raised
    /\ mode \in {"park", "resolve", "give up"} => raised
    /\ step \in {"none", "completed"} => ~raised

IInv ==
    /\ TypeOK /\ Control /\ Spent /\ Statuses /\ Records /\ Goods /\ Winner /\ LetGo /\ Shown

-----------------------------------------------------------------------------
(* What moving bids does to a listing.                                     *)

(* A bid is recorded exactly if it has a status of its own. *)
LEMMA BidKinds ==
    ASSUME NEW x \in Bid
    PROVE  /\ x = NoBid <=> x.status = "NONE"
           /\ x # NoBid => x \in [status : BidStatuses, amount : Nat \ {0}, led : BOOLEAN]
BY DEF Bid, NoBid, BidStatuses

(* Moving recorded bids to a status changes nothing else. *)
LEMMA MoveEffect ==
    ASSUME NEW l \in Listing, NEW B \in SUBSET Recorded(l), NEW s \in BidStatuses
    PROVE  /\ Move(l, B, s) \in Listing
           /\ \A c \in Bids : /\ Move(l, B, s).bids[c].amount = l.bids[c].amount
                              /\ c \in B => Move(l, B, s).bids[c].status = s
                              /\ c \notin B => Move(l, B, s).bids[c] = l.bids[c]
<1> DEFINE moved == [b \in Bids |-> IF b \in B THEN [l.bids[b] EXCEPT !.status = s] ELSE l.bids[b]]
<1>1. ASSUME NEW c \in Bids
      PROVE  /\ moved[c] \in Bid /\ moved[c].amount = l.bids[c].amount
             /\ c \in B => moved[c].status = s
             /\ c \notin B => moved[c] = l.bids[c]
  <2>1. l.bids[c] \in Bid
    BY DEF Listing
  <2>2. CASE c \in B
    <3>1. l.bids[c] \in [status : BidStatuses, amount : Nat \ {0}, led : BOOLEAN]
      BY <2>1, <2>2, BidKinds DEF Recorded
    <3> QED BY <2>2, <3>1 DEF Bid
  <2>3. CASE c \notin B
    BY <2>1, <2>3
  <2> QED BY <2>2, <2>3
<1>2. Move(l, B, s) = [l EXCEPT !.bids = moved]
  BY DEF Move
<1>3. moved \in [Bids -> Bid]
  BY <1>1
<1> HIDE DEF moved
<1> QED BY <1>1, <1>2, <1>3 DEF Listing

-----------------------------------------------------------------------------
(* The order of the steps.                                                 *)

LEMMA SalePathOrder ==
    /\ DOMAIN SalePath = 1..10
    /\ SalePath[1] = "FreezeListing"
    /\ SalePath[2] = "FreezeItem"
    /\ SalePath[3] = "SetWinningBid"
    /\ SalePath[4] = "CommitHold"
    /\ SalePath[5] = "ReleaseLosingHolds"
    /\ SalePath[6] = "CreditSeller"
    /\ SalePath[7] = "TransferItem"
    /\ SalePath[8] = "AppendLedgerTx"
    /\ SalePath[9] = "MarkSold"
    /\ SalePath[10] = "completed"
BY DEF SalePath

LEMMA SalePathNext ==
    ASSUME NEW f, f.winner # NoBidId
    PROVE  /\ After("FreezeListing", f) = "FreezeItem"
           /\ After("FreezeItem", f) = "SetWinningBid"
           /\ After("SetWinningBid", f) = "CommitHold"
           /\ After("CommitHold", f) = "ReleaseLosingHolds"
           /\ After("ReleaseLosingHolds", f) = "CreditSeller"
           /\ After("CreditSeller", f) = "TransferItem"
           /\ After("TransferItem", f) = "AppendLedgerTx"
           /\ After("AppendLedgerTx", f) = "MarkSold"
           /\ After("MarkSold", f) = "completed"
<1>1. (CHOOSE i \in DOMAIN SalePath : SalePath[i] = "FreezeListing") = 1
  BY SalePathOrder
<1>2. (CHOOSE i \in DOMAIN SalePath : SalePath[i] = "FreezeItem") = 2
  BY SalePathOrder
<1>3. (CHOOSE i \in DOMAIN SalePath : SalePath[i] = "SetWinningBid") = 3
  BY SalePathOrder
<1>4. (CHOOSE i \in DOMAIN SalePath : SalePath[i] = "CommitHold") = 4
  BY SalePathOrder
<1>5. (CHOOSE i \in DOMAIN SalePath : SalePath[i] = "ReleaseLosingHolds") = 5
  BY SalePathOrder
<1>6. (CHOOSE i \in DOMAIN SalePath : SalePath[i] = "CreditSeller") = 6
  BY SalePathOrder
<1>7. (CHOOSE i \in DOMAIN SalePath : SalePath[i] = "TransferItem") = 7
  BY SalePathOrder
<1>8. (CHOOSE i \in DOMAIN SalePath : SalePath[i] = "AppendLedgerTx") = 8
  BY SalePathOrder
<1>9. (CHOOSE i \in DOMAIN SalePath : SalePath[i] = "MarkSold") = 9
  BY SalePathOrder
<1> QED BY <1>1, <1>2, <1>3, <1>4, <1>5, <1>6, <1>7, <1>8, <1>9, SalePathOrder DEF After, Rollback

LEMMA NoBidsPathOrder ==
    /\ DOMAIN NoBidsPath = 1..4
    /\ NoBidsPath[1] = "FreezeListing"
    /\ NoBidsPath[2] = "ReturnItem"
    /\ NoBidsPath[3] = "ExpireListing"
    /\ NoBidsPath[4] = "completed"
BY DEF NoBidsPath

LEMMA NoBidsPathNext ==
    ASSUME NEW f, f.winner = NoBidId
    PROVE  /\ After("FreezeListing", f) = "ReturnItem"
           /\ After("ReturnItem", f) = "ExpireListing"
           /\ After("ExpireListing", f) = "completed"
<1>1. (CHOOSE i \in DOMAIN NoBidsPath : NoBidsPath[i] = "FreezeListing") = 1
  BY NoBidsPathOrder
<1>2. (CHOOSE i \in DOMAIN NoBidsPath : NoBidsPath[i] = "ReturnItem") = 2
  BY NoBidsPathOrder
<1>3. (CHOOSE i \in DOMAIN NoBidsPath : NoBidsPath[i] = "ExpireListing") = 3
  BY NoBidsPathOrder
<1> QED BY <1>1, <1>2, <1>3, NoBidsPathOrder DEF After, Rollback

LEMMA RollbackPathOrder ==
    /\ DOMAIN RollbackPath = 1..5
    /\ RollbackPath[1] = "MarkSettlementFailed"
    /\ RollbackPath[2] = "LoseAllBids"
    /\ RollbackPath[3] = "ReleaseAllHolds"
    /\ RollbackPath[4] = "UnfreezeItem"
    /\ RollbackPath[5] = "failed"
BY DEF RollbackPath

LEMMA RollbackPathNext ==
    ASSUME NEW f
    PROVE  /\ f.known => After("MarkSettlementFailed", f) = "LoseAllBids"
           /\ After("LoseAllBids", f) = "ReleaseAllHolds"
           /\ After("ReleaseAllHolds", f) = "UnfreezeItem"
           /\ After("UnfreezeItem", f) = "failed"
           /\ ~f.known => After("MarkSettlementFailed", f) = "failed"
<1>1. (CHOOSE i \in DOMAIN RollbackPath : RollbackPath[i] = "MarkSettlementFailed") = 1
  BY RollbackPathOrder
<1>2. (CHOOSE i \in DOMAIN RollbackPath : RollbackPath[i] = "LoseAllBids") = 2
  BY RollbackPathOrder
<1>3. (CHOOSE i \in DOMAIN RollbackPath : RollbackPath[i] = "ReleaseAllHolds") = 3
  BY RollbackPathOrder
<1>4. (CHOOSE i \in DOMAIN RollbackPath : RollbackPath[i] = "UnfreezeItem") = 4
  BY RollbackPathOrder
<1> QED BY <1>1, <1>2, <1>3, <1>4, RollbackPathOrder DEF After, Rollback

-----------------------------------------------------------------------------
(* What an activity that lands does.                                       *)

Here(i) == i.listing = "here"
Frozen(i) == Here(i) /\ i.status = "PENDING_SETTLEMENT"
LegalItems == [status : {"NONE", "AVAILABLE", "LISTED", "PENDING_SETTLEMENT"},
               owner : Members, listing : {"none", "here", "other"}]

LEMMA WinnerIsBid == ASSUME TypeOK, frozen.winner # NoBidId PROVE frozen.winner \in Bids
BY DEF TypeOK

LEMMA ListingFreezes ==
    ASSUME TypeOK, OnListing(MayFreeze(listing), Freeze(listing))
    PROVE  /\ listing' \in Listing /\ listing'.bids = listing.bids
           /\ listing.status \in {"ACTIVE", "PENDING_SETTLEMENT"} /\ listing'.status = "PENDING_SETTLEMENT"
BY DEF TypeOK, OnListing, MayFreeze, Freeze, CanTransition, Listing, ListingStatuses

LEMMA ListingExpires ==
    ASSUME TypeOK, OnListing(MayExpire(listing), Expire(listing))
    PROVE  /\ listing' \in Listing /\ listing'.bids = listing.bids
           /\ listing.status \in {"EXPIRED", "PENDING_SETTLEMENT"} /\ listing'.status = "EXPIRED"
BY DEF TypeOK, OnListing, MayExpire, Expire, Listing, ListingStatuses

LEMMA ListingFails ==
    ASSUME TypeOK, OnListing(TRUE, MarkSettlementFailed(listing))
    PROVE  /\ listing' \in Listing /\ listing'.bids = listing.bids
           /\ \/ listing'.status = listing.status
              \/ listing.status = "PENDING_SETTLEMENT" /\ listing'.status = "SETTLEMENT_FAILED"
BY DEF TypeOK, OnListing, MarkSettlementFailed, Listing, ListingStatuses

LEMMA ListingSold ==
    ASSUME TypeOK, OnListing(MayMarkSold(listing), MarkSold(listing))
    PROVE  /\ listing' \in Listing /\ listing'.bids = listing.bids
           /\ listing.status \in {"SOLD", "PENDING_SETTLEMENT"} /\ listing'.status = "SOLD"
<1>1. CASE listing.status = "SOLD"
  BY <1>1 DEF TypeOK, OnListing, MarkSold
<1>2. CASE listing.status # "SOLD"
  <2>1. listing.status = "PENDING_SETTLEMENT" /\ Having(listing, {"WON"}) # {}
    BY <1>2 DEF OnListing, MayMarkSold
  <2>2. PICK won \in Having(listing, {"WON"}) :
            listing' = [listing EXCEPT !.status = "SOLD",
                           !.sold = [buyer |-> Bidder[won], price |-> listing.bids[won].amount]]
    BY <1>2, <2>1 DEF OnListing, MarkSold
  <2>3. won \in Bids /\ listing.bids[won] \in Bid /\ listing.bids[won].status = "WON"
    BY DEF Having, TypeOK, Listing
  <2>4. listing.bids[won].amount \in Nat \ {0} /\ Bidder[won] \in Members
    BY <2>3, BidKinds, ListingConstants DEF NoBid
  <2>5. [buyer |-> Bidder[won], price |-> listing.bids[won].amount] \in Sale
    BY <2>4 DEF Sale
  <2> QED BY <2>1, <2>2, <2>5 DEF TypeOK, Listing, ListingStatuses
<1> QED BY <1>1, <1>2

LEMMA WinnerSet ==
    ASSUME TypeOK, frozen.winner # NoBidId,
           OnListing(MaySetWinningBid(listing, Won), SetWinningBid(listing, Won))
    PROVE  /\ listing' \in Listing /\ listing'.status = listing.status
           /\ listing'.bids[frozen.winner].status = "WON"
<1>1. Won \in Bids /\ listing \in Listing
  BY WinnerIsBid DEF Won, TypeOK
<1>2. Won \in Recorded(listing)
  BY <1>1 DEF OnListing, MaySetWinningBid, CanBidTransition, Recorded, NoBid
<1>3. listing' = Move(listing, {Won}, "WON")
  BY DEF OnListing, SetWinningBid
<1>4. {Won} \in SUBSET Recorded(listing) /\ "WON" \in BidStatuses
  BY <1>2 DEF BidStatuses
<1>5. Move(listing, {Won}, "WON") \in Listing /\ Move(listing, {Won}, "WON").bids[Won].status = "WON"
  BY <1>1, <1>4, MoveEffect
<1>6. Move(listing, {Won}, "WON").status = listing.status
  BY <1>1 DEF Move, Listing
<1> QED BY <1>3, <1>5, <1>6 DEF Won

LEMMA BidsLost ==
    ASSUME TypeOK, OnListing(TRUE, LoseAllBids(listing))
    PROVE  listing' \in Listing /\ listing'.status = listing.status
<1>1. Recorded(listing) \ Having(listing, {"CANCELLED", "FAILED", "LOST"}) \in SUBSET Recorded(listing)
  OBVIOUS
<1>2. listing \in Listing /\ "LOST" \in BidStatuses
  BY DEF TypeOK, BidStatuses
<1>3. LoseAllBids(listing) \in Listing
  BY ZenonT(40), <1>1, <1>2, MoveEffect DEF LoseAllBids
<1>4. LoseAllBids(listing).status = listing.status
  BY <1>2 DEF LoseAllBids, Move, Listing
<1> QED BY <1>3, <1>4 DEF OnListing

(* Writes to the item only touch it while this listing holds it. *)
LEMMA ItemReturned ==
    ASSUME TypeOK, ReturnItem
    PROVE  /\ item' \in LegalItems /\ UNCHANGED <<listing, holds, recorded>>
           /\ ~Frozen(item) /\ (item' = item \/ ~Here(item')) /\ (~Here(item) => item' = item)
BY DEF TypeOK, ReturnItem, OnItem, MayReturnItem, ReservedHere, Freed, Item, Here, Frozen, LegalItems

LEMMA ItemUnfrozen ==
    ASSUME TypeOK, UnfreezeItem
    PROVE  /\ item' \in LegalItems /\ UNCHANGED <<listing, holds, recorded>>
           /\ (item' = item \/ ~Here(item')) /\ (~Here(item) => item' = item)
BY DEF TypeOK, UnfreezeItem, OnItem, MayFreezeItem, ReservedHere, Freed, Item, Here, LegalItems

LEMMA ItemFrozen ==
    ASSUME TypeOK, OnItem(MayFreezeItem, [item EXCEPT !.status = "PENDING_SETTLEMENT"])
    PROVE  /\ item' \in LegalItems /\ UNCHANGED <<listing, holds, recorded>>
           /\ Frozen(item') /\ Here(item)
BY DEF TypeOK, OnItem, MayFreezeItem, ReservedHere, Here, Frozen, LegalItems

LEMMA ItemTransferred ==
    ASSUME TypeOK, frozen.winner # NoBidId, TransferItem
    PROVE  /\ item' \in LegalItems /\ UNCHANGED <<listing, holds>>
           /\ recorded' = recorded \cup {"transfer"}
           /\ (item' = item \/ ~Here(item')) /\ (~Here(item) => item' = item)
<1>1. Bidder[Won] \in Members
  BY WinnerIsBid, ListingConstants DEF Won
<1>2. CASE "transfer" \in recorded
  BY <1>2 DEF TypeOK, TransferItem, LegalItems
<1>3. CASE "transfer" \notin recorded
  BY <1>1, <1>3 DEF TypeOK, TransferItem, MayTransferItem, ReservedHere, Item, Here, LegalItems
<1> QED BY <1>2, <1>3

LEMMA HoldCommitted ==
    ASSUME TypeOK, frozen.winner # NoBidId, NEW late, CommitHold(late)
    PROVE  /\ holds' \in [Bids -> {"NONE", "RESERVED", "COMMITTED", "RELEASED"}]
           /\ UNCHANGED <<listing, item, recorded>>
           /\ holds[frozen.winner] \in {"RESERVED", "COMMITTED"} /\ holds'[frozen.winner] = "COMMITTED"
           /\ \A b \in Bids \ {frozen.winner} : holds'[b] = holds[b]
BY WinnerIsBid DEF TypeOK, CommitHold, MayCommit, Won

Lands(a) ==
    \/ a # "CommitHold" /\ Perform(a)
    \/ a = "CommitHold" /\ \E late \in commits : CommitHold(late)

StatusMoves(a) ==
    \/ listing'.status = listing.status
    \/ a = "FreezeListing" /\ listing.status = "ACTIVE" /\ listing'.status = "PENDING_SETTLEMENT"
    \/ a = "ExpireListing" /\ listing.status = "PENDING_SETTLEMENT" /\ listing'.status = "EXPIRED"
    \/ a = "MarkSold" /\ listing.status = "PENDING_SETTLEMENT" /\ listing'.status = "SOLD"
    \/ /\ a = "MarkSettlementFailed"
       /\ listing.status = "PENDING_SETTLEMENT" /\ listing'.status = "SETTLEMENT_FAILED"

ListingMoves(a) ==
    /\ listing' \in Listing
    /\ StatusMoves(a)
    /\ a = "FreezeListing" => listing'.status = "PENDING_SETTLEMENT"
    /\ a = "SetWinningBid" => listing'.bids[frozen.winner].status = "WON"
    /\ \/ listing'.bids = listing.bids
       \/ a = "LoseAllBids"
       \/ a = "SetWinningBid"

HoldsMove(a) ==
    /\ holds' \in [Bids -> {"NONE", "RESERVED", "COMMITTED", "RELEASED"}]
    /\ \/ holds' = holds
       \/ /\ a = "CommitHold" /\ step = "CommitHold" /\ mode = "run" /\ frozen.known
          /\ holds[frozen.winner] \in {"RESERVED", "COMMITTED"}
          /\ holds'[frozen.winner] = "COMMITTED"
          /\ \A b \in Bids \ {frozen.winner} : holds'[b] = holds[b]
    /\ a = "CommitHold" => holds'[frozen.winner] = "COMMITTED"

RecordsMove(a) ==
    \/ recorded' = recorded /\ a \notin {"CreditSeller", "TransferItem", "AppendLedgerTx"}
    \/ a = "CreditSeller" /\ recorded' = recorded \cup {"credit"}
    \/ a = "TransferItem" /\ recorded' = recorded \cup {"transfer"}
    \/ a = "AppendLedgerTx" /\ recorded' = recorded \cup {"ledger"}

ItemMoves(a) ==
    /\ item' \in LegalItems
    /\ ~Here(item) => item' = item
    /\ \/ item' = item
       \/ ~Here(item') /\ (Frozen(item) => a \in {"UnfreezeItem", "TransferItem"})
       \/ a = "FreezeItem"
    /\ a = "FreezeItem" => Frozen(item')

LandsTo(a) == ListingMoves(a) /\ HoldsMove(a) /\ RecordsMove(a) /\ ItemMoves(a)

LEMMA LandsEffect ==
    ASSUME IInv, NEW a \in begun, Lands(a)
    PROVE  LandsTo(a)
<1> USE DEF LandsTo, ListingMoves, StatusMoves, HoldsMove, RecordsMove, ItemMoves
<1>0. /\ TypeOK /\ listing \in Listing /\ item \in LegalItems
      /\ holds \in [Bids -> {"NONE", "RESERVED", "COMMITTED", "RELEASED"}]
      /\ a \in Activities
  BY DEF IInv, TypeOK, LegalItems
<1>w. a \in {"SetWinningBid", "TransferItem", "FreezeItem", "CommitHold"} => frozen.winner # NoBidId
  BY DEF IInv, Control, NoBidsSteps
<1>1. CASE a = "FreezeListing"
  <2>1. OnListing(MayFreeze(listing), Freeze(listing))
    BY <1>1 DEF Lands, Perform
  <2>2. UNCHANGED <<holds, item, recorded>>
    BY <2>1 DEF OnListing, OnItem, Record, TransferItem, CommitHold, ReturnItem, UnfreezeItem, remote
  <2> QED BY <1>0, <1>w, <1>1, <2>1, <2>2, ListingFreezes
<1>2. CASE a = "ExpireListing"
  <2>1. OnListing(MayExpire(listing), Expire(listing))
    BY <1>2 DEF Lands, Perform
  <2>2. UNCHANGED <<holds, item, recorded>>
    BY <2>1 DEF OnListing, OnItem, Record, TransferItem, CommitHold, ReturnItem, UnfreezeItem, remote
  <2> QED BY <1>0, <1>w, <1>2, <2>1, <2>2, ListingExpires
<1>3. CASE a = "SetWinningBid"
  <2>1. OnListing(MaySetWinningBid(listing, Won), SetWinningBid(listing, Won))
    BY <1>3 DEF Lands, Perform
  <2>2. UNCHANGED <<holds, item, recorded>>
    BY <2>1 DEF OnListing, OnItem, Record, TransferItem, CommitHold, ReturnItem, UnfreezeItem, remote
  <2> QED BY <1>0, <1>w, <1>3, <2>1, <2>2, WinnerSet
<1>4. CASE a = "MarkSold"
  <2>1. OnListing(MayMarkSold(listing), MarkSold(listing))
    BY <1>4 DEF Lands, Perform
  <2>2. UNCHANGED <<holds, item, recorded>>
    BY <2>1 DEF OnListing, OnItem, Record, TransferItem, CommitHold, ReturnItem, UnfreezeItem, remote
  <2> QED BY <1>0, <1>w, <1>4, <2>1, <2>2, ListingSold
<1>5. CASE a = "MarkSettlementFailed"
  <2>1. OnListing(TRUE, MarkSettlementFailed(listing))
    BY <1>5 DEF Lands, Perform
  <2>2. UNCHANGED <<holds, item, recorded>>
    BY <2>1 DEF OnListing, OnItem, Record, TransferItem, CommitHold, ReturnItem, UnfreezeItem, remote
  <2> QED BY <1>0, <1>w, <1>5, <2>1, <2>2, ListingFails
<1>6. CASE a = "LoseAllBids"
  <2>1. OnListing(TRUE, LoseAllBids(listing))
    BY <1>6 DEF Lands, Perform
  <2>2. UNCHANGED <<holds, item, recorded>>
    BY <2>1 DEF OnListing, OnItem, Record, TransferItem, CommitHold, ReturnItem, UnfreezeItem, remote
  <2> QED BY <1>0, <1>w, <1>6, <2>1, <2>2, BidsLost
<1>7. CASE a = "FreezeItem"
  <2>1. OnItem(MayFreezeItem, [item EXCEPT !.status = "PENDING_SETTLEMENT"])
    BY <1>7 DEF Lands, Perform
  <2>2. UNCHANGED <<listing, holds, recorded>>
    BY <2>1 DEF OnListing, OnItem, Record, TransferItem, CommitHold, ReturnItem, UnfreezeItem, remote
  <2> QED BY <1>0, <1>w, <1>7, <2>1, <2>2, ItemFrozen
<1>8. CASE a = "ReturnItem"
  <2>1. ReturnItem
    BY <1>8 DEF Lands, Perform
  <2>2. UNCHANGED <<listing, holds, recorded>>
    BY <2>1 DEF OnListing, OnItem, Record, TransferItem, CommitHold, ReturnItem, UnfreezeItem, remote
  <2> QED BY <1>0, <1>w, <1>8, <2>1, <2>2, ItemReturned
<1>9. CASE a = "UnfreezeItem"
  <2>1. UnfreezeItem
    BY <1>9 DEF Lands, Perform
  <2>2. UNCHANGED <<listing, holds, recorded>>
    BY <2>1 DEF OnListing, OnItem, Record, TransferItem, CommitHold, ReturnItem, UnfreezeItem, remote
  <2> QED BY <1>0, <1>w, <1>9, <2>1, <2>2, ItemUnfrozen
<1>10. CASE a = "TransferItem"
  <2>1. TransferItem
    BY <1>10 DEF Lands, Perform
  <2>2. UNCHANGED <<listing, holds>>
    BY <2>1 DEF OnListing, OnItem, Record, TransferItem, CommitHold, ReturnItem, UnfreezeItem, remote
  <2> QED BY <1>0, <1>w, <1>10, <2>1, <2>2, ItemTransferred
<1>11. CASE a = "CreditSeller"
  <2>1. Record("credit")
    BY <1>11 DEF Lands, Perform
  <2>2. UNCHANGED <<listing, holds, item>>
    BY <2>1 DEF OnListing, OnItem, Record, TransferItem, CommitHold, ReturnItem, UnfreezeItem, remote
  <2> QED BY <1>0, <1>w, <1>11, <2>1, <2>2 DEF Record
<1>12. CASE a = "AppendLedgerTx"
  <2>1. Record("ledger")
    BY <1>12 DEF Lands, Perform
  <2>2. UNCHANGED <<listing, holds, item>>
    BY <2>1 DEF OnListing, OnItem, Record, TransferItem, CommitHold, ReturnItem, UnfreezeItem, remote
  <2> QED BY <1>0, <1>w, <1>12, <2>1, <2>2 DEF Record
<1>13. CASE a = "CommitHold"
  <2>1. PICK late \in commits : CommitHold(late)
    BY <1>13 DEF Lands
  <2>2. step = "CommitHold" /\ mode = "run" /\ frozen.known
    BY <2>1 DEF IInv, Control
  <2> QED BY <1>0, <1>w, <1>13, <2>1, <2>2, HoldCommitted
<1>14. CASE a \in {"ReleaseLosingHolds", "ReleaseAllHolds"}
  <2>1. UNCHANGED <<listing, holds, item, recorded>>
    BY <1>14 DEF Lands, Perform, remote
  <2> QED BY <1>0, <1>14, <2>1
<1> QED BY <1>0, <1>1, <1>2, <1>3, <1>4, <1>5, <1>6, <1>7, <1>8, <1>9, <1>10, <1>11, <1>12, <1>13, <1>14
        DEF Activities, Capped, BeforePivot, AfterPivot, NoBidsSteps, Rollback

-----------------------------------------------------------------------------
(* Every action preserves the invariant.                                   *)

(* An attempt that lands late finds the state of its own path. *)
LEMMA StepLate ==
    ASSUME IInv, NEW a \in begun, LandsTo(a),
           UNCHANGED <<lapsed, commits, theirs, run, exceptions, takedown>>
    PROVE  IInv'
<1>n. UNCHANGED <<lapsed, commits, theirs, step, mode, raised, frozen, begun, open, alerted,
                  withdrawal, marked>>
  BY DEF run, exceptions, takedown
<1>l. ListingMoves(a) /\ HoldsMove(a) /\ RecordsMove(a) /\ ItemMoves(a)
  BY DEF LandsTo
<1>r. RolledBack => step \notin {"SetWinningBid", "CommitHold", "FreezeItem"} \cup AfterPivot
  BY DEF RolledBack, Rollback, AfterPivot
<1>u. a \in {"UnfreezeItem", "LoseAllBids"} => RolledBack
  BY DEF IInv, Control, Rollback
<1>w. a \in {"SetWinningBid", "CommitHold"} => frozen.winner \in Bids
  BY WinnerIsBid DEF IInv, Control, NoBidsSteps
<1>t. item' \in LegalItems /\ theirs' \in LegalItems /\ recorded' \subseteq {"credit", "transfer", "ledger"}
  BY <1>n, <1>l DEF IInv, TypeOK, ItemMoves, RecordsMove, LegalItems
<1>1. TypeOK'
  <2>1. listing' \in Listing /\ holds' \in [Bids -> {"NONE", "RESERVED", "COMMITTED", "RELEASED"}]
    BY <1>l DEF ListingMoves, HoldsMove
  <2>2. item' \in LegalItems /\ theirs' \in LegalItems /\ recorded' \subseteq {"credit", "transfer", "ledger"}
    BY <1>t
  <2>3. lapsed' \in BOOLEAN /\ commits' \subseteq BOOLEAN /\ raised' \in BOOLEAN /\ alerted' \in BOOLEAN /\ marked' \in BOOLEAN
    BY <1>n DEF IInv, TypeOK
  <2>4. /\ step' \in Activities \cup {"none", "completed", "failed"}
        /\ mode' \in {"run", "raise", "park", "resolve", "give up", "condemn"}
        /\ begun' \subseteq Activities
    BY <1>n DEF IInv, TypeOK
  <2>5. frozen' \in [known : BOOLEAN, winner : Bids \cup {NoBidId}] /\ withdrawal' \in {"none", "started", "returned"}
    BY <1>n DEF IInv, TypeOK
  <2>6. open' \subseteq Capped
    BY <1>n DEF IInv, TypeOK
  <2> QED BY <2>1, <2>2, <2>3, <2>4, <2>5, <2>6 DEF TypeOK, LegalItems
<1>2. Control'
  BY <1>n, <1>l, <1>r, <1>u, <1>w DEF IInv, Control, RolledBack, Activities, Capped, BeforePivot, AfterPivot, NoBidsSteps, Rollback
<1>3. Spent'
  BY <1>n, <1>l, <1>r, <1>u, <1>w DEF IInv, Spent, Activities, Capped, BeforePivot, AfterPivot, NoBidsSteps, Rollback, HoldsMove
<1>4. Statuses'
  BY <1>n, <1>l, <1>r, <1>u, <1>w DEF IInv, Statuses, ListingMoves, StatusMoves
<1>5. Records'
  BY <1>n, <1>l, <1>r, <1>u, <1>w DEF IInv, Records, RecordsMove
<1>6. Goods'
  BY <1>n, <1>l, <1>r, <1>u, <1>w DEF IInv, Goods, Secured, ReservedHere, Frozen, Here, Activities, Capped, BeforePivot, AfterPivot, NoBidsSteps, Rollback, RecordsMove, ItemMoves
<1>7. Winner'
  BY <1>n, <1>l, <1>r, <1>u, <1>w DEF IInv, Winner, Activities, Capped, BeforePivot, AfterPivot, NoBidsSteps, Rollback, ListingMoves
<1>8. LetGo'
  BY <1>n, <1>l, <1>r, <1>u, <1>w DEF IInv, LetGo, Here, ItemMoves
<1>9. Shown'
  BY <1>n, <1>l, <1>r, <1>u, <1>w DEF IInv, Shown, RolledBack, Activities, Capped, BeforePivot, AfterPivot, NoBidsSteps, Rollback
<1> QED BY <1>1, <1>2, <1>3, <1>4, <1>5, <1>6, <1>7, <1>8, <1>9 DEF IInv

(* What follows a step. *)
LEMMA Successor ==
    ASSUME IInv, step \in Activities, step' = After(step, frozen'),
           step = "FreezeListing" => frozen'.known, step # "FreezeListing" => frozen' = frozen
    PROVE  \/ frozen'.known /\ frozen'.winner # NoBidId
              /\ \/ step = "FreezeListing" /\ step' = "FreezeItem"
                 \/ step = "FreezeItem" /\ step' = "SetWinningBid"
                 \/ step = "SetWinningBid" /\ step' = "CommitHold"
                 \/ step = "CommitHold" /\ step' = "ReleaseLosingHolds"
                 \/ step = "ReleaseLosingHolds" /\ step' = "CreditSeller"
                 \/ step = "CreditSeller" /\ step' = "TransferItem"
                 \/ step = "TransferItem" /\ step' = "AppendLedgerTx"
                 \/ step = "AppendLedgerTx" /\ step' = "MarkSold"
                 \/ step = "MarkSold" /\ step' = "completed"
           \/ frozen'.known /\ frozen'.winner = NoBidId
              /\ \/ step = "FreezeListing" /\ step' = "ReturnItem"
                 \/ step = "ReturnItem" /\ step' = "ExpireListing"
                 \/ step = "ExpireListing" /\ step' = "completed"
           \/ ~frozen'.known /\ step = "MarkSettlementFailed" /\ step' = "failed"
           \/ frozen'.known /\ frozen'.winner # NoBidId
              /\ \/ step = "MarkSettlementFailed" /\ step' = "LoseAllBids"
                 \/ step = "LoseAllBids" /\ step' = "ReleaseAllHolds"
                 \/ step = "ReleaseAllHolds" /\ step' = "UnfreezeItem"
                 \/ step = "UnfreezeItem" /\ step' = "failed"
<1>1. CASE step = "FreezeListing"
  BY <1>1, SalePathNext, NoBidsPathNext
<1>2. CASE step \in {"FreezeItem", "SetWinningBid", "CommitHold"} \cup AfterPivot
  <2>1. frozen' = frozen /\ frozen.known /\ frozen.winner # NoBidId
    BY <1>2 DEF IInv, Control, AfterPivot, NoBidsSteps
  <2> QED BY <1>2, <2>1, SalePathNext DEF AfterPivot
<1>3. CASE step \in NoBidsSteps
  <2>1. frozen' = frozen /\ frozen.known /\ frozen.winner = NoBidId
    BY <1>3 DEF IInv, Control, NoBidsSteps
  <2> QED BY <1>3, <2>1, NoBidsPathNext DEF NoBidsSteps
<1>4. CASE step \in Rollback
  <2>1. frozen' = frozen /\ (step # "MarkSettlementFailed" => frozen.known)
    BY <1>4 DEF IInv, Control, Rollback
  <2>2. frozen.known => frozen.winner # NoBidId
    BY <1>4 DEF IInv, Control, Rollback, NoBidsSteps
  <2> QED BY <1>4, <2>1, <2>2, RollbackPathNext DEF Rollback
<1> QED BY <1>1, <1>2, <1>3, <1>4 DEF Activities, Capped, BeforePivot

(* The step's work is done, now or before its exception was resolved, and the
   next step begins. *)
LEMMA StepOn ==
    ASSUME IInv, step \in Activities, Goto(After(step, frozen')),
           \/ mode = "run" /\ LandsTo(step)
           \/ mode = "resolve" /\ UNCHANGED <<listing, holds, item, recorded>>,
           frozen' \in [known : BOOLEAN, winner : Bids \cup {NoBidId}],
           step = "FreezeListing" => frozen'.known, step # "FreezeListing" => frozen' = frozen,
           step = "FreezeListing" /\ mode = "resolve" => frozen' = frozen,
           commits' = {}, open' \subseteq open, ~RolledBack => open' = {}, UNCHANGED <<lapsed, theirs, alerted, takedown>>
    PROVE  IInv'
<1>n. UNCHANGED <<lapsed, theirs, alerted, withdrawal, marked>> /\ commits' = {}
  BY DEF takedown
<1>g. mode' = "run" /\ raised' = FALSE /\ begun' = begun \cup ({step'} \cap Activities)
  BY DEF Goto
<1>s. step \in begun /\ step' = After(step, frozen')
  BY DEF IInv, Control, Goto
<1>m. mode = "run" => ListingMoves(step) /\ HoldsMove(step) /\ RecordsMove(step) /\ ItemMoves(step)
  BY DEF LandsTo
<1>w. /\ step \in {"SetWinningBid", "CommitHold"} \cup AfterPivot => frozen.winner \in Bids /\ frozen.known /\ frozen' = frozen
      /\ step = "FreezeListing" => frozen.known \/ mode = "run"
  BY WinnerIsBid DEF IInv, Control, NoBidsSteps, AfterPivot
<1>t. /\ listing' \in Listing /\ holds' \in [Bids -> {"NONE", "RESERVED", "COMMITTED", "RELEASED"}]
      /\ item' \in LegalItems /\ theirs' \in LegalItems
      /\ recorded' \subseteq {"credit", "transfer", "ledger"}
  BY <1>m, <1>n DEF IInv, TypeOK, ListingMoves, HoldsMove, ItemMoves, RecordsMove, LegalItems
<1>h. /\ \A b \in Bids : holds'[b] = "COMMITTED" => holds[b] = "COMMITTED" \/ (step = "CommitHold" /\ b = frozen.winner)
      /\ \A b \in Bids : holds[b] = "COMMITTED" => holds'[b] = "COMMITTED"
      /\ step = "CommitHold" => holds'[frozen.winner] = "COMMITTED"
  BY <1>m, <1>w DEF IInv, TypeOK, HoldsMove, Spent
<1>z. StatusMoves(step) /\ (step = "FreezeListing" => listing'.status \notin {"ACTIVE", "CANCELLED"})
  BY <1>m, <1>w DEF ListingMoves, StatusMoves, IInv, Statuses
<1>q. /\ recorded \subseteq recorded'
      /\ "credit" \in recorded' => "credit" \in recorded \/ step = "CreditSeller"
      /\ "transfer" \in recorded' => "transfer" \in recorded \/ step = "TransferItem"
      /\ step = "CreditSeller" => "credit" \in recorded'
      /\ step = "TransferItem" => "transfer" \in recorded'
      /\ step = "AppendLedgerTx" => "ledger" \in recorded'
  BY <1>m DEF RecordsMove, IInv, Records
<1>i. /\ Secured /\ step # "UnfreezeItem" => Secured'
      /\ step = "FreezeItem" => Secured'
      /\ "FreezeItem" \notin begun /\ Here(item') => item'.status = "LISTED"
      /\ ~Here(item) => item' = item
  BY <1>m, <1>q, <1>s DEF ItemMoves, Secured, ReservedHere, Frozen, Here, IInv, Goods
<1>b. /\ step \in {"CommitHold"} \cup AfterPivot => listing'.bids[frozen.winner].status = "WON"
      /\ step = "SetWinningBid" => listing'.bids[frozen.winner].status = "WON"
  BY <1>m DEF ListingMoves, IInv, Winner, AfterPivot
<1>o. open' \subseteq Capped
  BY DEF IInv, TypeOK
<1>f. \/ frozen'.known /\ frozen'.winner # NoBidId
         /\ \/ step = "FreezeListing" /\ step' = "FreezeItem"
            \/ step = "FreezeItem" /\ step' = "SetWinningBid"
            \/ step = "SetWinningBid" /\ step' = "CommitHold"
            \/ step = "CommitHold" /\ step' = "ReleaseLosingHolds"
            \/ step = "ReleaseLosingHolds" /\ step' = "CreditSeller"
            \/ step = "CreditSeller" /\ step' = "TransferItem"
            \/ step = "TransferItem" /\ step' = "AppendLedgerTx"
            \/ step = "AppendLedgerTx" /\ step' = "MarkSold"
            \/ step = "MarkSold" /\ step' = "completed"
      \/ frozen'.known /\ frozen'.winner = NoBidId
         /\ \/ step = "FreezeListing" /\ step' = "ReturnItem"
            \/ step = "ReturnItem" /\ step' = "ExpireListing"
            \/ step = "ExpireListing" /\ step' = "completed"
      \/ ~frozen'.known /\ step = "MarkSettlementFailed" /\ step' = "failed"
      \/ frozen'.known /\ frozen'.winner # NoBidId
         /\ \/ step = "MarkSettlementFailed" /\ step' = "LoseAllBids"
            \/ step = "LoseAllBids" /\ step' = "ReleaseAllHolds"
            \/ step = "ReleaseAllHolds" /\ step' = "UnfreezeItem"
            \/ step = "UnfreezeItem" /\ step' = "failed"
  BY <1>s, Successor
<1>r. RolledBack' <=> RolledBack
  BY <1>f DEF RolledBack, Rollback
<1>1. TypeOK'
  <2>1. listing' \in Listing /\ holds' \in [Bids -> {"NONE", "RESERVED", "COMMITTED", "RELEASED"}]
    BY <1>t
  <2>2. item' \in LegalItems /\ theirs' \in LegalItems /\ recorded' \subseteq {"credit", "transfer", "ledger"}
    BY <1>t
  <2>3. lapsed' \in BOOLEAN /\ commits' \subseteq BOOLEAN /\ raised' \in BOOLEAN /\ alerted' \in BOOLEAN /\ marked' \in BOOLEAN
    BY <1>n, <1>g DEF IInv, TypeOK
  <2>4. /\ step' \in Activities \cup {"none", "completed", "failed"}
        /\ mode' \in {"run", "raise", "park", "resolve", "give up", "condemn"}
        /\ begun' \subseteq Activities
    BY <1>g, <1>f DEF IInv, TypeOK, Activities, Capped, BeforePivot, AfterPivot, NoBidsSteps, Rollback
  <2>5. frozen' \in [known : BOOLEAN, winner : Bids \cup {NoBidId}] /\ withdrawal' \in {"none", "started", "returned"}
    BY <1>n DEF IInv, TypeOK
  <2>6. open' \subseteq Capped
    BY <1>r, <1>o
  <2> QED BY <2>1, <2>2, <2>3, <2>4, <2>5, <2>6 DEF TypeOK, LegalItems
<1>2. Control'
  BY ZenonT(40), <1>n, <1>g, <1>s, <1>w, <1>f DEF IInv, Control, RolledBack, Activities, Capped, BeforePivot, AfterPivot, NoBidsSteps, Rollback
<1>3. Spent'
  BY ZenonT(40), <1>n, <1>g, <1>s, <1>w, <1>f, <1>h DEF IInv, Spent, Activities, Capped, BeforePivot, AfterPivot, NoBidsSteps, Rollback, Control
<1>4. Statuses'
  BY <1>n, <1>g, <1>s, <1>w, <1>f, <1>z DEF IInv, Statuses, StatusMoves, Control, NoBidsSteps, Rollback, AfterPivot
<1>5. Records'
  BY <1>n, <1>g, <1>s, <1>w, <1>f, <1>q DEF IInv, Records, Control, NoBidsSteps, Rollback, AfterPivot
<1>6. Goods'
  BY <1>n, <1>g, <1>s, <1>w, <1>f, <1>i, <1>q DEF IInv, Goods, Secured, ReservedHere, Frozen, Here, Activities, Capped, BeforePivot, AfterPivot, NoBidsSteps, Rollback
<1>7. Winner'
  BY <1>n, <1>g, <1>s, <1>w, <1>f, <1>b DEF IInv, Winner, Activities, Capped, BeforePivot, AfterPivot, NoBidsSteps, Rollback
<1>8. LetGo'
  BY <1>n, <1>g, <1>s, <1>w, <1>f, <1>i DEF IInv, LetGo, Here
<1>9. Shown'
  <2>1. ~RolledBack' => open' = {}
    BY <1>r
  <2>2. RolledBack' => alerted'
    <3>1. RolledBack => alerted
      BY DEF IInv, Shown
    <3>2. alerted' = alerted
      BY <1>n
    <3> QED BY <1>r, <3>1, <3>2
  <2> QED BY <2>1, <2>2, <1>g DEF Shown
<1> QED BY <1>1, <1>2, <1>3, <1>4, <1>5, <1>6, <1>7, <1>8, <1>9 DEF IInv

(* The step's work is done and its exception is to be resolved. *)
LEMMA StepDone ==
    ASSUME IInv, step \in Activities, mode = "run", LandsTo(step), raised, mode' = "resolve",
           frozen' \in [known : BOOLEAN, winner : Bids \cup {NoBidId}],
           step = "FreezeListing" => frozen'.known, step # "FreezeListing" => frozen' = frozen,
           commits' = {}, UNCHANGED <<step, raised, begun, lapsed, theirs, exceptions, takedown>>
    PROVE  IInv'
<1>n. UNCHANGED <<step, raised, begun, lapsed, theirs, open, alerted, withdrawal, marked>> /\ commits' = {}
  BY DEF takedown, exceptions
<1>s. step \in begun
  BY DEF IInv, Control
<1>m. mode = "run" => ListingMoves(step) /\ HoldsMove(step) /\ RecordsMove(step) /\ ItemMoves(step)
  BY DEF LandsTo
<1>w. /\ step \in {"SetWinningBid", "CommitHold"} \cup AfterPivot => frozen.winner \in Bids /\ frozen.known /\ frozen' = frozen
      /\ step = "FreezeListing" => frozen.known \/ mode = "run"
  BY WinnerIsBid DEF IInv, Control, NoBidsSteps, AfterPivot
<1>t. /\ listing' \in Listing /\ holds' \in [Bids -> {"NONE", "RESERVED", "COMMITTED", "RELEASED"}]
      /\ item' \in LegalItems /\ theirs' \in LegalItems
      /\ recorded' \subseteq {"credit", "transfer", "ledger"}
  BY <1>m, <1>n DEF IInv, TypeOK, ListingMoves, HoldsMove, ItemMoves, RecordsMove, LegalItems
<1>h. /\ \A b \in Bids : holds'[b] = "COMMITTED" => holds[b] = "COMMITTED" \/ (step = "CommitHold" /\ b = frozen.winner)
      /\ \A b \in Bids : holds[b] = "COMMITTED" => holds'[b] = "COMMITTED"
      /\ step = "CommitHold" => holds'[frozen.winner] = "COMMITTED"
  BY <1>m, <1>w DEF IInv, TypeOK, HoldsMove, Spent
<1>z. StatusMoves(step) /\ (step = "FreezeListing" => listing'.status \notin {"ACTIVE", "CANCELLED"})
  BY <1>m, <1>w DEF ListingMoves, StatusMoves, IInv, Statuses
<1>q. /\ recorded \subseteq recorded'
      /\ "credit" \in recorded' => "credit" \in recorded \/ step = "CreditSeller"
      /\ "transfer" \in recorded' => "transfer" \in recorded \/ step = "TransferItem"
      /\ step = "CreditSeller" => "credit" \in recorded'
      /\ step = "TransferItem" => "transfer" \in recorded'
      /\ step = "AppendLedgerTx" => "ledger" \in recorded'
  BY <1>m DEF RecordsMove, IInv, Records
<1>i. /\ Secured /\ step # "UnfreezeItem" => Secured'
      /\ step = "FreezeItem" => Secured'
      /\ "FreezeItem" \notin begun /\ Here(item') => item'.status = "LISTED"
      /\ ~Here(item) => item' = item
  BY <1>m, <1>q, <1>s DEF ItemMoves, Secured, ReservedHere, Frozen, Here, IInv, Goods
<1>b. /\ step \in {"CommitHold"} \cup AfterPivot => listing'.bids[frozen.winner].status = "WON"
      /\ step = "SetWinningBid" => listing'.bids[frozen.winner].status = "WON"
  BY <1>m DEF ListingMoves, IInv, Winner, AfterPivot
<1>r. ~RolledBack /\ ~RolledBack' /\ step \in Capped
  BY <1>n DEF IInv, Shown, RolledBack, Activities
<1>1. TypeOK'
  <2>1. listing' \in Listing /\ holds' \in [Bids -> {"NONE", "RESERVED", "COMMITTED", "RELEASED"}]
    BY <1>t
  <2>2. item' \in LegalItems /\ theirs' \in LegalItems /\ recorded' \subseteq {"credit", "transfer", "ledger"}
    BY <1>t
  <2>3. lapsed' \in BOOLEAN /\ commits' \subseteq BOOLEAN /\ raised' \in BOOLEAN /\ alerted' \in BOOLEAN /\ marked' \in BOOLEAN
    BY <1>n DEF IInv, TypeOK
  <2>4. /\ step' \in Activities \cup {"none", "completed", "failed"}
        /\ mode' \in {"run", "raise", "park", "resolve", "give up", "condemn"}
        /\ begun' \subseteq Activities
    BY <1>n DEF IInv, TypeOK
  <2>5. frozen' \in [known : BOOLEAN, winner : Bids \cup {NoBidId}] /\ withdrawal' \in {"none", "started", "returned"}
    BY <1>n DEF IInv, TypeOK
  <2>6. open' \subseteq Capped
    BY <1>n DEF IInv, TypeOK
  <2> QED BY <2>1, <2>2, <2>3, <2>4, <2>5, <2>6 DEF TypeOK, LegalItems
<1>2. Control'
  BY <1>n, <1>s, <1>w, <1>r DEF IInv, Control, RolledBack, Activities, Capped, BeforePivot, AfterPivot, NoBidsSteps, Rollback
<1>3. Spent'
  BY <1>n, <1>s, <1>w, <1>h DEF IInv, Spent, Activities, Capped, BeforePivot, AfterPivot, NoBidsSteps, Rollback, Control
<1>4. Statuses'
  BY <1>n, <1>s, <1>w, <1>z DEF IInv, Statuses, StatusMoves, Control, NoBidsSteps, Rollback, AfterPivot
<1>5. Records'
  BY <1>n, <1>s, <1>w, <1>q DEF IInv, Records, Control, NoBidsSteps, Rollback, AfterPivot
<1>6. Goods'
  BY <1>n, <1>s, <1>w, <1>i, <1>q DEF IInv, Goods, Secured, ReservedHere, Frozen, Here, Activities, Capped, BeforePivot, AfterPivot, NoBidsSteps, Rollback
<1>7. Winner'
  BY <1>n, <1>s, <1>w, <1>b DEF IInv, Winner, Activities, Capped, BeforePivot, AfterPivot, NoBidsSteps, Rollback
<1>8. LetGo'
  BY <1>n, <1>s, <1>w, <1>i DEF IInv, LetGo, Here
<1>9. Shown'
  BY <1>n, <1>s, <1>w, <1>r DEF IInv, Shown, RolledBack, Activities, Capped, BeforePivot, AfterPivot, NoBidsSteps, Rollback
<1> QED BY <1>1, <1>2, <1>3, <1>4, <1>5, <1>6, <1>7, <1>8, <1>9 DEF IInv

LEMMA Answered ==
    ASSUME IInv, mode = "run", step \in Activities, Perform(step)
    PROVE  LandsTo(step)
<1>1. step \in begun
  BY DEF IInv, Control
<1>2. CASE step = "CommitHold"
  <2>1. commits # {} /\ CommitHold(TRUE \in commits) /\ commits \subseteq BOOLEAN
    BY <1>2 DEF Perform, IInv, TypeOK
  <2>2. \E late \in commits : CommitHold(late)
    <3>1. CASE TRUE \in commits
      <4>1. CommitHold(TRUE)
        BY <2>1, <3>1 DEF CommitHold, MayCommit
      <4> QED BY <3>1, <4>1
    <3>2. CASE TRUE \notin commits
      <4>1. CommitHold(FALSE)
        BY <2>1, <3>2 DEF CommitHold, MayCommit
      <4>2. FALSE \in commits
        BY <2>1, <3>2
      <4> QED BY <4>1, <4>2
    <3> QED BY <3>1, <3>2
  <2> QED BY <1>1, <1>2, <2>1, <2>2, LandsEffect DEF Lands
<1>3. CASE step # "CommitHold"
  BY <1>1, <1>3, LandsEffect DEF Lands
<1> QED BY <1>2, <1>3

LEMMA Typed == ASSUME IInv PROVE item \in LegalItems /\ theirs \in LegalItems
BY DEF IInv, TypeOK, LegalItems

LEMMA StepSucceed ==
    ASSUME IInv, ~Lingers, Succeed
    PROVE  IInv'
<1>1. /\ mode = "run" /\ step \in Activities /\ Perform(step)
      /\ UNCHANGED <<lapsed, theirs, open, alerted, withdrawal, marked>>
  BY DEF Succeed, exceptions, takedown
<1>2. LandsTo(step)
  BY <1>1, Answered
<1>3. frozen' \in [known : BOOLEAN, winner : Bids \cup {NoBidId}]
      /\ (step = "FreezeListing" => frozen'.known) /\ (step # "FreezeListing" => frozen' = frozen)
  <2>1. FrozenAs(listing) \in [known : BOOLEAN, winner : Bids \cup {NoBidId}] /\ FrozenAs(listing).known
    BY DEF FrozenAs, Winning, Having
  <2> QED BY <2>1 DEF Succeed, IInv, TypeOK
<1>4. commits' = {}
  BY DEF Succeed, Ended, IInv, Control
<1>5. CASE raised
  <2>1. mode' = "resolve" /\ UNCHANGED <<step, raised, begun>>
    BY <1>5 DEF Succeed
  <2> QED BY <1>1, <1>2, <1>3, <1>4, <1>5, <2>1, StepDone DEF exceptions, takedown
<1>6. CASE ~raised
  <2>1. Goto(After(step, frozen'))
    BY <1>6 DEF Succeed
  <2>2. ~RolledBack => open' = {}
    BY <1>1, <1>6 DEF IInv, Shown
  <2>3. open' \subseteq open /\ UNCHANGED <<lapsed, theirs, alerted, takedown>>
    BY <1>1 DEF takedown
  <2>4. step = "FreezeListing" /\ mode = "resolve" => frozen' = frozen
    BY <1>1
  <2>5. \/ mode = "run" /\ LandsTo(step)
        \/ mode = "resolve" /\ UNCHANGED <<listing, holds, item, recorded>>
    BY <1>1, <1>2
  <2>6. open' \subseteq open
    BY <2>3
  <2>7. UNCHANGED <<lapsed, theirs, alerted, takedown>>
    BY <2>3
  <2>8. step \in Activities
    BY <1>1
  <2>9. frozen' \in [known : BOOLEAN, winner : Bids \cup {NoBidId}]
    BY <1>3
  <2>10. step = "FreezeListing" => frozen'.known
    BY <1>3
  <2>11. step # "FreezeListing" => frozen' = frozen
    BY <1>3
  <2> QED BY <1>4, <2>1, <2>2, <2>4, <2>5, <2>6, <2>7, <2>8, <2>9, <2>10, <2>11, StepOn
<1> QED BY <1>5, <1>6

LEMMA StepLandLate ==
    ASSUME IInv, NEW a \in Activities, LandLate(a)
    PROVE  IInv'
<1>1. a \in begun /\ Lands(a)
  BY DEF LandLate, Lands
<1>2. LandsTo(a)
  BY <1>1, LandsEffect
<1> QED BY <1>1, <1>2, StepLate DEF LandLate

(* A step is given up on before the pivot only, and not where it was done. *)
LEMMA StepFail ==
    ASSUME IInv, ~Lingers, Fail
    PROVE  IInv'
<1>n. UNCHANGED <<lapsed, theirs, step, raised, frozen, begun, open, alerted, withdrawal, marked, listing, holds, item, recorded>> /\ commits' = {}
  BY DEF Fail, remote, exceptions, takedown, Ended, IInv, Control
<1>m. /\ mode = "run" /\ step \in Capped /\ mode' \in {"raise", "give up", "condemn"}
      /\ mode' # "raise" => step \in BeforePivot
      /\ mode' = "give up" => raised
      /\ mode' = "condemn" => ~raised
  BY DEF Fail, Refused, Capped, BeforePivot, AfterPivot, NoBidsSteps
<1>c. step = "CommitHold" => \A b \in Bids : holds[b] # "COMMITTED"
  <2>1. step = "CommitHold" => holds[frozen.winner] # "COMMITTED"
    BY DEF Fail, Refused, MayCommit, Won
  <2> QED BY <2>1 DEF IInv, Spent
<1>t. item' \in LegalItems /\ theirs' \in LegalItems
  BY <1>n, Typed
<1>1. TypeOK'
  <2>1. listing' \in Listing /\ holds' \in [Bids -> {"NONE", "RESERVED", "COMMITTED", "RELEASED"}]
    BY <1>n DEF IInv, TypeOK
  <2>2. item' \in LegalItems /\ theirs' \in LegalItems /\ recorded' \subseteq {"credit", "transfer", "ledger"}
    BY <1>n, <1>t DEF IInv, TypeOK
  <2>3. lapsed' \in BOOLEAN /\ commits' \subseteq BOOLEAN /\ raised' \in BOOLEAN /\ alerted' \in BOOLEAN /\ marked' \in BOOLEAN
    BY <1>n DEF IInv, TypeOK
  <2>4. /\ step' \in Activities \cup {"none", "completed", "failed"}
        /\ mode' \in {"run", "raise", "park", "resolve", "give up", "condemn"}
        /\ begun' \subseteq Activities
    BY <1>n, <1>m DEF IInv, TypeOK
  <2>5. frozen' \in [known : BOOLEAN, winner : Bids \cup {NoBidId}] /\ withdrawal' \in {"none", "started", "returned"}
    BY <1>n DEF IInv, TypeOK
  <2>6. open' \subseteq Capped
    BY <1>n DEF IInv, TypeOK
  <2> QED BY ZenonT(40), <2>1, <2>2, <2>3, <2>4, <2>5, <2>6 DEF TypeOK, LegalItems
<1>2. Control'
  BY <1>n, <1>m DEF IInv, Control, RolledBack, Activities, Capped, BeforePivot, AfterPivot, NoBidsSteps, Rollback
<1>3. Spent'
  BY <1>n, <1>m, <1>c DEF IInv, Spent, Activities, Capped, BeforePivot, AfterPivot, NoBidsSteps, Rollback
<1>4. Statuses'
  BY <1>n, <1>m DEF IInv, Statuses
<1>5. Records'
  BY <1>n, <1>m DEF IInv, Records
<1>6. Goods'
  BY <1>n, <1>m DEF IInv, Goods, Secured, ReservedHere, Frozen, Here, Activities, Capped, BeforePivot, AfterPivot, NoBidsSteps, Rollback
<1>7. Winner'
  BY <1>n, <1>m DEF IInv, Winner, Activities, Capped, BeforePivot, AfterPivot, NoBidsSteps, Rollback
<1>8. LetGo'
  BY <1>n, <1>m DEF IInv, LetGo, Here
<1>9. Shown'
  BY <1>n, <1>m DEF IInv, Shown, RolledBack, Activities, Capped, BeforePivot, AfterPivot, NoBidsSteps, Rollback
<1> QED BY <1>1, <1>2, <1>3, <1>4, <1>5, <1>6, <1>7, <1>8, <1>9 DEF IInv

(* A cap passes. *)
LEMMA StepTimeOut ==
    ASSUME IInv, ~Lingers, TimeOut
    PROVE  IInv'
<1>n. UNCHANGED <<lapsed, theirs, step, raised, frozen, begun, open, alerted, withdrawal, marked, listing, holds, item, recorded>> /\ commits' = {} /\ mode' = "raise" /\ mode = "run" /\ step \in Capped
  BY DEF TimeOut, remote, exceptions, takedown, Ended
<1>1. TypeOK'
  <2>1. listing' \in Listing /\ holds' \in [Bids -> {"NONE", "RESERVED", "COMMITTED", "RELEASED"}]
    BY <1>n DEF IInv, TypeOK
  <2>2. item' \in LegalItems /\ theirs' \in LegalItems /\ recorded' \subseteq {"credit", "transfer", "ledger"}
    BY <1>n, Typed DEF IInv, TypeOK
  <2>3. lapsed' \in BOOLEAN /\ commits' \subseteq BOOLEAN /\ raised' \in BOOLEAN /\ alerted' \in BOOLEAN /\ marked' \in BOOLEAN
    BY <1>n DEF IInv, TypeOK
  <2>4. /\ step' \in Activities \cup {"none", "completed", "failed"}
        /\ mode' \in {"run", "raise", "park", "resolve", "give up", "condemn"}
        /\ begun' \subseteq Activities
    BY <1>n DEF IInv, TypeOK
  <2>5. frozen' \in [known : BOOLEAN, winner : Bids \cup {NoBidId}] /\ withdrawal' \in {"none", "started", "returned"}
    BY <1>n DEF IInv, TypeOK
  <2>6. open' \subseteq Capped
    BY <1>n DEF IInv, TypeOK
  <2> QED BY ZenonT(40), <2>1, <2>2, <2>3, <2>4, <2>5, <2>6 DEF TypeOK, LegalItems
<1>2. Control'
  BY <1>n DEF IInv, Control, RolledBack, Activities, Capped, BeforePivot, AfterPivot, NoBidsSteps, Rollback
<1>3. Spent'
  BY <1>n DEF IInv, Spent, Activities, Capped, BeforePivot, AfterPivot, NoBidsSteps, Rollback
<1>4. Statuses'
  BY <1>n DEF IInv, Statuses
<1>5. Records'
  BY <1>n DEF IInv, Records
<1>6. Goods'
  BY <1>n DEF IInv, Goods, Secured, ReservedHere, Frozen, Here, Activities, Capped, BeforePivot, AfterPivot, NoBidsSteps, Rollback
<1>7. Winner'
  BY <1>n DEF IInv, Winner, Activities, Capped, BeforePivot, AfterPivot, NoBidsSteps, Rollback
<1>8. LetGo'
  BY <1>n DEF IInv, LetGo, Here
<1>9. Shown'
  BY <1>n DEF IInv, Shown, RolledBack, Activities, Capped, BeforePivot, AfterPivot, NoBidsSteps, Rollback
<1> QED BY <1>1, <1>2, <1>3, <1>4, <1>5, <1>6, <1>7, <1>8, <1>9 DEF IInv

(* An exception is raised, and the step parks. *)
LEMMA StepPark ==
    ASSUME IInv, Raise, mode = "raise"
    PROVE  IInv'
<1>n. UNCHANGED <<lapsed, commits, theirs, step, frozen, begun, alerted, withdrawal, marked, listing, holds, item, recorded>>
  BY DEF Raise, remote, takedown
<1>m. mode' = "park" /\ raised' = TRUE /\ open' = open \cup {step} /\ step \in Capped
  BY DEF Raise, IInv, Control
<1>1. TypeOK'
  <2>1. listing' \in Listing /\ holds' \in [Bids -> {"NONE", "RESERVED", "COMMITTED", "RELEASED"}]
    BY <1>n, <1>m DEF IInv, TypeOK
  <2>2. item' \in LegalItems /\ theirs' \in LegalItems /\ recorded' \subseteq {"credit", "transfer", "ledger"}
    BY <1>n, <1>m, Typed DEF IInv, TypeOK
  <2>3. lapsed' \in BOOLEAN /\ commits' \subseteq BOOLEAN /\ raised' \in BOOLEAN /\ alerted' \in BOOLEAN /\ marked' \in BOOLEAN
    BY <1>n, <1>m DEF IInv, TypeOK
  <2>4. /\ step' \in Activities \cup {"none", "completed", "failed"}
        /\ mode' \in {"run", "raise", "park", "resolve", "give up", "condemn"}
        /\ begun' \subseteq Activities
    BY <1>n, <1>m DEF IInv, TypeOK
  <2>5. frozen' \in [known : BOOLEAN, winner : Bids \cup {NoBidId}] /\ withdrawal' \in {"none", "started", "returned"}
    BY <1>n, <1>m DEF IInv, TypeOK
  <2>6. open' \subseteq Capped
    BY <1>n, <1>m DEF IInv, TypeOK
  <2> QED BY ZenonT(40), <2>1, <2>2, <2>3, <2>4, <2>5, <2>6 DEF TypeOK, LegalItems
<1>2. Control'
  BY <1>n, <1>m DEF IInv, Control, RolledBack, Activities, Capped, BeforePivot, AfterPivot, NoBidsSteps, Rollback
<1>3. Spent'
  BY <1>n, <1>m DEF IInv, Spent, Activities, Capped, BeforePivot, AfterPivot, NoBidsSteps, Rollback
<1>4. Statuses'
  BY <1>n, <1>m DEF IInv, Statuses
<1>5. Records'
  BY <1>n, <1>m DEF IInv, Records
<1>6. Goods'
  BY <1>n, <1>m DEF IInv, Goods, Secured, ReservedHere, Frozen, Here, Activities, Capped, BeforePivot, AfterPivot, NoBidsSteps, Rollback
<1>7. Winner'
  BY <1>n, <1>m DEF IInv, Winner, Activities, Capped, BeforePivot, AfterPivot, NoBidsSteps, Rollback
<1>8. LetGo'
  BY <1>n, <1>m DEF IInv, LetGo, Here
<1>9. Shown'
  BY <1>n, <1>m DEF IInv, Shown, RolledBack, Activities, Capped, BeforePivot, AfterPivot, NoBidsSteps, Rollback
<1> QED BY <1>1, <1>2, <1>3, <1>4, <1>5, <1>6, <1>7, <1>8, <1>9 DEF IInv

(* The rollback begins, where nothing was committed. *)
LEMMA StepRollBack ==
    ASSUME IInv, Raise, mode = "condemn"
    PROVE  IInv'
<1>n. UNCHANGED <<lapsed, commits, theirs, frozen, withdrawal, marked, listing, holds, item, recorded>>
  BY DEF Raise, remote, takedown
<1>s. /\ step \in BeforePivot /\ open = {} /\ commits = {}
      /\ \A b \in Bids : holds[b] # "COMMITTED"
  BY DEF IInv, Control, Shown, Spent, RolledBack, BeforePivot, Rollback
<1>m. /\ mode' = "run" /\ raised' = FALSE /\ step' = "MarkSettlementFailed" /\ alerted' = TRUE
      /\ begun' = begun \cup {"MarkSettlementFailed"} /\ open' = {step}
  BY <1>s DEF Raise, Goto, Activities, Rollback
<1>1. TypeOK'
  <2>1. listing' \in Listing /\ holds' \in [Bids -> {"NONE", "RESERVED", "COMMITTED", "RELEASED"}]
    BY <1>n DEF IInv, TypeOK
  <2>2. item' \in LegalItems /\ theirs' \in LegalItems /\ recorded' \subseteq {"credit", "transfer", "ledger"}
    BY <1>n, Typed DEF IInv, TypeOK
  <2>3. lapsed' \in BOOLEAN /\ commits' \subseteq BOOLEAN /\ raised' \in BOOLEAN /\ alerted' \in BOOLEAN /\ marked' \in BOOLEAN
    BY <1>n, <1>m DEF IInv, TypeOK
  <2>4. /\ step' \in Activities \cup {"none", "completed", "failed"}
        /\ mode' \in {"run", "raise", "park", "resolve", "give up", "condemn"}
        /\ begun' \subseteq Activities
    BY <1>m DEF IInv, TypeOK, Activities, Rollback
  <2>5. frozen' \in [known : BOOLEAN, winner : Bids \cup {NoBidId}] /\ withdrawal' \in {"none", "started", "returned"}
    BY <1>n DEF IInv, TypeOK
  <2>6. open' \subseteq Capped
    BY <1>s, <1>m DEF Capped
  <2> QED BY ZenonT(40), <2>1, <2>2, <2>3, <2>4, <2>5, <2>6 DEF TypeOK, LegalItems
<1>2. Control'
  BY <1>n, <1>s, <1>m DEF IInv, Control, RolledBack, Activities, Capped, BeforePivot, AfterPivot, NoBidsSteps, Rollback
<1>3. Spent'
  BY <1>n, <1>s, <1>m DEF IInv, Spent, Activities, Capped, BeforePivot, AfterPivot, NoBidsSteps, Rollback
<1>4. Statuses'
  BY <1>n, <1>s, <1>m DEF IInv, Statuses
<1>5. Records'
  BY <1>n, <1>s, <1>m DEF IInv, Records
<1>6. Goods'
  BY <1>n, <1>s, <1>m DEF IInv, Goods, Secured, ReservedHere, Frozen, Here, Activities, Capped, BeforePivot, AfterPivot, NoBidsSteps, Rollback
<1>7. Winner'
  BY <1>n, <1>s, <1>m DEF IInv, Winner, Activities, Capped, BeforePivot, AfterPivot, NoBidsSteps, Rollback
<1>8. LetGo'
  BY <1>n, <1>s, <1>m DEF IInv, LetGo, Here
<1>9. Shown'
  BY <1>n, <1>s, <1>m DEF IInv, Shown, RolledBack, Activities, Capped, BeforePivot, AfterPivot, NoBidsSteps, Rollback
<1> QED BY <1>1, <1>2, <1>3, <1>4, <1>5, <1>6, <1>7, <1>8, <1>9 DEF IInv

(* A parked step runs again. *)
LEMMA StepUnpark ==
    ASSUME IInv, Unpark
    PROVE  IInv'
<1>n. UNCHANGED <<lapsed, commits, theirs, step, raised, frozen, begun, open, alerted, withdrawal, marked, listing, holds, item, recorded>> /\ mode = "park" /\ mode' = "run"
  BY DEF Unpark, remote, exceptions, takedown
<1>1. TypeOK'
  <2>1. listing' \in Listing /\ holds' \in [Bids -> {"NONE", "RESERVED", "COMMITTED", "RELEASED"}]
    BY <1>n DEF IInv, TypeOK
  <2>2. item' \in LegalItems /\ theirs' \in LegalItems /\ recorded' \subseteq {"credit", "transfer", "ledger"}
    BY <1>n, Typed DEF IInv, TypeOK
  <2>3. lapsed' \in BOOLEAN /\ commits' \subseteq BOOLEAN /\ raised' \in BOOLEAN /\ alerted' \in BOOLEAN /\ marked' \in BOOLEAN
    BY <1>n DEF IInv, TypeOK
  <2>4. /\ step' \in Activities \cup {"none", "completed", "failed"}
        /\ mode' \in {"run", "raise", "park", "resolve", "give up", "condemn"}
        /\ begun' \subseteq Activities
    BY <1>n DEF IInv, TypeOK
  <2>5. frozen' \in [known : BOOLEAN, winner : Bids \cup {NoBidId}] /\ withdrawal' \in {"none", "started", "returned"}
    BY <1>n DEF IInv, TypeOK
  <2>6. open' \subseteq Capped
    BY <1>n DEF IInv, TypeOK
  <2> QED BY ZenonT(40), <2>1, <2>2, <2>3, <2>4, <2>5, <2>6 DEF TypeOK, LegalItems
<1>2. Control'
  BY <1>n DEF IInv, Control, RolledBack, Activities, Capped, BeforePivot, AfterPivot, NoBidsSteps, Rollback
<1>3. Spent'
  BY <1>n DEF IInv, Spent, Activities, Capped, BeforePivot, AfterPivot, NoBidsSteps, Rollback
<1>4. Statuses'
  BY <1>n DEF IInv, Statuses
<1>5. Records'
  BY <1>n DEF IInv, Records
<1>6. Goods'
  BY <1>n DEF IInv, Goods, Secured, ReservedHere, Frozen, Here, Activities, Capped, BeforePivot, AfterPivot, NoBidsSteps, Rollback
<1>7. Winner'
  BY <1>n DEF IInv, Winner, Activities, Capped, BeforePivot, AfterPivot, NoBidsSteps, Rollback
<1>8. LetGo'
  BY <1>n DEF IInv, LetGo, Here
<1>9. Shown'
  BY <1>n DEF IInv, Shown, RolledBack, Activities, Capped, BeforePivot, AfterPivot, NoBidsSteps, Rollback
<1> QED BY <1>1, <1>2, <1>3, <1>4, <1>5, <1>6, <1>7, <1>8, <1>9 DEF IInv

(* The exception of a step given up on is resolved. *)
LEMMA StepGiveUp ==
    ASSUME IInv, Resolve, mode = "give up"
    PROVE  IInv'
<1>n. UNCHANGED <<lapsed, commits, theirs, step, raised, frozen, begun, alerted, withdrawal, marked, listing, holds, item, recorded>>
  BY DEF Resolve, remote, takedown
<1>m. mode' = "condemn" /\ open' = open \ {step}
  BY DEF Resolve
<1>1. TypeOK'
  <2>1. listing' \in Listing /\ holds' \in [Bids -> {"NONE", "RESERVED", "COMMITTED", "RELEASED"}]
    BY <1>n, <1>m DEF IInv, TypeOK
  <2>2. item' \in LegalItems /\ theirs' \in LegalItems /\ recorded' \subseteq {"credit", "transfer", "ledger"}
    BY <1>n, <1>m, Typed DEF IInv, TypeOK
  <2>3. lapsed' \in BOOLEAN /\ commits' \subseteq BOOLEAN /\ raised' \in BOOLEAN /\ alerted' \in BOOLEAN /\ marked' \in BOOLEAN
    BY <1>n, <1>m DEF IInv, TypeOK
  <2>4. /\ step' \in Activities \cup {"none", "completed", "failed"}
        /\ mode' \in {"run", "raise", "park", "resolve", "give up", "condemn"}
        /\ begun' \subseteq Activities
    BY <1>n, <1>m DEF IInv, TypeOK
  <2>5. frozen' \in [known : BOOLEAN, winner : Bids \cup {NoBidId}] /\ withdrawal' \in {"none", "started", "returned"}
    BY <1>n, <1>m DEF IInv, TypeOK
  <2>6. open' \subseteq Capped
    BY <1>n, <1>m DEF IInv, TypeOK
  <2> QED BY ZenonT(40), <2>1, <2>2, <2>3, <2>4, <2>5, <2>6 DEF TypeOK, LegalItems
<1>2. Control'
  BY <1>n, <1>m DEF IInv, Control, RolledBack, Activities, Capped, BeforePivot, AfterPivot, NoBidsSteps, Rollback
<1>3. Spent'
  BY <1>n, <1>m DEF IInv, Spent, Activities, Capped, BeforePivot, AfterPivot, NoBidsSteps, Rollback
<1>4. Statuses'
  BY <1>n, <1>m DEF IInv, Statuses
<1>5. Records'
  BY <1>n, <1>m DEF IInv, Records
<1>6. Goods'
  BY <1>n, <1>m DEF IInv, Goods, Secured, ReservedHere, Frozen, Here, Activities, Capped, BeforePivot, AfterPivot, NoBidsSteps, Rollback
<1>7. Winner'
  BY <1>n, <1>m DEF IInv, Winner, Activities, Capped, BeforePivot, AfterPivot, NoBidsSteps, Rollback
<1>8. LetGo'
  BY <1>n, <1>m DEF IInv, LetGo, Here
<1>9. Shown'
  BY <1>n, <1>m DEF IInv, Shown, RolledBack, Activities, Capped, BeforePivot, AfterPivot, NoBidsSteps, Rollback
<1> QED BY <1>1, <1>2, <1>3, <1>4, <1>5, <1>6, <1>7, <1>8, <1>9 DEF IInv

(* An attempt of CommitHold takes its Now. *)
LEMMA StepBeginCommit ==
    ASSUME IInv, ~Lingers, BeginCommit
    PROVE  IInv'
<1>n. UNCHANGED <<lapsed, theirs, step, mode, raised, frozen, begun, open, alerted, withdrawal, marked, listing, holds, item, recorded>>
  BY DEF BeginCommit, remote, run, exceptions, takedown
<1>m. commits' = {lapsed} /\ step = "CommitHold" /\ mode = "run"
  BY DEF BeginCommit, Ended
<1>1. TypeOK'
  <2>1. listing' \in Listing /\ holds' \in [Bids -> {"NONE", "RESERVED", "COMMITTED", "RELEASED"}]
    BY <1>n, <1>m DEF IInv, TypeOK
  <2>2. item' \in LegalItems /\ theirs' \in LegalItems /\ recorded' \subseteq {"credit", "transfer", "ledger"}
    BY <1>n, <1>m, Typed DEF IInv, TypeOK
  <2>3. lapsed' \in BOOLEAN /\ commits' \subseteq BOOLEAN /\ raised' \in BOOLEAN /\ alerted' \in BOOLEAN /\ marked' \in BOOLEAN
    BY <1>n, <1>m DEF IInv, TypeOK
  <2>4. /\ step' \in Activities \cup {"none", "completed", "failed"}
        /\ mode' \in {"run", "raise", "park", "resolve", "give up", "condemn"}
        /\ begun' \subseteq Activities
    BY <1>n, <1>m DEF IInv, TypeOK
  <2>5. frozen' \in [known : BOOLEAN, winner : Bids \cup {NoBidId}] /\ withdrawal' \in {"none", "started", "returned"}
    BY <1>n, <1>m DEF IInv, TypeOK
  <2>6. open' \subseteq Capped
    BY <1>n, <1>m DEF IInv, TypeOK
  <2> QED BY ZenonT(40), <2>1, <2>2, <2>3, <2>4, <2>5, <2>6 DEF TypeOK, LegalItems
<1>2. Control'
  BY <1>n, <1>m DEF IInv, Control, RolledBack, Activities, Capped, BeforePivot, AfterPivot, NoBidsSteps, Rollback
<1>3. Spent'
  BY <1>n, <1>m DEF IInv, Spent, Activities, Capped, BeforePivot, AfterPivot, NoBidsSteps, Rollback
<1>4. Statuses'
  BY <1>n, <1>m DEF IInv, Statuses
<1>5. Records'
  BY <1>n, <1>m DEF IInv, Records
<1>6. Goods'
  BY <1>n, <1>m DEF IInv, Goods, Secured, ReservedHere, Frozen, Here, Activities, Capped, BeforePivot, AfterPivot, NoBidsSteps, Rollback
<1>7. Winner'
  BY <1>n, <1>m DEF IInv, Winner, Activities, Capped, BeforePivot, AfterPivot, NoBidsSteps, Rollback
<1>8. LetGo'
  BY <1>n, <1>m DEF IInv, LetGo, Here
<1>9. Shown'
  BY <1>n, <1>m DEF IInv, Shown, RolledBack, Activities, Capped, BeforePivot, AfterPivot, NoBidsSteps, Rollback
<1> QED BY <1>1, <1>2, <1>3, <1>4, <1>5, <1>6, <1>7, <1>8, <1>9 DEF IInv

(* The workflow starts. *)
LEMMA StepStart ==
    ASSUME IInv, Start
    PROVE  IInv'
<1>n. UNCHANGED <<lapsed, commits, theirs, frozen, open, alerted, withdrawal, marked, listing, holds, item, recorded>>
  BY DEF Start, remote, exceptions, takedown
<1>m. /\ step = "none" /\ mode' = "run" /\ raised' = FALSE /\ step' = "FreezeListing"
      /\ begun' = begun \cup {"FreezeListing"}
  BY DEF Start, Goto, Activities, Capped, BeforePivot
<1>1. TypeOK'
  <2>1. listing' \in Listing /\ holds' \in [Bids -> {"NONE", "RESERVED", "COMMITTED", "RELEASED"}]
    BY <1>n DEF IInv, TypeOK
  <2>2. item' \in LegalItems /\ theirs' \in LegalItems /\ recorded' \subseteq {"credit", "transfer", "ledger"}
    BY <1>n, Typed DEF IInv, TypeOK
  <2>3. lapsed' \in BOOLEAN /\ commits' \subseteq BOOLEAN /\ raised' \in BOOLEAN /\ alerted' \in BOOLEAN /\ marked' \in BOOLEAN
    BY <1>n, <1>m DEF IInv, TypeOK
  <2>4. /\ step' \in Activities \cup {"none", "completed", "failed"}
        /\ mode' \in {"run", "raise", "park", "resolve", "give up", "condemn"}
        /\ begun' \subseteq Activities
    BY <1>m DEF IInv, TypeOK, Activities, Capped, BeforePivot
  <2>5. frozen' \in [known : BOOLEAN, winner : Bids \cup {NoBidId}] /\ withdrawal' \in {"none", "started", "returned"}
    BY <1>n DEF IInv, TypeOK
  <2>6. open' \subseteq Capped
    BY <1>n DEF IInv, TypeOK
  <2> QED BY ZenonT(40), <2>1, <2>2, <2>3, <2>4, <2>5, <2>6 DEF TypeOK, LegalItems
<1>2. Control'
  BY <1>n, <1>m DEF IInv, Control, RolledBack, Activities, Capped, BeforePivot, AfterPivot, NoBidsSteps, Rollback
<1>3. Spent'
  BY <1>n, <1>m DEF IInv, Spent, Activities, Capped, BeforePivot, AfterPivot, NoBidsSteps, Rollback
<1>4. Statuses'
  BY <1>n, <1>m DEF IInv, Statuses
<1>5. Records'
  BY <1>n, <1>m DEF IInv, Records
<1>6. Goods'
  BY <1>n, <1>m DEF IInv, Goods, Secured, ReservedHere, Frozen, Here, Activities, Capped, BeforePivot, AfterPivot, NoBidsSteps, Rollback
<1>7. Winner'
  BY <1>n, <1>m DEF IInv, Winner, Activities, Capped, BeforePivot, AfterPivot, NoBidsSteps, Rollback
<1>8. LetGo'
  BY <1>n, <1>m DEF IInv, LetGo, Here
<1>9. Shown'
  BY <1>n, <1>m DEF IInv, Shown, RolledBack, Activities, Capped, BeforePivot, AfterPivot, NoBidsSteps, Rollback
<1> QED BY <1>1, <1>2, <1>3, <1>4, <1>5, <1>6, <1>7, <1>8, <1>9 DEF IInv

(* A hold goes back that was reserved. *)
LEMMA StepRelease ==
    ASSUME IInv, NEW b \in Bids, ReleaseHold(b)
    PROVE  IInv'
<1>n. UNCHANGED <<lapsed, commits, theirs, step, mode, raised, frozen, begun, open, alerted, withdrawal, marked, listing, item, recorded>>
  BY DEF ReleaseHold, run, exceptions, takedown
<1>h. /\ holds' \in [Bids -> {"NONE", "RESERVED", "COMMITTED", "RELEASED"}]
      /\ \A c \in Bids : (holds'[c] = "COMMITTED") <=> (holds[c] = "COMMITTED")
  BY DEF ReleaseHold, IInv, TypeOK
<1>w. begun \cap AfterPivot # {} \/ step = "CommitHold" => frozen.winner \in Bids
  BY WinnerIsBid DEF IInv, Control, AfterPivot, NoBidsSteps
<1>1. TypeOK'
  <2>1. listing' \in Listing /\ holds' \in [Bids -> {"NONE", "RESERVED", "COMMITTED", "RELEASED"}]
    BY <1>n, <1>h DEF IInv, TypeOK
  <2>2. item' \in LegalItems /\ theirs' \in LegalItems /\ recorded' \subseteq {"credit", "transfer", "ledger"}
    BY <1>n, <1>h, Typed DEF IInv, TypeOK
  <2>3. lapsed' \in BOOLEAN /\ commits' \subseteq BOOLEAN /\ raised' \in BOOLEAN /\ alerted' \in BOOLEAN /\ marked' \in BOOLEAN
    BY <1>n, <1>h DEF IInv, TypeOK
  <2>4. /\ step' \in Activities \cup {"none", "completed", "failed"}
        /\ mode' \in {"run", "raise", "park", "resolve", "give up", "condemn"}
        /\ begun' \subseteq Activities
    BY <1>n, <1>h DEF IInv, TypeOK
  <2>5. frozen' \in [known : BOOLEAN, winner : Bids \cup {NoBidId}] /\ withdrawal' \in {"none", "started", "returned"}
    BY <1>n, <1>h DEF IInv, TypeOK
  <2>6. open' \subseteq Capped
    BY <1>n, <1>h DEF IInv, TypeOK
  <2> QED BY ZenonT(40), <2>1, <2>2, <2>3, <2>4, <2>5, <2>6 DEF TypeOK, LegalItems
<1>2. Control'
  BY <1>n, <1>h DEF IInv, Control, RolledBack, Activities, Capped, BeforePivot, AfterPivot, NoBidsSteps, Rollback
<1>3. Spent'
  BY <1>n, <1>h, <1>w DEF IInv, Spent, Activities, Capped, BeforePivot, AfterPivot, NoBidsSteps, Rollback
<1>4. Statuses'
  BY <1>n, <1>h DEF IInv, Statuses
<1>5. Records'
  BY <1>n, <1>h DEF IInv, Records
<1>6. Goods'
  BY <1>n, <1>h DEF IInv, Goods, Secured, ReservedHere, Frozen, Here, Activities, Capped, BeforePivot, AfterPivot, NoBidsSteps, Rollback
<1>7. Winner'
  BY <1>n, <1>h DEF IInv, Winner, Activities, Capped, BeforePivot, AfterPivot, NoBidsSteps, Rollback
<1>8. LetGo'
  BY <1>n, <1>h DEF IInv, LetGo, Here
<1>9. Shown'
  BY <1>n, <1>h DEF IInv, Shown, RolledBack, Activities, Capped, BeforePivot, AfterPivot, NoBidsSteps, Rollback
<1> QED BY <1>1, <1>2, <1>3, <1>4, <1>5, <1>6, <1>7, <1>8, <1>9 DEF IInv

(* The holds' time passes. *)
LEMMA StepLapse ==
    ASSUME IInv, Lapse
    PROVE  IInv'
<1>n. UNCHANGED <<commits, theirs, step, mode, raised, frozen, begun, open, alerted, withdrawal, marked, listing, holds, item, recorded>> /\ lapsed' = TRUE
  BY DEF Lapse, remote, run, exceptions, takedown
<1>1. TypeOK'
  <2>1. listing' \in Listing /\ holds' \in [Bids -> {"NONE", "RESERVED", "COMMITTED", "RELEASED"}]
    BY <1>n DEF IInv, TypeOK
  <2>2. item' \in LegalItems /\ theirs' \in LegalItems /\ recorded' \subseteq {"credit", "transfer", "ledger"}
    BY <1>n, Typed DEF IInv, TypeOK
  <2>3. lapsed' \in BOOLEAN /\ commits' \subseteq BOOLEAN /\ raised' \in BOOLEAN /\ alerted' \in BOOLEAN /\ marked' \in BOOLEAN
    BY <1>n DEF IInv, TypeOK
  <2>4. /\ step' \in Activities \cup {"none", "completed", "failed"}
        /\ mode' \in {"run", "raise", "park", "resolve", "give up", "condemn"}
        /\ begun' \subseteq Activities
    BY <1>n DEF IInv, TypeOK
  <2>5. frozen' \in [known : BOOLEAN, winner : Bids \cup {NoBidId}] /\ withdrawal' \in {"none", "started", "returned"}
    BY <1>n DEF IInv, TypeOK
  <2>6. open' \subseteq Capped
    BY <1>n DEF IInv, TypeOK
  <2> QED BY ZenonT(40), <2>1, <2>2, <2>3, <2>4, <2>5, <2>6 DEF TypeOK, LegalItems
<1>2. Control'
  BY <1>n DEF IInv, Control, RolledBack, Activities, Capped, BeforePivot, AfterPivot, NoBidsSteps, Rollback
<1>3. Spent'
  BY <1>n DEF IInv, Spent, Activities, Capped, BeforePivot, AfterPivot, NoBidsSteps, Rollback
<1>4. Statuses'
  BY <1>n DEF IInv, Statuses
<1>5. Records'
  BY <1>n DEF IInv, Records
<1>6. Goods'
  BY <1>n DEF IInv, Goods, Secured, ReservedHere, Frozen, Here, Activities, Capped, BeforePivot, AfterPivot, NoBidsSteps, Rollback
<1>7. Winner'
  BY <1>n DEF IInv, Winner, Activities, Capped, BeforePivot, AfterPivot, NoBidsSteps, Rollback
<1>8. LetGo'
  BY <1>n DEF IInv, LetGo, Here
<1>9. Shown'
  BY <1>n DEF IInv, Shown, RolledBack, Activities, Capped, BeforePivot, AfterPivot, NoBidsSteps, Rollback
<1> QED BY <1>1, <1>2, <1>3, <1>4, <1>5, <1>6, <1>7, <1>8, <1>9 DEF IInv

(* The seller takes down a listing that no settlement has frozen. *)
LEMMA StepWithdraw ==
    ASSUME IInv, SellerWithdraws
    PROVE  IInv'
<1>n. UNCHANGED <<lapsed, commits, theirs, step, mode, raised, frozen, begun, open, alerted, withdrawal, marked, holds, item, recorded>>
  BY DEF SellerWithdraws, run, exceptions, takedown
<1>k. frozen.known = FALSE
  BY DEF SellerWithdraws, IInv, Statuses, TypeOK
<1>l. listing' \in Listing /\ listing'.status = "CANCELLED"
  <2>1. listing \in Listing /\ Having(listing, LiveBid) \in SUBSET Recorded(listing) /\ "LOST" \in BidStatuses
    <3>1. Having(listing, LiveBid) \in SUBSET Recorded(listing)
      BY DEF Having, LiveBid, Recorded, NoBid
    <3> QED BY <3>1 DEF IInv, TypeOK, BidStatuses
  <2>2. Move(listing, Having(listing, LiveBid), "LOST") \in Listing
    BY <2>1, MoveEffect
  <2>3. listing' = [Move(listing, Having(listing, LiveBid), "LOST") EXCEPT !.status = "CANCELLED"]
    BY DEF SellerWithdraws, Withdraw
  <2> QED BY <2>2, <2>3 DEF Listing, ListingStatuses
<1>1. TypeOK'
  <2>1. listing' \in Listing /\ holds' \in [Bids -> {"NONE", "RESERVED", "COMMITTED", "RELEASED"}]
    BY <1>n, <1>l DEF IInv, TypeOK
  <2>2. item' \in LegalItems /\ theirs' \in LegalItems /\ recorded' \subseteq {"credit", "transfer", "ledger"}
    BY <1>n, <1>l, Typed DEF IInv, TypeOK
  <2>3. lapsed' \in BOOLEAN /\ commits' \subseteq BOOLEAN /\ raised' \in BOOLEAN /\ alerted' \in BOOLEAN /\ marked' \in BOOLEAN
    BY <1>n, <1>l DEF IInv, TypeOK
  <2>4. /\ step' \in Activities \cup {"none", "completed", "failed"}
        /\ mode' \in {"run", "raise", "park", "resolve", "give up", "condemn"}
        /\ begun' \subseteq Activities
    BY <1>n, <1>l DEF IInv, TypeOK
  <2>5. frozen' \in [known : BOOLEAN, winner : Bids \cup {NoBidId}] /\ withdrawal' \in {"none", "started", "returned"}
    BY <1>n, <1>l DEF IInv, TypeOK
  <2>6. open' \subseteq Capped
    BY <1>n, <1>l DEF IInv, TypeOK
  <2> QED BY ZenonT(40), <2>1, <2>2, <2>3, <2>4, <2>5, <2>6 DEF TypeOK, LegalItems
<1>2. Control'
  BY <1>n, <1>k, <1>l DEF IInv, Control, RolledBack, Activities, Capped, BeforePivot, AfterPivot, NoBidsSteps, Rollback
<1>3. Spent'
  BY <1>n, <1>k, <1>l DEF IInv, Spent, Activities, Capped, BeforePivot, AfterPivot, NoBidsSteps, Rollback
<1>4. Statuses'
  BY <1>n, <1>k, <1>l DEF IInv, Statuses
<1>5. Records'
  BY <1>n, <1>k, <1>l DEF IInv, Records
<1>6. Goods'
  BY <1>n, <1>k, <1>l DEF IInv, Goods, Secured, ReservedHere, Frozen, Here, Activities, Capped, BeforePivot, AfterPivot, NoBidsSteps, Rollback, Control
<1>7. Winner'
  BY <1>n, <1>k, <1>l DEF IInv, Winner, Activities, Capped, BeforePivot, AfterPivot, NoBidsSteps, Rollback, Control
<1>8. LetGo'
  BY <1>n, <1>k, <1>l DEF IInv, LetGo, Here
<1>9. Shown'
  BY <1>n, <1>k, <1>l DEF IInv, Shown, RolledBack, Activities, Capped, BeforePivot, AfterPivot, NoBidsSteps, Rollback
<1> QED BY <1>1, <1>2, <1>3, <1>4, <1>5, <1>6, <1>7, <1>8, <1>9 DEF IInv

(* The withdrawal's workflow starts or is marked. *)
LEMMA StepTakedown ==
    ASSUME IInv, UNCHANGED <<remote, lapsed, commits, theirs, run, exceptions>>, withdrawal' \in {"none", "started", "returned"}, marked' \in BOOLEAN
    PROVE  IInv'
<1>n. UNCHANGED <<lapsed, commits, theirs, step, mode, raised, frozen, begun, open, alerted, listing, holds, item, recorded>>
  BY DEF remote, run, exceptions
<1>1. TypeOK'
  <2>1. listing' \in Listing /\ holds' \in [Bids -> {"NONE", "RESERVED", "COMMITTED", "RELEASED"}]
    BY <1>n DEF IInv, TypeOK
  <2>2. item' \in LegalItems /\ theirs' \in LegalItems /\ recorded' \subseteq {"credit", "transfer", "ledger"}
    BY <1>n, Typed DEF IInv, TypeOK
  <2>3. lapsed' \in BOOLEAN /\ commits' \subseteq BOOLEAN /\ raised' \in BOOLEAN /\ alerted' \in BOOLEAN /\ marked' \in BOOLEAN
    BY <1>n DEF IInv, TypeOK
  <2>4. /\ step' \in Activities \cup {"none", "completed", "failed"}
        /\ mode' \in {"run", "raise", "park", "resolve", "give up", "condemn"}
        /\ begun' \subseteq Activities
    BY <1>n DEF IInv, TypeOK
  <2>5. frozen' \in [known : BOOLEAN, winner : Bids \cup {NoBidId}] /\ withdrawal' \in {"none", "started", "returned"}
    BY <1>n DEF IInv, TypeOK
  <2>6. open' \subseteq Capped
    BY <1>n DEF IInv, TypeOK
  <2> QED BY <2>1, <2>2, <2>3, <2>4, <2>5, <2>6 DEF TypeOK, LegalItems
<1>2. Control'
  BY <1>n DEF IInv, Control, RolledBack, Activities, Capped, BeforePivot, AfterPivot, NoBidsSteps, Rollback
<1>3. Spent'
  BY <1>n DEF IInv, Spent, Activities, Capped, BeforePivot, AfterPivot, NoBidsSteps, Rollback
<1>4. Statuses'
  BY <1>n DEF IInv, Statuses
<1>5. Records'
  BY <1>n DEF IInv, Records
<1>6. Goods'
  BY <1>n DEF IInv, Goods, Secured, ReservedHere, Frozen, Here, Activities, Capped, BeforePivot, AfterPivot, NoBidsSteps, Rollback
<1>7. Winner'
  BY <1>n DEF IInv, Winner, Activities, Capped, BeforePivot, AfterPivot, NoBidsSteps, Rollback
<1>8. LetGo'
  BY <1>n DEF IInv, LetGo, Here
<1>9. Shown'
  BY <1>n DEF IInv, Shown, RolledBack, Activities, Capped, BeforePivot, AfterPivot, NoBidsSteps, Rollback
<1> QED BY <1>1, <1>2, <1>3, <1>4, <1>5, <1>6, <1>7, <1>8, <1>9 DEF IInv

(* The withdrawal returns an item that is on sale here. *)
LEMMA StepReturns ==
    ASSUME IInv, WithdrawalReturnsItem
    PROVE  IInv'
<1>n. UNCHANGED <<lapsed, commits, theirs, step, mode, raised, frozen, begun, open, alerted, marked, listing, holds, recorded>> /\ withdrawal' = "returned"
  BY ItemReturned DEF WithdrawalReturnsItem, run, exceptions, IInv
<1>i. /\ item' \in LegalItems /\ ~Frozen(item) /\ (item' = item \/ ~Here(item')) /\ (~Here(item) => item' = item)
  BY ItemReturned DEF WithdrawalReturnsItem, IInv
<1>1. TypeOK'
  <2>1. listing' \in Listing /\ holds' \in [Bids -> {"NONE", "RESERVED", "COMMITTED", "RELEASED"}]
    BY <1>n, <1>i DEF IInv, TypeOK
  <2>2. item' \in LegalItems /\ theirs' \in LegalItems /\ recorded' \subseteq {"credit", "transfer", "ledger"}
    BY <1>n, <1>i, Typed DEF IInv, TypeOK
  <2>3. lapsed' \in BOOLEAN /\ commits' \subseteq BOOLEAN /\ raised' \in BOOLEAN /\ alerted' \in BOOLEAN /\ marked' \in BOOLEAN
    BY <1>n, <1>i DEF IInv, TypeOK
  <2>4. /\ step' \in Activities \cup {"none", "completed", "failed"}
        /\ mode' \in {"run", "raise", "park", "resolve", "give up", "condemn"}
        /\ begun' \subseteq Activities
    BY <1>n, <1>i DEF IInv, TypeOK
  <2>5. frozen' \in [known : BOOLEAN, winner : Bids \cup {NoBidId}] /\ withdrawal' \in {"none", "started", "returned"}
    BY <1>n, <1>i DEF IInv, TypeOK
  <2>6. open' \subseteq Capped
    BY <1>n, <1>i DEF IInv, TypeOK
  <2> QED BY ZenonT(40), <2>1, <2>2, <2>3, <2>4, <2>5, <2>6 DEF TypeOK, LegalItems
<1>2. Control'
  BY <1>n, <1>i DEF IInv, Control, RolledBack, Activities, Capped, BeforePivot, AfterPivot, NoBidsSteps, Rollback
<1>3. Spent'
  BY <1>n, <1>i DEF IInv, Spent, Activities, Capped, BeforePivot, AfterPivot, NoBidsSteps, Rollback
<1>4. Statuses'
  BY <1>n, <1>i DEF IInv, Statuses
<1>5. Records'
  BY <1>n, <1>i DEF IInv, Records
<1>6. Goods'
  BY <1>n, <1>i DEF IInv, Goods, Secured, ReservedHere, Frozen, Here, Activities, Capped, BeforePivot, AfterPivot, NoBidsSteps, Rollback
<1>7. Winner'
  BY <1>n, <1>i DEF IInv, Winner, Activities, Capped, BeforePivot, AfterPivot, NoBidsSteps, Rollback
<1>8. LetGo'
  BY <1>n, <1>i DEF IInv, LetGo, Here
<1>9. Shown'
  BY <1>n, <1>i DEF IInv, Shown, RolledBack, Activities, Capped, BeforePivot, AfterPivot, NoBidsSteps, Rollback
<1> QED BY <1>1, <1>2, <1>3, <1>4, <1>5, <1>6, <1>7, <1>8, <1>9 DEF IInv

(* Another listing takes an item that is free. *)
LEMMA StepOther ==
    ASSUME IInv, OtherListing
    PROVE  IInv'
<1>n. UNCHANGED <<lapsed, commits, step, mode, raised, frozen, begun, open, alerted, withdrawal, marked, listing, holds, recorded>> /\ theirs' = item'
  BY DEF OtherListing, run, exceptions, takedown
<1>i. item' \in LegalItems /\ ~Frozen(item) /\ ~Here(item')
  BY Typed DEF OtherListing, LegalItems, Item, Frozen, Here
<1>1. TypeOK'
  <2>1. listing' \in Listing /\ holds' \in [Bids -> {"NONE", "RESERVED", "COMMITTED", "RELEASED"}]
    BY <1>n, <1>i DEF IInv, TypeOK
  <2>2. item' \in LegalItems /\ theirs' \in LegalItems /\ recorded' \subseteq {"credit", "transfer", "ledger"}
    BY <1>n, <1>i, Typed DEF IInv, TypeOK
  <2>3. lapsed' \in BOOLEAN /\ commits' \subseteq BOOLEAN /\ raised' \in BOOLEAN /\ alerted' \in BOOLEAN /\ marked' \in BOOLEAN
    BY <1>n, <1>i DEF IInv, TypeOK
  <2>4. /\ step' \in Activities \cup {"none", "completed", "failed"}
        /\ mode' \in {"run", "raise", "park", "resolve", "give up", "condemn"}
        /\ begun' \subseteq Activities
    BY <1>n, <1>i DEF IInv, TypeOK
  <2>5. frozen' \in [known : BOOLEAN, winner : Bids \cup {NoBidId}] /\ withdrawal' \in {"none", "started", "returned"}
    BY <1>n, <1>i DEF IInv, TypeOK
  <2>6. open' \subseteq Capped
    BY <1>n, <1>i DEF IInv, TypeOK
  <2> QED BY ZenonT(40), <2>1, <2>2, <2>3, <2>4, <2>5, <2>6 DEF TypeOK, LegalItems
<1>2. Control'
  BY <1>n, <1>i DEF IInv, Control, RolledBack, Activities, Capped, BeforePivot, AfterPivot, NoBidsSteps, Rollback
<1>3. Spent'
  BY <1>n, <1>i DEF IInv, Spent, Activities, Capped, BeforePivot, AfterPivot, NoBidsSteps, Rollback
<1>4. Statuses'
  BY <1>n, <1>i DEF IInv, Statuses
<1>5. Records'
  BY <1>n, <1>i DEF IInv, Records
<1>6. Goods'
  BY <1>n, <1>i DEF IInv, Goods, Secured, ReservedHere, Frozen, Here, Activities, Capped, BeforePivot, AfterPivot, NoBidsSteps, Rollback
<1>7. Winner'
  BY <1>n, <1>i DEF IInv, Winner, Activities, Capped, BeforePivot, AfterPivot, NoBidsSteps, Rollback
<1>8. LetGo'
  BY <1>n, <1>i DEF IInv, LetGo, Here
<1>9. Shown'
  BY <1>n, <1>i DEF IInv, Shown, RolledBack, Activities, Capped, BeforePivot, AfterPivot, NoBidsSteps, Rollback
<1> QED BY <1>1, <1>2, <1>3, <1>4, <1>5, <1>6, <1>7, <1>8, <1>9 DEF IInv

(* A step that changes nothing. *)
LEMMA StepStutter ==
    ASSUME IInv, UNCHANGED vars
    PROVE  IInv'
<1>n. UNCHANGED <<lapsed, commits, theirs, step, mode, raised, frozen, begun, open, alerted, withdrawal, marked, listing, holds, item, recorded>>
  BY DEF vars, remote, run, exceptions, takedown
<1>1. TypeOK'
  <2>1. listing' \in Listing /\ holds' \in [Bids -> {"NONE", "RESERVED", "COMMITTED", "RELEASED"}]
    BY <1>n DEF IInv, TypeOK
  <2>2. item' \in LegalItems /\ theirs' \in LegalItems /\ recorded' \subseteq {"credit", "transfer", "ledger"}
    BY <1>n, Typed DEF IInv, TypeOK
  <2>3. lapsed' \in BOOLEAN /\ commits' \subseteq BOOLEAN /\ raised' \in BOOLEAN /\ alerted' \in BOOLEAN /\ marked' \in BOOLEAN
    BY <1>n DEF IInv, TypeOK
  <2>4. /\ step' \in Activities \cup {"none", "completed", "failed"}
        /\ mode' \in {"run", "raise", "park", "resolve", "give up", "condemn"}
        /\ begun' \subseteq Activities
    BY <1>n DEF IInv, TypeOK
  <2>5. frozen' \in [known : BOOLEAN, winner : Bids \cup {NoBidId}] /\ withdrawal' \in {"none", "started", "returned"}
    BY <1>n DEF IInv, TypeOK
  <2>6. open' \subseteq Capped
    BY <1>n DEF IInv, TypeOK
  <2> QED BY ZenonT(40), <2>1, <2>2, <2>3, <2>4, <2>5, <2>6 DEF TypeOK, LegalItems
<1>2. Control'
  BY <1>n DEF IInv, Control, RolledBack, Activities, Capped, BeforePivot, AfterPivot, NoBidsSteps, Rollback
<1>3. Spent'
  BY <1>n DEF IInv, Spent, Activities, Capped, BeforePivot, AfterPivot, NoBidsSteps, Rollback
<1>4. Statuses'
  BY <1>n DEF IInv, Statuses
<1>5. Records'
  BY <1>n DEF IInv, Records
<1>6. Goods'
  BY <1>n DEF IInv, Goods, Secured, ReservedHere, Frozen, Here, Activities, Capped, BeforePivot, AfterPivot, NoBidsSteps, Rollback
<1>7. Winner'
  BY <1>n DEF IInv, Winner, Activities, Capped, BeforePivot, AfterPivot, NoBidsSteps, Rollback
<1>8. LetGo'
  BY <1>n DEF IInv, LetGo, Here
<1>9. Shown'
  BY <1>n DEF IInv, Shown, RolledBack, Activities, Capped, BeforePivot, AfterPivot, NoBidsSteps, Rollback
<1> QED BY <1>1, <1>2, <1>3, <1>4, <1>5, <1>6, <1>7, <1>8, <1>9 DEF IInv

LEMMA StepResolve ==
    ASSUME IInv, Resolve, mode = "resolve"
    PROVE  IInv'
<1>1. /\ frozen' = frozen /\ commits' = commits /\ open' = open \ {step} /\ Goto(After(step, frozen))
      /\ UNCHANGED <<listing, holds, item, recorded, lapsed, theirs, alerted, takedown>>
  BY DEF Resolve, remote
<1>2. Goto(After(step, frozen'))
  BY <1>1
<1>3. step \in Capped /\ commits = {} /\ (step = "FreezeListing" => frozen.known)
  BY DEF IInv, Control
<1>4. step \in Activities
  BY <1>3 DEF Activities
<1>5. \/ mode = "run" /\ LandsTo(step)
      \/ mode = "resolve" /\ UNCHANGED <<listing, holds, item, recorded>>
  BY <1>1
<1>6. frozen' \in [known : BOOLEAN, winner : Bids \cup {NoBidId}]
  BY <1>1 DEF IInv, TypeOK
<1>7. step = "FreezeListing" => frozen'.known
  BY <1>1, <1>3
<1>8. step # "FreezeListing" => frozen' = frozen
  BY <1>1
<1>9. step = "FreezeListing" /\ mode = "resolve" => frozen' = frozen
  BY <1>1
<1>10. commits' = {} /\ open' \subseteq open
  BY <1>1, <1>3
<1>11. ~RolledBack => open' = {}
  BY <1>1 DEF IInv, Shown
<1>12. UNCHANGED <<lapsed, theirs, alerted, takedown>>
  BY <1>1
<1> QED BY <1>2, <1>4, <1>5, <1>6, <1>7, <1>8, <1>9, <1>10, <1>11, <1>12, StepOn

(* It holds where settlement may be started. *)
LEMMA AtFirst == Init => IInv
<1> SUFFICES ASSUME Init PROVE IInv
  OBVIOUS
<1>1. /\ step = "none" /\ mode = "run" /\ raised = FALSE /\ frozen.known = FALSE
      /\ frozen.winner = NoBidId /\ frozen \in [known : BOOLEAN, winner : Bids \cup {NoBidId}]
      /\ begun = {} /\ open = {} /\ alerted = FALSE /\ commits = {} /\ recorded = {}
      /\ lapsed = FALSE /\ withdrawal = "none" /\ marked = FALSE /\ theirs = NoItem
  BY DEF Init, NotFrozen
<1>2. item \in {Item("LISTED", Seller, "here"), Item("AVAILABLE", Seller, "none")}
  BY DEF Init
<1>3. item \in LegalItems /\ theirs \in LegalItems /\ (Here(item) => item.status = "LISTED")
  BY <1>1, <1>2, ListingConstants DEF LegalItems, Item, NoItem, Here
<1>4. holds \in [Bids -> {"NONE", "RESERVED", "RELEASED"}]
  BY DEF Init, HoldsOf
<1>5. listing \in Listing /\ listing.status = "ACTIVE"
  <2>1. PICK lead \in {{}} \cup {{b} : b \in Bids}, outbid \in SUBSET Bids, left \in SUBSET Bids :
            listing = Shape(lead, outbid, left)
    BY DEF Init
  <2>2. NewListing \in Listing /\ NewListing.status = "ACTIVE"
    BY DEF NewListing, Listing, ListingStatuses, Bid, Sale
  <2>3. [b \in Bids |->
            IF b \in lead THEN [status |-> "WINNING", amount |-> 2, led |-> FALSE]
            ELSE IF b \in outbid THEN [status |-> "OUTBID", amount |-> 1, led |-> FALSE]
            ELSE IF b \in left THEN [status |-> "CANCELLED", amount |-> 1, led |-> FALSE]
            ELSE NoBid] \in [Bids -> Bid]
    <3>1. /\ [status |-> "WINNING", amount |-> 2, led |-> FALSE] \in Bid
          /\ [status |-> "OUTBID", amount |-> 1, led |-> FALSE] \in Bid
          /\ [status |-> "CANCELLED", amount |-> 1, led |-> FALSE] \in Bid
          /\ NoBid \in Bid
      BY DEF Bid, BidStatuses
    <3> QED BY <3>1
  <2> QED BY <2>1, <2>2, <2>3 DEF Shape, Listing
<1>6. TypeOK
  BY <1>1, <1>3, <1>4, <1>5 DEF TypeOK, LegalItems
<1>7. Control
  BY <1>1 DEF Control, RolledBack, Rollback, Activities, Capped, BeforePivot, AfterPivot, NoBidsSteps
<1>8. Spent
  BY <1>1, <1>4 DEF Spent
<1>9. Statuses
  BY <1>1, <1>5 DEF Statuses
<1>10. Records
  BY <1>1 DEF Records
<1>11. Goods
  BY <1>1, <1>3 DEF Goods, Here, AfterPivot
<1>12. Winner
  BY <1>1 DEF Winner, AfterPivot
<1>13. LetGo /\ Shown
  BY <1>1 DEF LetGo, Shown, RolledBack, Rollback
<1> QED BY <1>6, <1>7, <1>8, <1>9, <1>10, <1>11, <1>12, <1>13 DEF IInv

LEMMA EveryStep ==
    ASSUME ~Lingers, IInv, [Next]_vars
    PROVE  IInv'
<1>1. CASE Start
  BY <1>1, StepStart
<1>2. CASE BeginCommit
  BY <1>2, StepBeginCommit
<1>3. CASE Succeed
  BY <1>3, StepSucceed
<1>4. CASE Fail
  BY <1>4, StepFail
<1>5. CASE TimeOut
  BY <1>5, StepTimeOut
<1>6. CASE Raise
  <2>1. mode = "raise" \/ mode = "condemn"
    BY <1>6 DEF Raise
  <2> QED BY <1>6, <2>1, StepPark, StepRollBack
<1>7. CASE Unpark
  BY <1>7, StepUnpark
<1>8. CASE Resolve
  <2>1. mode = "resolve" \/ mode = "give up"
    BY <1>8 DEF Resolve
  <2> QED BY <1>8, <2>1, StepResolve, StepGiveUp
<1>9. CASE \E a \in Activities : LandLate(a)
  BY <1>9, StepLandLate
<1>10. CASE Release
  BY <1>10, StepRelease DEF Release
<1>11. CASE Lapse
  BY <1>11, StepLapse
<1>12. CASE SellerWithdraws
  BY <1>12, StepWithdraw
<1>13. CASE StartWithdrawal \/ MarkWithdrawal
  <2>1. UNCHANGED <<remote, lapsed, commits, theirs, run, exceptions>>
    BY <1>13 DEF StartWithdrawal, MarkWithdrawal
  <2>2. withdrawal' \in {"none", "started", "returned"} /\ marked' \in BOOLEAN
    BY <1>13 DEF StartWithdrawal, MarkWithdrawal, IInv, TypeOK
  <2> QED BY <2>1, <2>2, StepTakedown
<1>14. CASE WithdrawalReturnsItem
  BY <1>14, StepReturns
<1>15. CASE OtherListing
  BY <1>15, StepOther
<1>16. CASE UNCHANGED vars
  BY <1>16, StepStutter
<1> QED BY <1>1, <1>2, <1>3, <1>4, <1>5, <1>6, <1>7, <1>8, <1>9, <1>10, <1>11, <1>12, <1>13, <1>14,
           <1>15, <1>16 DEF Next, Answer, Escalate

LEMMA Inductive == ~Lingers => (Spec => []IInv)
<1> SUFFICES ASSUME ~Lingers PROVE Spec => []IInv
  OBVIOUS
<1>1. IInv /\ [Next]_vars => IInv'
  BY EveryStep
<1> QED BY AtFirst, <1>1, PTL DEF Spec

-----------------------------------------------------------------------------
(* The theorems.                                                           *)

(* Where no attempt of CommitHold outlives its timeout, every value stays in its type:
   the statuses the services keep for listing, bids, holds and item, and the workflow's. *)
THEOREM TypeCorrect == ~Lingers => (Spec => []TypeOK)
<1>1. IInv => TypeOK
  BY DEF IInv
<1> QED BY <1>1, Inductive, PTL

LEMMA SpentFollows == ASSUME IInv PROVE SpentOnlyIfSold
<1>1. ASSUME listing.status \in {"SETTLEMENT_FAILED", "EXPIRED", "CANCELLED"}, NEW b \in Bids
      PROVE  holds[b] # "COMMITTED"
  <2>1. SUFFICES ASSUME holds[b] = "COMMITTED" PROVE FALSE
    OBVIOUS
  <2>2. /\ frozen.known /\ frozen.winner # NoBidId
        /\ step \in {"CommitHold", "completed"} \cup AfterPivot
    BY <2>1, SettlementConstants DEF IInv, Spent
  <2>3. ~RolledBack
    BY <2>2 DEF RolledBack, Rollback, AfterPivot
  <2> QED BY <1>1, <2>2, <2>3 DEF IInv, Statuses, Control, Rollback, NoBidsSteps
<1>2. listing.status = "SOLD" => {"credit", "transfer", "ledger"} \subseteq recorded
  BY DEF IInv, Statuses, Records
<1>3. ASSUME step \in AfterPivot \cup NoBidsSteps PROVE ~Refused(step)
  <2>1. /\ frozen.known
        /\ begun \cap {"MarkSettlementFailed"} = {}
        /\ listing.status \in {"PENDING_SETTLEMENT", "EXPIRED", "SOLD"}
    BY ZenonT(40), <1>3 DEF IInv, TypeOK, Listing, ListingStatuses, Control, Statuses, RolledBack, Rollback,
                AfterPivot, NoBidsSteps
  <2>2. CASE step \in AfterPivot
    <3>1. frozen.winner \in Bids /\ listing.status # "EXPIRED"
      BY <2>1, <2>2, WinnerIsBid DEF IInv, Control, Statuses, AfterPivot, NoBidsSteps
    <3>2. MayTransferItem
      BY <2>2 DEF IInv, Goods, Secured, MayTransferItem
    <3>3. frozen.winner \in Having(listing, {"WON"})
      BY <2>2, <3>1 DEF IInv, Winner, Having
    <3>4. MayMarkSold(listing)
      BY <2>1, <3>1, <3>3 DEF MayMarkSold
    <3> QED BY <2>2, <3>2, <3>4 DEF Refused, AfterPivot
  <2>3. CASE step \in NoBidsSteps
    <3>1. frozen.winner = NoBidId /\ "FreezeItem" \notin begun /\ "MarkSold" \notin begun
      BY <2>1, <2>3 DEF IInv, Control, NoBidsSteps
    <3>2. MayReturnItem /\ MayExpire(listing)
      BY <2>1, <3>1 DEF IInv, Goods, Statuses, MayReturnItem, MayExpire
    <3> QED BY <2>3, <3>2 DEF Refused, NoBidsSteps
  <2> QED BY <1>3, <2>2, <2>3
<1> QED BY <1>1, <1>2, <1>3 DEF SpentOnlyIfSold

(* Gold is spent only for a listing that is sold or being sold, a sold listing has every
   record behind it, and past the pivot, as on the path without bids, no step can be
   impossible: whatever lands late, parks, lapses, is withdrawn or relisted. *)
THEOREM SpentOnlyIfSoldCorrect == ~Lingers => (Spec => []SpentOnlyIfSold)
<1>1. IInv => SpentOnlyIfSold
  BY SpentFollows
<1> QED BY <1>1, Inductive, PTL

(* An item that went on sale elsewhere is not touched again by what this listing's
   settlement or withdrawal still has in flight. *)
THEOREM ItemLetGoCorrect == ~Lingers => (Spec => []ItemLetGo)
<1>1. IInv => ItemLetGo
  BY DEF IInv, LetGo, ItemLetGo
<1> QED BY <1>1, Inductive, PTL

(* A parked step shows as an OPEN exception, a settlement that completed leaves none, and
   a rollback has raised its alert. *)
THEOREM ExceptionsTellCorrect == ~Lingers => (Spec => []ExceptionsTell)
<1>1. IInv => ExceptionsTell
  <2> SUFFICES ASSUME IInv PROVE ExceptionsTell
    OBVIOUS
  <2>1. mode = "park" => step \in open
    BY DEF IInv, Shown, Control, RolledBack, Rollback, Capped, BeforePivot, AfterPivot, NoBidsSteps
  <2>2. step = "completed" => open = {}
    BY DEF IInv, Shown, RolledBack, Rollback
  <2>3. step \in Rollback \cup {"failed"} => alerted
    BY DEF IInv, Shown, RolledBack
  <2> QED BY <2>1, <2>2, <2>3 DEF ExceptionsTell
<1> QED BY <1>1, Inductive, PTL

-----------------------------------------------------------------------------
(* The refinement.                                                         *)

HoldStatuses == {"NONE", "RESERVED", "COMMITTED", "RELEASED"}

LEMMA GoldNow ==
    ASSUME NEW b \in Bids
    PROVE  /\ holds[b] = "NONE" => Gold[b] = "none"
           /\ holds[b] = "RESERVED" => Gold[b] = "held"
           /\ holds[b] = "COMMITTED" => Gold[b] = "spent"
           /\ holds[b] = "RELEASED" => Gold[b] = "back"
BY DEF Gold

LEMMA GoldNext ==
    ASSUME NEW b \in Bids
    PROVE  /\ holds'[b] = "NONE" => Gold'[b] = "none"
           /\ holds'[b] = "RESERVED" => Gold'[b] = "held"
           /\ holds'[b] = "COMMITTED" => Gold'[b] = "spent"
           /\ holds'[b] = "RELEASED" => Gold'[b] = "back"
BY DEF Gold

GoldOf(h) ==
    [b \in Bids |-> CASE h[b] = "NONE" -> "none" [] h[b] = "RESERVED" -> "held"
                     [] h[b] = "RELEASED" -> "back" [] h[b] = "COMMITTED" -> "spent"]

LEMMA GoldShape == ASSUME NEW h PROVE GoldOf(h) = [b \in Bids |-> GoldOf(h)[b]]
<1> DEFINE G(b) == CASE h[b] = "NONE" -> "none" [] h[b] = "RESERVED" -> "held"
                     [] h[b] = "RELEASED" -> "back" [] h[b] = "COMMITTED" -> "spent"
<1>1. GoldOf(h) = [b \in Bids |-> G(b)]
  BY DEF GoldOf
<1> HIDE DEF G
<1> QED BY <1>1

\* one hold's move is its gold's, and no other's
LEMMA GoldMoves ==
    ASSUME holds \in [Bids -> HoldStatuses], holds' \in [Bids -> HoldStatuses], NEW b \in Bids,
           \A c \in Bids \ {b} : holds'[c] = holds[c]
    PROVE  Gold' = [Gold EXCEPT ![b] = Gold'[b]]
<1>1. Gold = [c \in Bids |-> Gold[c]] /\ Gold' = [c \in Bids |-> Gold'[c]]
  <2>1. Gold = GoldOf(holds) /\ Gold' = GoldOf(holds')
    BY DEF Gold, GoldOf
  <2> QED BY <2>1, GoldShape
<1>2. ASSUME NEW c \in Bids \ {b} PROVE Gold'[c] = Gold[c]
  <2>1. holds[c] \in HoldStatuses /\ holds'[c] = holds[c]
    BY <1>2
  <2> QED BY <2>1, GoldNow, GoldNext DEF HoldStatuses
<1> QED BY <1>1, <1>2

LEMMA GoldStays == ASSUME holds' = holds PROVE Gold' = Gold
BY DEF Gold

LEMMA OutcomeNow ==
    /\ (\E b \in Bids : holds[b] = "COMMITTED") => AuctionOutcome = "sold"
    /\ (\A b \in Bids : holds[b] # "COMMITTED") =>
          AuctionOutcome = IF listing.status \in {"CANCELLED", "EXPIRED", "SETTLEMENT_FAILED"}
                           THEN "unsold" ELSE "open"
BY DEF AuctionOutcome

LEMMA OutcomeNext ==
    /\ (\E b \in Bids : holds'[b] = "COMMITTED") => AuctionOutcome' = "sold"
    /\ (\A b \in Bids : holds'[b] # "COMMITTED") =>
          AuctionOutcome' = IF listing'.status \in {"CANCELLED", "EXPIRED", "SETTLEMENT_FAILED"}
                            THEN "unsold" ELSE "open"
BY DEF AuctionOutcome

Kept == Promise!Next \/ UNCHANGED Promise!vars

\* a step that moves neither a hold nor a record may only call the sale off
LEMMA CallsOff ==
    ASSUME IInv, holds' = holds, recorded' = recorded,
           listing.status \in {"CANCELLED", "EXPIRED", "SETTLEMENT_FAILED"} =>
               listing'.status = listing.status
    PROVE  Kept
<1>1. Gold' = Gold
  BY GoldStays
<1>2. CASE \E b \in Bids : holds[b] = "COMMITTED"
  <2>1. AuctionOutcome = "sold" /\ AuctionOutcome' = "sold"
    BY <1>2, OutcomeNow, OutcomeNext
  <2> QED BY <1>1, <2>1 DEF Kept, Promise!vars
<1>3. CASE \A b \in Bids : holds[b] # "COMMITTED"
  <2>1. CASE AuctionOutcome' = AuctionOutcome
    BY <1>1, <2>1 DEF Kept, Promise!vars
  <2>2. CASE AuctionOutcome' # AuctionOutcome
    <3>1. AuctionOutcome = "open" /\ AuctionOutcome' = "unsold"
      BY <1>3, <2>2, OutcomeNow, OutcomeNext
    <3> QED BY <1>1, <3>1 DEF Kept, Promise!Next, Promise!CallOff
  <2> QED BY <2>1, <2>2
<1> QED BY <1>2, <1>3

\* gold that was held goes back
LEMMA GivesBack ==
    ASSUME IInv, IInv', NEW b \in Bids, holds[b] = "RESERVED",
           holds' = [holds EXCEPT ![b] = "RELEASED"], UNCHANGED <<listing, recorded>>
    PROVE  Kept
<1>1. holds \in [Bids -> HoldStatuses] /\ holds' \in [Bids -> HoldStatuses]
  BY DEF IInv, TypeOK, HoldStatuses
<1>2. holds'[b] = "RELEASED" /\ \A c \in Bids \ {b} : holds'[c] = holds[c]
  BY <1>1
<1>3. Gold[b] = "held" /\ Gold' = [Gold EXCEPT ![b] = "back"]
  BY <1>1, <1>2, GoldNow, GoldNext, GoldMoves
<1>4. AuctionOutcome' = AuctionOutcome
  <2>1. \A c \in Bids : (holds'[c] = "COMMITTED") <=> (holds[c] = "COMMITTED")
    BY <1>2
  <2> QED BY <2>1, OutcomeNow, OutcomeNext
<1>5. Promise!GiveBack(b)
  BY <1>3, <1>4 DEF Promise!GiveBack
<1> QED BY <1>5 DEF Kept, Promise!Next

LEMMA SpentNext == IInv' => SpentOnlyIfSold'
<1>1. IInv => SpentOnlyIfSold
  BY SpentFollows
<1> QED BY <1>1, PTL

\* what an activity does to the deal
LEMMA LandsKept ==
    ASSUME IInv, IInv', NEW a \in begun, LandsTo(a)
    PROVE  Kept
<1>1. ListingMoves(a) /\ HoldsMove(a) /\ RecordsMove(a)
  BY DEF LandsTo
<1>2. listing.status \in {"CANCELLED", "EXPIRED", "SETTLEMENT_FAILED"} => listing'.status = listing.status
  BY <1>1 DEF ListingMoves, StatusMoves
<1>3. SpentOnlyIfSold'
  BY SpentNext
<1>4. CASE holds' = holds /\ recorded' = recorded
  BY <1>2, <1>4, CallsOff
<1>5. CASE holds' # holds
  <2>1. /\ a = "CommitHold" /\ holds[frozen.winner] = "RESERVED" /\ holds'[frozen.winner] = "COMMITTED"
        /\ \A b \in Bids \ {frozen.winner} : holds'[b] = holds[b]
        /\ frozen.winner \in Bids
    <3>1. a = "CommitHold" /\ step = "CommitHold" /\ frozen.winner # NoBidId
      BY <1>1, <1>5 DEF HoldsMove, IInv, Control, NoBidsSteps
    <3>2. frozen.winner \in Bids
      BY <3>1, WinnerIsBid DEF IInv
    <3>3. /\ holds[frozen.winner] \in {"RESERVED", "COMMITTED"} /\ holds'[frozen.winner] = "COMMITTED"
          /\ \A b \in Bids \ {frozen.winner} : holds'[b] = holds[b]
      BY <1>1, <1>5 DEF HoldsMove
    <3>4. holds \in [Bids -> HoldStatuses] /\ holds' \in [Bids -> HoldStatuses]
      BY DEF IInv, TypeOK, HoldStatuses
    <3>5. holds[frozen.winner] # "COMMITTED"
      BY <1>5, <3>2, <3>3, <3>4
    <3> QED BY <3>1, <3>2, <3>3, <3>5
  <2>2. recorded' = recorded /\ listing'.status = listing.status
    BY <1>1, <2>1 DEF RecordsMove, ListingMoves, StatusMoves
  <2>3. \A b \in Bids : holds[b] # "COMMITTED"
    BY <2>1 DEF IInv, Spent
  <2>4. listing.status \notin {"CANCELLED", "EXPIRED", "SETTLEMENT_FAILED"}
    BY <1>3, <2>1, <2>2 DEF SpentOnlyIfSold
  <2>5. AuctionOutcome = "open" /\ AuctionOutcome' = "sold"
    BY <2>1, <2>3, <2>4, OutcomeNow, OutcomeNext
  <2>6. holds \in [Bids -> HoldStatuses] /\ holds' \in [Bids -> HoldStatuses]
    BY DEF IInv, TypeOK, HoldStatuses
  <2>7. Gold[frozen.winner] = "held" /\ Gold' = [Gold EXCEPT ![frozen.winner] = "spent"]
    BY <2>1, <2>6, GoldNow, GoldNext, GoldMoves
  <2>8. Promise!Sell(frozen.winner)
    BY <2>2, <2>5, <2>7 DEF Promise!Sell
  <2> QED BY <2>1, <2>8 DEF Kept, Promise!Next
<1>6. CASE holds' = holds /\ recorded' # recorded
  <2>1. a \in {"CreditSeller", "TransferItem", "AppendLedgerTx"} /\ listing'.status = listing.status
    BY <1>1, <1>6 DEF RecordsMove, ListingMoves, StatusMoves
  <2>2. holds[frozen.winner] = "COMMITTED" /\ frozen.winner \in Bids
    <3>1. begun \cap AfterPivot # {}
      BY <2>1 DEF AfterPivot
    <3> QED BY <3>1, WinnerIsBid DEF IInv, Spent, Control, AfterPivot, NoBidsSteps
  <2>3. AuctionOutcome = "sold" /\ AuctionOutcome' = "sold" /\ Gold' = Gold
    BY <1>6, <2>2, OutcomeNow, OutcomeNext, GoldStays
  <2>4. CASE a = "CreditSeller"
    <3>1. "credit" \notin recorded /\ recorded' = recorded \cup {"credit"}
      BY <1>1, <1>6, <2>4 DEF RecordsMove
    <3>2. Promise!Pay
      BY <2>3, <3>1 DEF Promise!Pay
    <3> QED BY <3>2 DEF Kept, Promise!Next
  <2>5. CASE a = "TransferItem"
    <3>1. "transfer" \notin recorded /\ recorded' = recorded \cup {"transfer"}
      BY <1>1, <1>6, <2>5 DEF RecordsMove
    <3>2. Promise!Deliver
      BY <2>3, <3>1 DEF Promise!Deliver
    <3> QED BY <3>2 DEF Kept, Promise!Next
  <2>6. CASE a = "AppendLedgerTx"
    <3>1. recorded' = recorded \cup {"ledger"}
      BY <1>1, <2>6 DEF RecordsMove
    <3>2. (("credit" \in recorded') <=> ("credit" \in recorded))
          /\ (("transfer" \in recorded') <=> ("transfer" \in recorded))
      BY <3>1
    <3> QED BY <2>3, <3>2 DEF Kept, Promise!vars
  <2> QED BY <2>1, <2>4, <2>5, <2>6
<1> QED BY <1>4, <1>5, <1>6

LEMMA DealAtFirst == Init => Promise!Init
<1> SUFFICES ASSUME Init PROVE Promise!Init
  OBVIOUS
<1>1. /\ \A b \in Bids : holds[b] \in {"NONE", "RESERVED", "RELEASED"}
      /\ recorded = {} /\ listing.status = "ACTIVE"
  <2>1. IInv /\ recorded = {} /\ holds \in [Bids -> {"NONE", "RESERVED", "RELEASED"}]
    BY AtFirst DEF Init, HoldsOf
  <2>2. listing.status = "ACTIVE"
    BY DEF Init, Shape, NewListing
  <2> QED BY <2>1, <2>2
<1>2. AuctionOutcome = "open"
  BY <1>1, OutcomeNow
<1>3. \A b \in Bids : Gold[b] \in {"none", "held", "back"}
  BY <1>1, GoldNow
<1>4. Gold = [b \in Bids |-> Gold[b]]
  <2>1. Gold = GoldOf(holds)
    BY DEF Gold, GoldOf
  <2> QED BY <2>1, GoldShape
<1>5. Gold \in [Bids -> {"none", "held", "back"}]
  BY <1>3, <1>4
<1> QED BY <1>1, <1>2, <1>5 DEF Promise!Init

LEMMA DealEveryStep ==
    ASSUME ~Lingers, IInv, IInv', [Next]_vars
    PROVE  Kept
<1>1. CASE Succeed
  <2>1. mode = "run" /\ step \in Activities /\ Perform(step)
    BY <1>1 DEF Succeed
  <2>2. step \in begun
    BY <2>1 DEF IInv, Control
  <2> QED BY <2>1, <2>2, Answered, LandsKept
<1>2. CASE \E a \in Activities : LandLate(a)
  <2>1. PICK a \in Activities : LandLate(a)
    BY <1>2
  <2>2. a \in begun /\ Lands(a)
    BY <2>1 DEF LandLate, Lands
  <2> QED BY <2>2, LandsEffect, LandsKept
<1>3. CASE Release
  <2>1. PICK b \in Bids : ReleaseHold(b)
    BY <1>3 DEF Release
  <2> QED BY <2>1, GivesBack DEF ReleaseHold
<1>4. CASE SellerWithdraws
  <2>1. holds' = holds /\ recorded' = recorded /\ listing.status = "ACTIVE"
    BY <1>4 DEF SellerWithdraws
  <2> QED BY <2>1, CallsOff
<1>5. CASE \/ Start \/ BeginCommit \/ Fail \/ TimeOut \/ Escalate \/ Lapse
           \/ StartWithdrawal \/ MarkWithdrawal \/ OtherListing \/ UNCHANGED vars
  <2>1. holds' = holds /\ recorded' = recorded /\ listing' = listing
    BY <1>5 DEF Start, BeginCommit, Fail, TimeOut, Escalate, Raise, Unpark, Resolve, Lapse,
                StartWithdrawal, MarkWithdrawal, OtherListing, vars, remote
  <2> QED BY <2>1, CallsOff
<1>6. CASE WithdrawalReturnsItem
  <2>1. UNCHANGED <<listing, holds, recorded>>
    BY <1>6, ItemReturned DEF WithdrawalReturnsItem, IInv
  <2> QED BY <2>1, CallsOff
<1> QED BY <1>1, <1>2, <1>3, <1>4, <1>5, <1>6 DEF Next, Answer

(* Whatever the outages, the late landings and the withdrawals, the settlement is an
   implementation of Deal: one sale or none, and only a sale pays, delivers and spends. *)
THEOREM KeepsPromiseCorrect == ~Lingers => (Spec => KeepsPromise)
<1> SUFFICES ASSUME ~Lingers PROVE Spec => KeepsPromise
  OBVIOUS
<1>1. IInv /\ IInv' /\ [Next]_vars => [Promise!Next]_(Promise!vars)
  BY DealEveryStep DEF Kept
<1>2. Spec => []IInv
  BY Inductive
<1> QED BY DealAtFirst, <1>1, <1>2, PTL DEF Spec, KeepsPromise, Promise!Spec
=============================================================================
