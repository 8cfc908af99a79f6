----------------------------- MODULE Settlement -----------------------------
(***************************************************************************)
(* The settlement workflow of one listing, with the withdraw-listing       *)
(* workflow it may race, across the services whose activities they run:    *)
(* marketplace's listing and exceptions, wallet's holds, items-service's   *)
(* item, and the once-only records of wallet, items and ledger.            *)
(*                                                                         *)
(* Each activity is one local transaction in its service, delivered at     *)
(* least once: it may take effect without its answer reaching the          *)
(* workflow, and an attempt the workflow gave up on may still land at any  *)
(* later time.  A step that meets an outage escalates and parks            *)
(* (runUntilDone); a step its owner calls impossible rolls the settlement  *)
(* back before the pivot, CommitHold, and parks after it.  Of the race in  *)
(* CommitHold's own attempts the constant Lingers decides: where it is     *)
(* FALSE, an attempt that timed out has ended.  Not modelled: a late       *)
(* attempt to raise an exception, the cancelling of the workflow by hand.  *)
(***************************************************************************)
EXTENDS ListingAggregate, Sequences

CONSTANTS
    NoBidId,   \* settlement's "no winner"
    Lingers    \* whether an attempt of CommitHold may outlive its timeout

ASSUME SettlementConstants == NoBidId \notin Bids /\ Lingers \in BOOLEAN

VARIABLES
    listing,    \* marketplace's listing with its bids
    holds,      \* holds[b]: the status of wallet's hold for bid b
    lapsed,     \* whether the holds' expires_at, endsAt + settlementGrace, has passed
    commits,    \* CommitHold's attempts that have taken their Now: whether it was lapsed
    item,       \* items-service's row
    theirs,     \* history: the item as other listings left it, once one had it
    recorded,   \* the once-only records: processed_activities, item_transfers, ledger
    step,       \* the settlement workflow: its step,
    mode,       \*   what it does about it,
    raised,     \*   the exception runUntilDone knows it raised for it,
    frozen,     \*   and FreezeListing's answer
    begun,      \* the activities whose attempts have been scheduled
    open,       \* the steps with an OPEN exception
    alerted,    \* history: the rollback's exception queued its alert
    withdrawal, \* the withdraw-listing workflow: its two steps
    marked      \* withdrawal_started_at

remote == <<listing, holds, item, recorded>>
run == <<step, mode, raised, frozen, begun>>
exceptions == <<open, alerted>>
takedown == <<withdrawal, marked>>
vars == <<listing, holds, lapsed, commits, item, theirs, recorded, run, exceptions, takedown>>

BeforePivot == {"FreezeListing", "FreezeItem", "SetWinningBid", "CommitHold"}
AfterPivot ==
    {"ReleaseLosingHolds", "CreditSeller", "TransferItem", "AppendLedgerTx", "MarkSold"}
NoBidsSteps == {"ReturnItem", "ExpireListing"}
Rollback == {"MarkSettlementFailed", "LoseAllBids", "ReleaseAllHolds", "UnfreezeItem"}
Capped == BeforePivot \cup AfterPivot \cup NoBidsSteps
Activities == Capped \cup Rollback

NotFrozen == [known |-> FALSE, winner |-> NoBidId]

Item(status, owner, at) == [status |-> status, owner |-> owner, listing |-> at]
NoItem == Item("NONE", Seller, "none")

-----------------------------------------------------------------------------
(* What the activities find.                                               *)

Won == frozen.winner

\* wallet: whether an attempt whose Now was lapsed (or not) is let through
MayCommit(late) == holds[Won] = "COMMITTED" \/ (holds[Won] = "RESERVED" /\ ~late)

\* mutant: an item sold under any listing may be taken back
ReservedForAny(statuses) == item.listing # "none" /\ item.status \in statuses

\* items-service: the fence of every write settlement makes
ReservedHere(statuses) == item.listing = "here" /\ item.status \in statuses

MayFreezeItem ==
    item.owner = Seller /\ ReservedHere({"LISTED", "PENDING_SETTLEMENT"})

\* gone from this listing counts as returned
MayReturnItem == item.listing = "here" => item.status = "LISTED"

MayTransferItem == "transfer" \in recorded \/ ReservedHere({"PENDING_SETTLEMENT"})

\* a holder of gold that the losers' or the rollback's release has yet to reach
Unreleased(a) ==
    {b \in Recorded(listing) : /\ holds[b] \notin {"NONE", "RELEASED"}
                               /\ a = "ReleaseLosingHolds" => b # Won}

\* a's owner says that a can never succeed
Refused(a) ==
    \/ a = "FreezeListing" /\ ~MayFreeze(listing)
    \/ a = "FreezeItem" /\ ~MayFreezeItem
    \/ a = "SetWinningBid" /\ ~MaySetWinningBid(listing, Won)
    \/ a = "CommitHold" /\ commits # {} /\ ~MayCommit(TRUE \in commits)
    \/ a = "ReturnItem" /\ ~MayReturnItem
    \/ a = "ExpireListing" /\ ~MayExpire(listing)
    \/ a = "TransferItem" /\ ~MayTransferItem
    \/ a = "MarkSold" /\ ~MayMarkSold(listing)

-----------------------------------------------------------------------------
(* The activities' effects.                                                *)

OnListing(may, after) ==
    may /\ listing' = after /\ UNCHANGED <<holds, item, recorded>>

OnItem(may, after) ==
    may /\ item' = after /\ UNCHANGED <<listing, holds, recorded>>

Record(what) == recorded' = recorded \cup {what} /\ UNCHANGED <<listing, holds, item>>

Freed == Item("AVAILABLE", item.owner, "none")

ReturnItem == OnItem(MayReturnItem, IF ReservedHere({"LISTED"}) THEN Freed ELSE item)

UnfreezeItem ==
    OnItem(TRUE, IF MayFreezeItem THEN Freed ELSE item)

\* the transfer and its row of item_transfers are one transaction
TransferItem ==
    /\ MayTransferItem
    /\ item' = IF "transfer" \in recorded THEN item
               ELSE Item("AVAILABLE", Bidder[Won], "none")
    /\ recorded' = recorded \cup {"transfer"}
    /\ UNCHANGED <<listing, holds>>

CommitHold(late) ==
    /\ MayCommit(late)
    /\ holds' = [holds EXCEPT ![Won] = "COMMITTED"]
    /\ UNCHANGED <<listing, item, recorded>>

\* activity a succeeds; a release does when none of its holds is left to release
Perform(a) ==
    \/ a = "FreezeListing" /\ OnListing(MayFreeze(listing), Freeze(listing))
    \/ a = "ExpireListing" /\ OnListing(MayExpire(listing), Expire(listing))
    \/ a = "SetWinningBid" /\ OnListing(MaySetWinningBid(listing, Won), SetWinningBid(listing, Won))
    \/ a = "MarkSold" /\ OnListing(MayMarkSold(listing), MarkSold(listing))
    \/ a = "MarkSettlementFailed" /\ OnListing(TRUE, MarkSettlementFailed(listing))
    \/ a = "LoseAllBids" /\ OnListing(TRUE, LoseAllBids(listing))
    \/ a = "FreezeItem" /\ OnItem(MayFreezeItem, [item EXCEPT !.status = "PENDING_SETTLEMENT"])
    \/ a = "ReturnItem" /\ ReturnItem
    \/ a = "UnfreezeItem" /\ UnfreezeItem
    \/ a = "TransferItem" /\ TransferItem
    \/ a = "CreditSeller" /\ Record("credit")
    \/ a = "AppendLedgerTx" /\ Record("ledger")
    \/ a = "CommitHold" /\ commits # {} /\ CommitHold(TRUE \in commits)
    \/ a \in {"ReleaseLosingHolds", "ReleaseAllHolds"} /\ Unreleased(a) = {} /\ UNCHANGED remote

-----------------------------------------------------------------------------
(* The workflow.                                                           *)

\* the listings settlement can be started on: a leader above those it outbid, some bids
\* withdrawn, and the leader's own hold possibly gone (ADR-0049)
Shape(lead, outbid, left) ==
    [NewListing EXCEPT !.bids = [b \in Bids |->
        IF b \in lead THEN [status |-> "WINNING", amount |-> 2, led |-> FALSE]
        ELSE IF b \in outbid THEN [status |-> "OUTBID", amount |-> 1, led |-> FALSE]
        ELSE IF b \in left THEN [status |-> "CANCELLED", amount |-> 1, led |-> FALSE]
        ELSE NoBid]]

HoldsOf(l) ==
    {h \in [Bids -> {"NONE", "RESERVED", "RELEASED"}] :
        \A b \in Bids : /\ h[b] = "NONE" <=> b \notin Recorded(l)
                        /\ l.bids[b].status = "OUTBID" => h[b] = "RESERVED"}

Init ==
    /\ \E lead \in {{}} \cup {{b} : b \in Bids}, outbid, left \in SUBSET Bids :
          /\ lead \cap outbid = {} /\ (lead \cup outbid) \cap left = {}
          /\ lead = {} => outbid = {}
          /\ listing = Shape(lead, outbid, left)
    /\ holds \in HoldsOf(listing)
    /\ lapsed = FALSE /\ commits = {}
    /\ item \in {Item("LISTED", Seller, "here"), Item("AVAILABLE", Seller, "none")}
    /\ theirs = NoItem
    /\ recorded = {}
    /\ step = "none" /\ mode = "run" /\ raised = FALSE
    /\ frozen = NotFrozen /\ begun = {}
    /\ open = {} /\ alerted = FALSE
    /\ withdrawal = "none" /\ marked = FALSE

\* the next step is scheduled
Goto(s) ==
    /\ step' = s /\ mode' = "run" /\ raised' = FALSE
    /\ begun' = begun \cup ({s} \cap Activities)

\* a trigger: the expiry poller, a buyout, or the seller who accepts
Start ==
    /\ step = "none" /\ listing.status = "ACTIVE"
    /\ Goto("FreezeListing")
    /\ UNCHANGED <<remote, lapsed, commits, theirs, frozen, exceptions, takedown>>

\* mutant: the seller is paid before the buyer's gold is spent
PaidBeforePivot ==
    << "FreezeListing", "FreezeItem", "SetWinningBid", "CreditSeller", "CommitHold",
       "ReleaseLosingHolds", "TransferItem", "AppendLedgerTx", "MarkSold", "completed" >>

\* mutant: the buyer's gold is spent before the item is frozen
SpentBeforeFreeze ==
    << "FreezeListing", "SetWinningBid", "CommitHold", "FreezeItem", "ReleaseLosingHolds",
       "CreditSeller", "TransferItem", "AppendLedgerTx", "MarkSold", "completed" >>

SalePath ==
    << "FreezeListing", "FreezeItem", "SetWinningBid", "CommitHold", "ReleaseLosingHolds",
       "CreditSeller", "TransferItem", "AppendLedgerTx", "MarkSold", "completed" >>

NoBidsPath == << "FreezeListing", "ReturnItem", "ExpireListing", "completed" >>

RollbackPath ==
    << "MarkSettlementFailed", "LoseAllBids", "ReleaseAllHolds", "UnfreezeItem", "failed" >>

\* what follows s, given FreezeListing's answer; a rollback of FreezeListing itself has only the listing to fail
After(s, found) ==
    LET path == IF s \in Rollback THEN RollbackPath
                ELSE IF found.winner = NoBidId THEN NoBidsPath ELSE SalePath
        i == CHOOSE i \in DOMAIN path : path[i] = s
    IN  IF s = "MarkSettlementFailed" /\ ~found.known THEN "failed" ELSE path[i + 1]

FrozenAs(l) ==
    [known |-> TRUE, winner |-> IF Winning(l) = {} THEN NoBidId
                                ELSE CHOOSE b \in Winning(l) : TRUE]

\* without Lingers no attempt of CommitHold is left once the workflow has its answer
Ended == IF Lingers THEN commits ELSE {}

\* an attempt of CommitHold takes its Now; the last to do so is the one waited for
BeginCommit ==
    /\ step = "CommitHold" /\ mode = "run"
    /\ commits' = Ended \cup {lapsed}
    /\ UNCHANGED <<remote, lapsed, theirs, run, exceptions, takedown>>

\* the step's answer is success: its exception, if it raised one, is resolved first
Succeed ==
    /\ mode = "run" /\ step \in Activities
    /\ Perform(step)
    /\ frozen' = IF step = "FreezeListing" THEN FrozenAs(listing) ELSE frozen
    /\ IF raised THEN mode' = "resolve" /\ UNCHANGED <<step, raised, begun>>
       ELSE Goto(After(step, frozen'))
    /\ commits' = IF step = "CommitHold" THEN Ended ELSE commits
    /\ UNCHANGED <<lapsed, theirs, exceptions, takedown>>

\* the step's answer is that it is impossible: before the pivot the run gives it up
Fail ==
    /\ mode = "run" /\ Refused(step)
    /\ mode' = IF step \notin BeforePivot THEN "raise"
               ELSE IF raised THEN "give up" ELSE "condemn"
    /\ commits' = IF step = "CommitHold" THEN Ended ELSE commits
    /\ UNCHANGED <<remote, lapsed, theirs, step, raised, frozen, begun, exceptions, takedown>>

\* a capped step's cap passes with no answer
TimeOut ==
    /\ mode = "run" /\ step \in Capped
    /\ mode' = "raise"
    /\ commits' = Ended
    /\ UNCHANGED <<remote, lapsed, theirs, step, raised, frozen, begun, exceptions, takedown>>

\* RaiseSettlementException: at most one is open for a step, and only a new one alerts
Raise ==
    /\ mode \in {"raise", "condemn"}
    /\ open' = open \cup {step}
    /\ IF mode = "raise"
       THEN /\ mode' = "park" /\ raised' = TRUE
            /\ UNCHANGED <<step, begun, alerted>>
       ELSE /\ alerted' = (step \notin open)
            /\ Goto("MarkSettlementFailed")
    /\ UNCHANGED <<remote, lapsed, commits, theirs, frozen, takedown>>

\* a RetryStep signal, or the re-park timer
Unpark ==
    /\ mode = "park"
    /\ mode' = "run"
    /\ UNCHANGED <<remote, lapsed, commits, theirs, step, raised, frozen, begun,
                   exceptions, takedown>>

\* mutant: a step given up on leaves its exception open for the rollback to find
LeaveOpen ==
    /\ mode \in {"resolve", "give up"}
    /\ IF mode = "resolve" THEN open' = open \ {step} /\ Goto(After(step, frozen))
       ELSE open' = open /\ mode' = "condemn" /\ UNCHANGED <<step, raised, begun>>
    /\ UNCHANGED <<remote, lapsed, commits, theirs, frozen, alerted, takedown>>

\* resolveException
Resolve ==
    /\ mode \in {"resolve", "give up"}
    /\ open' = open \ {step}
    /\ IF mode = "resolve" THEN Goto(After(step, frozen))
       ELSE mode' = "condemn" /\ UNCHANGED <<step, raised, begun>>
    /\ UNCHANGED <<remote, lapsed, commits, theirs, frozen, alerted, takedown>>

-----------------------------------------------------------------------------
(* What goes on beside it.                                                 *)

\* an attempt the workflow no longer waits for, or whose answer it never gets, lands
LandLate(a) ==
    /\ a \in begun
    /\ \/ a # "CommitHold" /\ Perform(a)
       \/ a = "CommitHold" /\ \E late \in commits : CommitHold(late)
    /\ remote' # remote
    /\ UNCHANGED <<lapsed, commits, theirs, run, exceptions, takedown>>

\* who may release b's hold: a release of settlement's or the withdrawal's, the bidder's
\* own withdrawal of the bid, and wallet's expiry sweeper
Releasers(b) ==
    \/ "ReleaseLosingHolds" \in begun /\ b \in Unreleased("ReleaseLosingHolds")
    \/ "ReleaseAllHolds" \in begun /\ b \in Unreleased("ReleaseAllHolds")
    \/ withdrawal # "none"
    \/ listing.bids[b].status = "CANCELLED"
    \/ lapsed

ReleaseHold(b) ==
    /\ holds[b] = "RESERVED" /\ Releasers(b)
    /\ holds' = [holds EXCEPT ![b] = "RELEASED"]
    /\ UNCHANGED <<listing, item, recorded, lapsed, commits, theirs, run, exceptions, takedown>>

Lapse ==
    /\ ~lapsed /\ lapsed' = TRUE
    /\ UNCHANGED <<remote, commits, theirs, run, exceptions, takedown>>

\* the seller takes the listing down, under its row lock
SellerWithdraws ==
    /\ listing.status = "ACTIVE" /\ ~BoughtOut(listing)
    /\ listing' = Withdraw(listing)
    /\ UNCHANGED <<holds, item, recorded, lapsed, commits, theirs, run, exceptions, takedown>>

\* the seller's call or the backstop starts the withdrawal's workflow: once per listing
StartWithdrawal ==
    /\ listing.status = "CANCELLED" /\ ~marked /\ withdrawal = "none"
    /\ withdrawal' = "started"
    /\ UNCHANGED <<remote, lapsed, commits, theirs, run, exceptions, marked>>

\* mutant: the withdrawal is marked before its workflow has started
MarkUnstarted ==
    /\ listing.status = "CANCELLED" /\ ~marked
    /\ marked' = TRUE
    /\ UNCHANGED <<remote, lapsed, commits, theirs, run, exceptions, withdrawal>>

MarkWithdrawal ==
    /\ withdrawal # "none" /\ ~marked
    /\ marked' = TRUE
    /\ UNCHANGED <<remote, lapsed, commits, theirs, run, exceptions, withdrawal>>

\* the withdrawal's two steps are independent; its releases are ReleaseHold's
WithdrawalReturnsItem ==
    /\ withdrawal # "none"
    /\ ReturnItem
    /\ withdrawal' = "returned"
    /\ UNCHANGED <<lapsed, commits, theirs, run, exceptions, marked>>

\* the item, free again, is listed elsewhere by its owner, and frozen, sold or returned
OtherListing ==
    /\ \/ item.status = "AVAILABLE" /\ item' = Item("LISTED", item.owner, "other")
       \/ /\ item.listing = "other"
          /\ \/ item.status = "LISTED" /\ item' = [item EXCEPT !.status = "PENDING_SETTLEMENT"]
             \/ \E m \in Members : item' = Item("AVAILABLE", m, "none")
    /\ theirs' = item'
    /\ UNCHANGED <<listing, holds, recorded, lapsed, commits, run, exceptions, takedown>>

Escalate == Raise \/ Unpark \/ Resolve
Answer == Succeed \/ Fail
Release == \E b \in Bids : ReleaseHold(b)

Next ==
    \/ Start \/ BeginCommit \/ Answer \/ TimeOut \/ Escalate
    \/ \E a \in Activities : LandLate(a)
    \/ Release \/ Lapse
    \/ SellerWithdraws \/ StartWithdrawal \/ MarkWithdrawal \/ WithdrawalReturnsItem
    \/ OtherListing

Spec == Init /\ [][Next]_vars

\* The expiry poller and the withdrawal's backstop tick for ever; Temporal keeps an
\* accepted workflow's next step going; and a step that parked is run again within
\* reparkInterval, so an outage that does not last for ever does not stop it (SF).
Fairness ==
    /\ WF_vars(Start) /\ WF_vars(StartWithdrawal)
    /\ WF_vars(Escalate) /\ WF_vars(Release)
    /\ WF_vars(withdrawal = "started" /\ WithdrawalReturnsItem)
    /\ SF_vars(BeginCommit) /\ SF_vars(Answer)

LiveSpec == Spec /\ Fairness

-----------------------------------------------------------------------------
(* Properties.                                                             *)

TypeOK ==
    /\ listing \in Listing
    /\ holds \in [Bids -> {"NONE", "RESERVED", "COMMITTED", "RELEASED"}]
    /\ lapsed \in BOOLEAN /\ commits \subseteq BOOLEAN
    /\ {item, theirs} \subseteq [status : {"NONE", "AVAILABLE", "LISTED", "PENDING_SETTLEMENT"},
                                 owner : Members, listing : {"none", "here", "other"}]
    /\ recorded \subseteq {"credit", "transfer", "ledger"}
    /\ step \in Activities \cup {"none", "completed", "failed"}
    /\ mode \in {"run", "raise", "park", "resolve", "give up", "condemn"}
    /\ raised \in BOOLEAN
    /\ frozen \in [known : BOOLEAN, winner : Bids \cup {NoBidId}]
    /\ begun \subseteq Activities
    /\ open \subseteq Capped /\ alerted \in BOOLEAN
    /\ withdrawal \in {"none", "started", "returned"} /\ marked \in BOOLEAN

\* Gold is spent only for a listing that is sold or being sold: no listing that failed,
\* expired or was withdrawn ever has a COMMITTED hold, so the rollback's release can end
\* ("Before the pivot nothing has been spent", release_all_holds_usecase.go:14).
\* Past the pivot, and on the path without bids, no step can be impossible: the park that
\* an invariant breach would end in (park.go's afterPivot) is never entered for one.
SpentOnlyIfSold ==
    /\ listing.status \in {"SETTLEMENT_FAILED", "EXPIRED", "CANCELLED"} =>
          \A b \in Bids : holds[b] # "COMMITTED"
    /\ listing.status = "SOLD" => {"credit", "transfer", "ledger"} \subseteq recorded
    /\ step \in AfterPivot \cup NoBidsSteps => ~Refused(step)

\* Once the item has gone on sale under another listing, nothing this one still has in
\* flight - a late freeze, return, unfreeze or transfer - touches it (Req 24a).
ItemLetGo == theirs # NoItem => item = theirs

\* A parked step always shows as an OPEN exception, none is left open by a settlement that
\* completed, and a rollback always raises an alert of its own.
ExceptionsTell ==
    /\ mode = "park" => step \in open
    /\ step = "completed" => open = {}
    /\ step \in Rollback \cup {"failed"} => alerted

\* Whatever the outages, a settlement that started ends, and one whose listing was sold,
\* expired, failed or withdrawn leaves no gold reserved and no item held by the listing.
SettlementEnds ==
    /\ (step # "none") ~> (step \in {"completed", "failed"})
    /\ (listing.status \notin {"ACTIVE", "PENDING_SETTLEMENT"})
          ~> (item.listing # "here" /\ \A b \in Bids : holds[b] # "RESERVED")

\* Whatever the failures, the settlement does what Deal says the end of an auction does.
AuctionOutcome ==
    IF \E b \in Bids : holds[b] = "COMMITTED" THEN "sold"
    ELSE IF listing.status \in {"CANCELLED", "EXPIRED", "SETTLEMENT_FAILED"} THEN "unsold"
    ELSE "open"

Gold == [b \in Bids |-> CASE holds[b] = "NONE" -> "none" [] holds[b] = "RESERVED" -> "held"
                          [] holds[b] = "RELEASED" -> "back" [] holds[b] = "COMMITTED" -> "spent"]

Promise == INSTANCE Deal WITH outcome <- AuctionOutcome, gold <- Gold,
                              paid <- "credit" \in recorded, delivered <- "transfer" \in recorded

KeepsPromise == Promise!Spec

=============================================================================
