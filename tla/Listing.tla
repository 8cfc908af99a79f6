------------------------------ MODULE Listing ------------------------------
(***************************************************************************)
(* One listing of marketplace-service under every call that changes it:    *)
(* bidders' gRPC calls, the seller's, the expiry poller, and the           *)
(* settlement workflow's activities.                                       *)
(*                                                                         *)
(* ListingRepository.Update is one transaction under SELECT .. FOR UPDATE, *)
(* so a use case that writes through it is one action here.  What is not   *)
(* atomic is kept: a call takes its Now and its unlocked, advisory read in *)
(* one step and writes in a later one; WithdrawBid alone loads and saves   *)
(* in two transactions, under optimistic concurrency; settlement's         *)
(* activities are delivered at least once, and an attempt the workflow     *)
(* gave up on may land at any later time.                                  *)
(***************************************************************************)
EXTENDS ListingAggregate, Sequences

CONSTANTS
    Callers,      \* concurrent gRPC calls
    NoBidId,      \* settlement's "no winner"
    MaxRetries,   \* usecase/retry.go's maxRetries
    MaxTime       \* bound of the clock

ASSUME CallConstants ==
    /\ NoBidId \notin Bids
    /\ MaxRetries \in Nat \ {0}
    /\ MaxTime \in Nat

VARIABLES
    listing,    \* the row of listings with its rows of bids
    now,        \* the clock
    pc,         \* pc[w]: where w's call is
    req,        \* req[w]: what w was asked to do
    at,         \* at[w]: the call's Now
    snap,       \* snap[w]: the listing WithdrawBid loaded
    tries,      \* tries[w]: attempts of withRetry that lost a race
    step,       \* the settlement workflow: the activity it runs, or how it stands
    issued,     \* the activities whose attempts have been delivered to a worker
    frozen,     \* FreezeListing's answer, in the workflow's history
    handed,     \* the bid ids WithdrawListing handed to the withdraw workflow
    told        \* history: what callers have been answered, what the database refused

vars == <<listing, now, pc, req, at, snap, tries, step, issued, frozen, handed, told>>

NoReq == [op |-> "None"]
Requests ==
    [op : {"PlaceBid"}, bid : Bids \ Buyouts, amount : Amounts]
        \cup [op : {"Buyout"}, bid : Buyouts]
        \cup [op : {"WithdrawBid"}, bid : Bids, member : Members]
        \cup [op : {"Withdraw"}, member : Members]
        \cup [op : {"AcceptBid"}]

NotFrozen == [known |-> FALSE, winner |-> NoBidId, amount |-> 0, bids |-> {}]

Steps ==
    {"none", "FreezeListing", "ReturnItem", "ExpireListing", "FreezeItem", "SetWinningBid",
     "CommitHold", "MarkSold", "MarkSettlementFailed", "LoseAllBids", "completed", "failed"}
Activities ==
    {"FreezeListing", "ExpireListing", "SetWinningBid", "MarkSold", "MarkSettlementFailed",
     "LoseAllBids"}

Answers == ({"recorded", "withdrawn", "refused by index"} \X Bids) \cup {<<"taken down">>}

-----------------------------------------------------------------------------
(* The repository.                                                         *)

Changed(before, after) == {b \in Bids : after.bids[b] # before.bids[b]}
Inserted(before, after) == Changed(before, after) \ Recorded(before)
ToWinning(before, after) == (Changed(before, after) \cap Recorded(before)) \cap Winning(after)

\* the bids each of writeChanges' statements writes, in their order
Statements(before, after) ==
    << Changed(before, after) \ (Inserted(before, after) \cup ToWinning(before, after)),
       ToWinning(before, after),
       Inserted(before, after) >>

\* idx_bids_single_winner, which is checked after every statement
IndexRefuses(before, after) ==
    \E i \in 1..3 :
        LET written == UNION {Statements(before, after)[j] : j \in 1..i} IN
        Cardinality({b \in Bids :
            (IF b \in written THEN after.bids[b] ELSE before.bids[b]).status = "WINNING"}) > 1

\* a write that changes something moves the version on
Write(before, after) ==
    IF after = before THEN before ELSE [after EXCEPT !.version = before.version + 1]

\* the outcome of a transaction under Update that makes after of the listing for bid b
UpdateTo(after, b, answer) ==
    IF IndexRefuses(listing, after)
    THEN /\ told' = told \cup {<<"refused by index", b>>}
         /\ UNCHANGED listing
    ELSE /\ listing' = Write(listing, after)
         /\ told' = told \cup answer

-----------------------------------------------------------------------------
(* Callers.                                                                *)

Init ==
    /\ listing = NewListing
    /\ now = 0
    /\ pc = [w \in Callers |-> "idle"]
    /\ req = [w \in Callers |-> NoReq]
    /\ at = [w \in Callers |-> 0]
    /\ snap = [w \in Callers |-> NewListing]
    /\ tries = [w \in Callers |-> 0]
    /\ step = "none"
    /\ issued = {}
    /\ frozen = NotFrozen
    /\ handed = {}
    /\ told = {}

Return(w) ==
    /\ pc' = [pc EXCEPT ![w] = "idle"]
    /\ req' = [req EXCEPT ![w] = NoReq]
    /\ at' = [at EXCEPT ![w] = 0]
    /\ snap' = [snap EXCEPT ![w] = NewListing]
    /\ tries' = [tries EXCEPT ![w] = 0]

\* a call takes its Now, and goes on at p
Begin(w, r, p) ==
    /\ pc[w] = "idle"
    /\ req' = [req EXCEPT ![w] = r]
    /\ at' = [at EXCEPT ![w] = now]
    /\ pc' = [pc EXCEPT ![w] = p]
    /\ UNCHANGED <<listing, now, snap, tries, step, issued, frozen, handed, told>>

\* PlaceBidUC's unlocked read lets the bid through, and wallet holds the gold for it
BeginPlaceBid(w, b, amount) ==
    /\ b \notin Recorded(listing) \cup Buyouts
    /\ MayPlaceBid(listing, b, amount, now)
    /\ Begin(w, [op |-> "PlaceBid", bid |-> b, amount |-> amount], "write")

\* its write: recorded already, recorded and confirmed, or refused
WritePlaceBid(w) ==
    LET b == req[w].bid
        placed == PlaceBid(listing, b, req[w].amount)
    IN  /\ pc[w] = "write" /\ req[w].op = "PlaceBid"
        /\ IF b \in Recorded(listing)
           THEN UNCHANGED listing /\ told' = told \cup {<<"recorded", b>>}
           ELSE IF MayPlaceBid(listing, b, req[w].amount, at[w]) /\ MayConfirmBid(placed, b)
           THEN UpdateTo(ConfirmBid(placed, b), b, {<<"recorded", b>>})
           ELSE UNCHANGED <<listing, told>>
        /\ Return(w)
        /\ UNCHANGED <<now, step, issued, frozen, handed>>

\* BuyoutUC: a buyout that already landed goes straight to the start
BeginBuyout(w, b) ==
    /\ b \in Buyouts
    /\ IF b \in Recorded(listing) \/ HasBuyoutBy(listing, Bidder[b])
       THEN Begin(w, [op |-> "Buyout", bid |-> b], "start")
       ELSE /\ CanBuyout(listing, Bidder[b], BuyoutPrice, now)
            /\ Begin(w, [op |-> "Buyout", bid |-> b], "write")

WriteBuyout(w) ==
    LET b == req[w].bid
        replay == b \in Recorded(listing) \/ HasBuyoutBy(listing, Bidder[b])
        lands == CanBuyout(listing, Bidder[b], BuyoutPrice, at[w])
    IN  /\ pc[w] = "write" /\ req[w].op = "Buyout"
        /\ IF ~replay /\ lands
           THEN UpdateTo(Buyout(listing, b), b, {<<"recorded", b>>})
           ELSE UNCHANGED <<listing, told>>
        /\ IF replay \/ lands
           THEN pc' = [pc EXCEPT ![w] = "start"] /\ UNCHANGED <<req, at, snap, tries>>
           ELSE Return(w)
        /\ UNCHANGED <<now, step, issued, frozen, handed>>

\* AcceptBidUsecase decides on an unlocked read
BeginAccept(w, m, floor) ==
    /\ CanAcceptBid(listing, m, floor, now)
    /\ Begin(w, [op |-> "AcceptBid"], "start")

\* one workflow per listing, whoever starts it
Started == IF step = "none" THEN "FreezeListing" ELSE step

StartSettlement(w) ==
    /\ pc[w] = "start"
    /\ step' = Started
    /\ Return(w)
    /\ UNCHANGED <<listing, now, issued, frozen, handed, told>>

BeginWithdraw(w, m) == Begin(w, [op |-> "Withdraw", member |-> m], "write")

\* WithdrawListingUC: the bids are read under the lock that withdrew the listing
WriteWithdraw(w) ==
    /\ pc[w] = "write" /\ req[w].op = "Withdraw"
    /\ IF MayWithdraw(listing, req[w].member, at[w])
       THEN /\ listing' = Write(listing, Withdraw(listing))
            /\ handed' = Recorded(listing)
            /\ told' = told \cup {<<"taken down">>}
       ELSE UNCHANGED <<listing, handed, told>>
    /\ Return(w)
    /\ UNCHANGED <<now, step, issued, frozen>>

BeginWithdrawBid(w, b, m) ==
    Begin(w, [op |-> "WithdrawBid", bid |-> b, member |-> m], "load")

\* FindByID, and the verb on what it read: refused, or to be saved
LoadWithdrawBid(w) ==
    /\ pc[w] = "load"
    /\ IF MayWithdrawBid(listing, req[w].bid, req[w].member, at[w])
       THEN /\ snap' = [snap EXCEPT ![w] = listing]
            /\ pc' = [pc EXCEPT ![w] = "save"]
            /\ UNCHANGED <<req, at, tries>>
       ELSE Return(w)
    /\ UNCHANGED <<listing, now, step, issued, frozen, handed, told>>

\* mutant: an UPDATE without the version in its WHERE
Unversioned(before) == TRUE

\* WHERE version = expectedVersion, once no Update holds the row
VersionMatches(before) == listing.version = before.version

\* diffListing: the status as read and changed, of the bids only those that changed
Saved(before, after) ==
    [status |-> after.status, sold |-> after.sold, version |-> listing.version,
     bids |-> [b \in Bids |-> IF b \in Changed(before, after) THEN after.bids[b]
                              ELSE listing.bids[b]]]

SaveWithdrawBid(w) ==
    /\ pc[w] = "save"
    /\ VersionMatches(snap[w])
    /\ \E after \in WithdrawBid(snap[w], req[w].bid) :
          UpdateTo(Saved(snap[w], after), req[w].bid, {<<"withdrawn", req[w].bid>>})
    /\ Return(w)
    /\ UNCHANGED <<now, step, issued, frozen, handed>>

\* attempts < maxRetries, n of them having lost
RetriesLeft(n) == n + 1 < MaxRetries

\* ErrConcurrentModification: withRetry loads again, or gives up
SaveRaced(w) ==
    /\ pc[w] = "save"
    /\ ~VersionMatches(snap[w])
    /\ IF RetriesLeft(tries[w])
       THEN /\ tries' = [tries EXCEPT ![w] = @ + 1]
            /\ pc' = [pc EXCEPT ![w] = "load"]
            /\ snap' = [snap EXCEPT ![w] = NewListing]
            /\ UNCHANGED <<req, at>>
       ELSE Return(w)
    /\ UNCHANGED <<listing, now, step, issued, frozen, handed, told>>

\* the process dies between two of a call's steps
Crash(w) ==
    /\ pc[w] # "idle"
    /\ Return(w)
    /\ UNCHANGED <<listing, now, step, issued, frozen, handed, told>>

Tick ==
    /\ now < MaxTime
    /\ now' = now + 1
    /\ UNCHANGED <<listing, pc, req, at, snap, tries, step, issued, frozen, handed, told>>

-----------------------------------------------------------------------------
(* Settlement.                                                             *)

UnchangedCalls == UNCHANGED <<now, pc, req, at, snap, tries>>

\* mutant: the comparison with ends_at the wrong way round
NotYetEnded(l) == l.status = "ACTIVE" /\ now < EndsAt

\* ExpiredActiveListings
ExpiredActive(l) == l.status = "ACTIVE" /\ EndsAt <= now

\* a tick of the expiry poller: starting a settlement again is harmless
PollExpired ==
    /\ ExpiredActive(listing)
    /\ step = "none"
    /\ step' = Started
    /\ UnchangedCalls /\ UNCHANGED <<listing, issued, frozen, handed, told>>

\* an attempt of activity a reaches a worker
Issue(a) ==
    /\ step = a
    /\ a \notin issued
    /\ issued' = issued \cup {a}
    /\ UnchangedCalls /\ UNCHANGED <<listing, step, frozen, handed, told>>

\* whether a's use case answers with success, and what it then makes of the listing
Possible(a) ==
    CASE a = "FreezeListing" -> MayFreeze(listing)
      [] a = "SetWinningBid" -> MaySetWinningBid(listing, frozen.winner)
      [] a = "MarkSold"      -> MayMarkSold(listing)
      [] a = "ExpireListing" -> MayExpire(listing)
      [] a \in {"MarkSettlementFailed", "LoseAllBids"} -> TRUE

Effect(a) ==
    CASE a = "FreezeListing" -> Freeze(listing)
      [] a = "SetWinningBid" -> SetWinningBid(listing, frozen.winner)
      [] a = "MarkSold"      -> MarkSold(listing)
      [] a = "ExpireListing" -> Expire(listing)
      [] a = "MarkSettlementFailed" -> MarkSettlementFailed(listing)
      [] a = "LoseAllBids"   -> LoseAllBids(listing)

\* the winner FreezeListing finds, and every bid it read under the lock
FrozenAs(l) ==
    IF Winning(l) = {}
    THEN [known |-> TRUE, winner |-> NoBidId, amount |-> 0, bids |-> Recorded(l)]
    ELSE LET b == CHOOSE b \in Winning(l) : TRUE IN
         [known |-> TRUE, winner |-> b, amount |-> l.bids[b].amount, bids |-> Recorded(l)]

\* mutant: the hold is committed before the listing says who won
CommitsFirst(s) ==
    CASE s = "FreezeListing"        -> IF Winning(listing) = {} THEN "ReturnItem" ELSE "FreezeItem"
      [] s = "ReturnItem"           -> "ExpireListing"
      [] s = "FreezeItem"           -> "CommitHold"
      [] s = "CommitHold"           -> "MarkSold"
      [] s = "MarkSettlementFailed" -> IF frozen.known THEN "LoseAllBids" ELSE "failed"
      [] s = "LoseAllBids"          -> "failed"
      [] s \in {"MarkSold", "ExpireListing", "SetWinningBid"} -> "completed"

\* what the workflow does once step s has succeeded
NextStep(s) ==
    CASE s = "FreezeListing"        -> IF Winning(listing) = {} THEN "ReturnItem" ELSE "FreezeItem"
      [] s = "ReturnItem"           -> "ExpireListing"
      [] s = "FreezeItem"           -> "SetWinningBid"
      [] s = "SetWinningBid"        -> "CommitHold"
      [] s = "CommitHold"           -> "MarkSold"
      [] s = "MarkSettlementFailed" -> IF frozen.known THEN "LoseAllBids" ELSE "failed"
      [] s = "LoseAllBids"          -> "failed"
      [] s \in {"MarkSold", "ExpireListing"} -> "completed"

\* the attempt the workflow waits for succeeds
Succeed(a) ==
    /\ step = a /\ a \in issued
    /\ Possible(a)
    /\ listing' = Write(listing, Effect(a))
    /\ frozen' = IF a = "FreezeListing" THEN FrozenAs(listing) ELSE frozen
    /\ step' = NextStep(a)
    /\ UnchangedCalls /\ UNCHANGED <<issued, handed, told>>

\* an attempt the workflow no longer waits for, or whose answer it never gets, lands
LandLate(a) ==
    /\ a \in issued
    /\ Possible(a)
    /\ Effect(a) # listing
    /\ listing' = Write(listing, Effect(a))
    /\ UnchangedCalls /\ UNCHANGED <<step, issued, frozen, handed, told>>

\* an impossible step before the pivot rolls back; after it, the run parks for good
Impossible(a) ==
    /\ step = a /\ a \in issued
    /\ a \in {"FreezeListing", "SetWinningBid"}
    /\ ~Possible(a)
    /\ step' = "MarkSettlementFailed"
    /\ UnchangedCalls /\ UNCHANGED <<listing, issued, frozen, handed, told>>

\* wallet's and items-service's steps: the item or the hold may be impossible
Elsewhere ==
    /\ step \in {"ReturnItem", "FreezeItem", "CommitHold"}
    /\ \/ step' = NextStep(step)
       \/ step # "ReturnItem" /\ step' = "MarkSettlementFailed"
    /\ UnchangedCalls /\ UNCHANGED <<listing, issued, frozen, handed, told>>

Settle ==
    \/ \E a \in Activities : Issue(a) \/ Succeed(a) \/ Impossible(a)
    \/ Elsewhere

Call(w) ==
    \/ \E b \in Bids, n \in Amounts : BeginPlaceBid(w, b, n)
    \/ \E b \in Bids : BeginBuyout(w, b)
    \/ \E m \in Members, n \in Amounts : BeginAccept(w, m, n)
    \/ \E m \in Members : BeginWithdraw(w, m)
    \/ \E b \in Bids, m \in Members : BeginWithdrawBid(w, b, m)

Proceed(w) ==
    \/ WritePlaceBid(w) \/ WriteBuyout(w) \/ WriteWithdraw(w) \/ StartSettlement(w)
    \/ LoadWithdrawBid(w) \/ SaveWithdrawBid(w) \/ SaveRaced(w)

Next ==
    \/ \E w \in Callers : Call(w) \/ Proceed(w) \/ Crash(w)
    \/ PollExpired \/ Settle
    \/ \E a \in Activities : LandLate(a)
    \/ Tick

Spec == Init /\ [][Next]_vars

\* The poller ticks for ever, and Temporal retries a workflow's step until it answers.
Fairness == WF_vars(PollExpired) /\ WF_vars(Settle)

LiveSpec == Spec /\ Fairness

-----------------------------------------------------------------------------
(* Properties.                                                             *)

TypeOK ==
    /\ listing \in Listing
    /\ now \in 0..MaxTime
    /\ pc \in [Callers -> {"idle", "write", "load", "save", "start"}]
    /\ req \in [Callers -> Requests \cup {NoReq}]
    /\ at \in [Callers -> 0..MaxTime]
    /\ snap \in [Callers -> Listing]
    /\ tries \in [Callers -> 0..(MaxRetries - 1)]
    /\ step \in Steps
    /\ issued \subseteq Activities
    /\ frozen \in [known : BOOLEAN, winner : Bids \cup {NoBidId}, amount : Nat, bids : SUBSET Bids]
    /\ handed \subseteq Bids
    /\ told \subseteq Answers

\* Until a listing is sold its one leader is above every other bid that still holds
\* gold, and while it is on sale such bids never go without a leader, whoever placed,
\* withdrew or bought out in whatever order (ADR-0028).
LeaderIsHighest ==
    LET lead == Winning(listing)
        rest == Having(listing, {"OUTBID", "PENDING"})
    IN  /\ Cardinality(lead) <= 1
        /\ \A b \in lead, c \in rest : listing.bids[b].amount > listing.bids[c].amount
        /\ listing.status = "ACTIVE" /\ rest # {} => lead # {}

\* Once FreezeListing has answered, the winner it named is the only bid that can win,
\* the listing can be sold only to it at its price, and the bids it named are all there
\* will ever be: no bid, buyout, withdrawal or late attempt still in flight moves the
\* winner or joins after the write that ended the auction.
WinnerStands ==
    /\ frozen.known =>
        /\ Having(listing, {"WINNING", "WON"}) \subseteq {frozen.winner}
        /\ listing.status = "SOLD" =>
              listing.sold = [buyer |-> Bidder[frozen.winner], price |-> frozen.amount]
        /\ Recorded(listing) = frozen.bids
    /\ listing.status = "CANCELLED" /\ <<"taken down">> \in told => Recorded(listing) = handed

\* A landed buyout ends the contest: its bid leads, wins, or loses with every other.
BuyoutWins ==
    Recorded(listing) \cap Buyouts # {} =>
        \/ Having(listing, {"WINNING", "WON"}) \subseteq Buyouts
             /\ Having(listing, {"WINNING", "WON"}) # {}
        \/ listing.status = "SETTLEMENT_FAILED"

\* A bidder told that a bid is withdrawn, and a seller told that the listing is, can
\* rely on it: the bid stays CANCELLED, the listing stays CANCELLED with no live bid. And
\* nobody is told that a legal change of the leader failed: writeChanges' order of
\* statements never shows idx_bids_single_winner two leaders.
AnswersStand ==
    /\ \A b \in Bids : <<"refused by index", b>> \notin told
    /\ \A b \in Bids :
          /\ <<"withdrawn", b>> \in told => listing.bids[b].status = "CANCELLED"
          /\ <<"recorded", b>> \in told => b \in Recorded(listing)
    /\ <<"taken down">> \in told =>
          listing.status = "CANCELLED" /\ Having(listing, LiveBid \cup {"WON"}) = {}

\* Once the pivot has spent the winner's gold the listing can only be sold to it: it is
\* settling with the winner WON, or SOLD, and the workflow completes only when SOLD.
SpentMeansSold ==
    /\ step = "MarkSold" => /\ listing.status \in {"PENDING_SETTLEMENT", "SOLD"}
                            /\ Having(listing, {"WON"}) = {frozen.winner}
    /\ step = "completed" => listing.status = IF frozen.winner = NoBidId THEN "EXPIRED" ELSE "SOLD"

\* Every listing past its end is brought to a final status: sold, expired, withdrawn or
\* failed (ADR-0016: the expiry poller is the backstop of every other trigger).
AuctionConcludes ==
    (EndsAt <= now) ~> (listing.status \notin {"ACTIVE", "PENDING_SETTLEMENT"})

=============================================================================
