---------------------------- MODULE BidPlacement ----------------------------
(***************************************************************************)
(* How marketplace-service keeps a bid and the gold behind it together,    *)
(* though wallet holds the one and the listing records the other:          *)
(* try (wallet's PlaceHold), confirm (the write under the listing's row    *)
(* lock), cancel (a ReleaseHold workflow), and a reconciler for what a     *)
(* crash or an unanswered call leaves behind.                              *)
(*                                                                         *)
(* The listing is ListingAggregate's; a time before its lock and its end   *)
(* is 0 throughout, and settlement's freeze may close it at any step.  Of  *)
(* wallet there is one hold per bid: Wallet.tla has the rest.              *)
(***************************************************************************)
EXTENDS ListingAggregate

CONSTANTS
    Callers,     \* concurrent gRPC calls
    NobodysBid,  \* stands for no bid
    Keyed,       \* bids sent with an idempotency key: a resend is the same bid
    Overlap,     \* whether a resend may come before the call it repeats is over
    Troubled,    \* bids whose release may not start when asked, or outlast releaseWait,
                 \* and whose calls may die with their process
    MaxWrites,   \* maxWriteAttempts
    MaxCalls,    \* bound: calls per key
    MaxCrashes   \* bound: calls that die with their process

ASSUME PlacementConstants ==
    /\ NobodysBid \notin Bids
    /\ Keyed \subseteq Bids
    /\ Troubled \subseteq Bids
    /\ Overlap \in BOOLEAN
    /\ MaxWrites \in Nat \ {0, 1} /\ MaxCalls \in Nat \ {0} /\ MaxCrashes \in Nat
    /\ LockFrom > 0

VARIABLES
    listing,   \* the listing, as committed
    tx,        \* the transaction whose COMMIT nobody was told of; it holds the row lock
    holds,     \* holds[b]: wallet's hold for bid b
    call,      \* call[w]: the call w serves
    calls,     \* calls[b]: calls made to place b
    runs,      \* runs[b]: the ReleaseHold workflow of b, one for ever
    aged,      \* bids whose hold is older than reconcileHoldGrace
    judged,    \* bids the reconciler has found unclaimed and is about to release
    told,      \* history: the answers given
    crashes

vars == <<listing, tx, holds, call, calls, runs, aged, judged, told, crashes>>

NoHold == [status |-> "NONE", amount |-> 0]
Holds == [status : {"RESERVED", "RELEASED"}, amount : Amounts \cup {BuyoutPrice}] \cup {NoHold}

NoTx == [bid |-> NobodysBid, after |-> NewListing]
Idle == [pc |-> "idle", bid |-> NobodysBid, amount |-> 0, tries |-> 0]

Init ==
    /\ listing = NewListing
    /\ tx = NoTx
    /\ holds = [b \in Bids |-> NoHold]
    /\ call = [w \in Callers |-> Idle]
    /\ calls = [b \in Bids |-> 0]
    /\ runs = [b \in Bids |-> "none"]
    /\ aged = {} /\ judged = {} /\ told = {}
    /\ crashes = 0

Goto(w, p) == call' = [call EXCEPT ![w].pc = p]
Return(w) == call' = [call EXCEPT ![w] = Idle]
Placing(b) == {w \in Callers : call[w].bid = b /\ call[w].pc # "withdrawn"}

UnchangedReconciler == UNCHANGED <<aged, judged>>

-----------------------------------------------------------------------------
(* Try.                                                                    *)

\* the unlocked read lets the bid through; a recorded one would be a replay
PassesRead(b, amount) ==
    /\ b \notin Recorded(listing)
    /\ IF b \in Buyouts
       THEN ~HasBuyoutBy(listing, Bidder[b]) /\ CanBuyout(listing, Bidder[b], amount, 0)
       ELSE MayPlaceBid(listing, b, amount, 0)

\* a call or, under a key, a resend, which comes within reconcileHoldGrace of the hold
Begin(w, b, amount) ==
    /\ call[w] = Idle
    /\ calls[b] < IF b \in Keyed THEN MaxCalls ELSE 1
    /\ Overlap \/ Placing(b) = {}
    /\ b \notin aged
    /\ PassesRead(b, amount)
    /\ calls' = [calls EXCEPT ![b] = @ + 1]
    /\ call' = [call EXCEPT ![w] = [pc |-> "hold", bid |-> b, amount |-> amount, tries |-> 0]]
    /\ UNCHANGED <<listing, tx, holds, runs, told, crashes>> /\ UnchangedReconciler

\* a hold still RESERVED for the same amount is this call's
HeldFor(hold, amount) == hold = [status |-> "RESERVED", amount |-> amount]

Hold(w) ==
    LET b == call[w].bid
        asked == [status |-> "RESERVED", amount |-> call[w].amount]
    IN  /\ call[w].pc = "hold"
        /\ \/ holds[b] = NoHold /\ holds' = [holds EXCEPT ![b] = asked] /\ Goto(w, "write")
           \/ HeldFor(holds[b], call[w].amount) /\ UNCHANGED holds /\ Goto(w, "write")
           \/ ~HeldFor(holds[b], call[w].amount) /\ UNCHANGED holds /\ Return(w)
           \/ holds[b] = NoHold /\ holds' = [holds EXCEPT ![b] = asked] /\ Return(w)
        /\ UNCHANGED <<listing, tx, calls, runs, told, crashes>> /\ UnchangedReconciler

-----------------------------------------------------------------------------
(* Confirm.                                                                *)

\* what the write finds under the lock
Replayed(b) == b \in Buyouts /\ HasBuyoutBy(listing, Bidder[b])
Accepts(b, amount) ==
    IF b \in Buyouts THEN CanBuyout(listing, Bidder[b], amount, 0)
    ELSE MayPlaceBid(listing, b, amount, 0)
Confirmed(b, amount) ==
    IF b \in Buyouts THEN Buyout(listing, b)
    ELSE ConfirmBid(PlaceBid(listing, b, amount), b)

\* the row lock is free
Unlocked == tx = NoTx

\* the write is answered: recorded, refused, or the buyer's other buyout is there
Write(w) ==
    LET b == call[w].bid
        n == call[w].amount
    IN  /\ call[w].pc = "write" /\ Unlocked
        /\ CASE b \in Recorded(listing) ->
                  UNCHANGED listing /\ told' = told \cup {<<"recorded", b>>} /\ Return(w)
             [] b \notin Recorded(listing) /\ Replayed(b) ->
                  UNCHANGED <<listing, told>> /\ Goto(w, "replayed")
             [] b \notin Recorded(listing) /\ ~Replayed(b) /\ Accepts(b, n) ->
                  listing' = Confirmed(b, n) /\ told' = told \cup {<<"recorded", b>>} /\ Return(w)
             [] b \notin Recorded(listing) /\ ~Replayed(b) /\ ~Accepts(b, n) ->
                  UNCHANGED <<listing, told>> /\ Goto(w, "refused")
        /\ UNCHANGED <<tx, holds, calls, runs, crashes>> /\ UnchangedReconciler

\* mutant: a write whose COMMIT is in doubt is taken for refused
CompensateAtOnce(w) == Goto(w, "refused")

\* an attempt that proves nothing: another one, or ErrTransient and the hold left behind;
\* the deadline may end the attempts early, though never before the second
Unsettled(w) ==
    \/ call[w].tries + 1 < MaxWrites /\ call' = [call EXCEPT ![w].tries = @ + 1]
    \/ call[w].tries > 0 /\ Return(w)

\* the COMMIT of an accepted bid goes unanswered, or nothing reached the database
WriteUnanswered(w) ==
    LET b == call[w].bid
        n == call[w].amount
    IN  /\ call[w].pc = "write"
        /\ \/ /\ Unlocked /\ b \notin Recorded(listing) /\ ~Replayed(b) /\ Accepts(b, n)
              /\ tx' = [bid |-> b, after |-> Confirmed(b, n)]
           \/ UNCHANGED tx
        /\ Unsettled(w)
        /\ UNCHANGED <<listing, holds, calls, runs, told, crashes>> /\ UnchangedReconciler

\* mutant: a lock timeout on a retry is taken for proof that nothing was written
BusyIsProof(w) == IF call[w].bid \in Keyed THEN Return(w) ELSE Goto(w, "refused")

\* failedBeforeRead proves something of the first attempt only, and of a keyed bid not
\* that its id is spent
Busy(w) ==
    IF call[w].tries > 0 THEN Unsettled(w)
    ELSE IF call[w].bid \in Keyed THEN Return(w) ELSE Goto(w, "refused")

\* lock_timeout: someone holds the row
WriteBusy(w) ==
    /\ call[w].pc = "write"
    /\ Busy(w)
    /\ UNCHANGED <<listing, tx, holds, calls, runs, told, crashes>> /\ UnchangedReconciler

\* the transaction nobody was told of commits, or rolls back
Resolve ==
    /\ ~Unlocked
    /\ listing' \in {listing, tx.after}
    /\ tx' = NoTx
    /\ UNCHANGED <<holds, call, calls, runs, told, crashes>> /\ UnchangedReconciler

-----------------------------------------------------------------------------
(* Cancel.                                                                 *)

\* WithdrawBidUC's save; its release starts in a later step
Withdrawn(w, b) ==
    /\ call[w] = Idle
    /\ Unlocked
    /\ MayWithdrawBid(listing, b, Bidder[b], 0)
    /\ listing' \in WithdrawBid(listing, b)
    /\ call' = [call EXCEPT ![w] = [Idle EXCEPT !.pc = "withdrawn", !.bid = b]]
    /\ UNCHANGED <<tx, holds, calls, runs, told, crashes>> /\ UnchangedReconciler

Answer(w) ==
    /\ told' = IF call[w].pc \in {"refused", "wait"} THEN told \cup {<<"refused", call[w].bid>>}
               ELSE told
    /\ Return(w)

\* mutant: a refused bid is answered while its release runs
NobodyWaits(w) == FALSE

\* only PlaceBid waits
Waits(w) == call[w].pc = "refused" /\ call[w].bid \notin Buyouts

\* the one run of release-hold-<bid>: started, or found under the same id
StartRelease(w) ==
    LET b == call[w].bid
    IN  /\ call[w].pc \in {"refused", "replayed", "withdrawn"}
        /\ \/ /\ runs' = [runs EXCEPT ![b] = IF @ = "none" THEN "running" ELSE @]
              /\ IF Waits(w) THEN Goto(w, "wait") /\ UNCHANGED told ELSE Answer(w)
           \/ b \in Troubled /\ UNCHANGED runs /\ Answer(w)
        /\ UNCHANGED <<listing, tx, holds, calls, crashes>> /\ UnchangedReconciler

\* the release is over, or releaseWait is
Waited(w) ==
    /\ call[w].pc = "wait"
    /\ runs[call[w].bid] = "done" \/ call[w].bid \in Troubled
    /\ Answer(w)
    /\ UNCHANGED <<listing, tx, holds, calls, runs, crashes>> /\ UnchangedReconciler

\* wallet's ReleaseHold: a hold that is missing or released already is success
Released(b) ==
    holds' = [holds EXCEPT ![b] = IF @.status = "RESERVED" THEN [@ EXCEPT !.status = "RELEASED"]
                                  ELSE @]

RunRelease(b) ==
    /\ runs[b] = "running"
    /\ runs' = [runs EXCEPT ![b] = "done"]
    /\ Released(b)
    /\ UNCHANGED <<listing, tx, call, calls, told, crashes>> /\ UnchangedReconciler

Crash(w) ==
    /\ crashes < MaxCrashes
    /\ call[w].bid \in Troubled
    /\ Return(w)
    /\ crashes' = crashes + 1
    /\ UNCHANGED <<listing, tx, holds, calls, runs, told>> /\ UnchangedReconciler

\* settlement's first activity
FreezeListing ==
    /\ Unlocked
    /\ listing.status = "ACTIVE" /\ MayFreeze(listing)
    /\ listing' = Freeze(listing)
    /\ UNCHANGED <<tx, holds, call, calls, runs, told, crashes>> /\ UnchangedReconciler

-----------------------------------------------------------------------------
(* The reconciler.                                                         *)

\* the calls for b, and what they left in flight, are over well within reconcileHoldGrace
Settled(b) == Placing(b) = {} /\ tx.bid # b

Age(b) ==
    /\ holds[b].status = "RESERVED"
    /\ b \notin aged
    /\ Settled(b)
    /\ aged' = aged \cup {b}
    /\ UNCHANGED <<listing, tx, holds, call, calls, runs, judged, told, crashes>>

\* mutant: a bid counts as claimed once it was ever recorded
EverRecorded(b) == b \in Recorded(listing)

\* BidsHoldingGold, over what is committed
Claimed(b) == b \in Recorded(listing) \ Having(listing, {"CANCELLED", "FAILED"})

Judge(b) ==
    /\ b \in aged \ judged
    /\ holds[b].status = "RESERVED"
    /\ ~Claimed(b)
    /\ judged' = judged \cup {b}
    /\ UNCHANGED <<listing, tx, holds, call, calls, runs, aged, told, crashes>>

Reclaim(b) ==
    /\ b \in judged
    /\ judged' = judged \ {b}
    /\ Released(b)
    /\ UNCHANGED <<listing, tx, call, calls, runs, aged, told, crashes>>

-----------------------------------------------------------------------------
Proceed(w) ==
    \/ Hold(w) \/ Write(w) \/ WriteUnanswered(w) \/ WriteBusy(w) \/ StartRelease(w) \/ Waited(w)

Reconcile(b) == Age(b) \/ Judge(b) \/ Reclaim(b)

Next ==
    \/ \E w \in Callers, b \in Bids :
          \/ \E n \in Amounts : Begin(w, b, n)
          \/ Begin(w, b, BuyoutPrice) /\ b \in Buyouts
          \/ Withdrawn(w, b)
    \/ \E w \in Callers : Proceed(w) \/ Crash(w)
    \/ Resolve \/ FreezeListing
    \/ \E b \in Bids : RunRelease(b) \/ Reconcile(b)

Spec == Init /\ [][Next]_vars

\* Calls are answered within their timeouts, the database ends what its client left,
\* Temporal retries a release until it lands, and the reconciler ticks for ever.
Fairness ==
    /\ \A w \in Callers : WF_vars(Proceed(w))
    /\ WF_vars(Resolve)
    /\ \A b \in Bids : WF_vars(RunRelease(b)) /\ WF_vars(Reconcile(b))

LiveSpec == Spec /\ Fairness

-----------------------------------------------------------------------------
(* Properties.                                                             *)

TypeOK ==
    /\ listing \in Listing
    /\ tx \in [bid : Bids, after : Listing] \cup {NoTx}
    /\ holds \in [Bids -> Holds]
    /\ call \in [Callers -> [pc : {"idle", "hold", "write", "refused", "replayed", "withdrawn",
                                   "wait"},
                             bid : Bids \cup {NobodysBid},
                             amount : Amounts \cup {0, BuyoutPrice},
                             tries : 0..(MaxWrites - 1)]]
    /\ calls \in [Bids -> 0..MaxCalls]
    /\ runs \in [Bids -> {"none", "running", "done"}]
    /\ aged \subseteq Bids /\ judged \subseteq aged
    /\ told \subseteq {"recorded", "refused"} \X Bids
    /\ crashes \in 0..MaxCrashes

\* Every bid that leads or may lead again has its gold reserved, to the coin: whatever
\* is retried, released late, reconciled or lost (PlaceBidUC holds before it records,
\* and releases only what provably did not land).
LeaderBacked ==
    \A b \in Having(listing, {"WINNING", "OUTBID"}) :
        holds[b] = [status |-> "RESERVED", amount |-> listing.bids[b].amount]

\* A bidder told that a bid was refused never finds it on the listing afterwards, and one
\* told that it is recorded always does: also when the refusal settles an earlier
\* attempt whose COMMIT was in doubt (bidRejected), and also under a resent key.
RefusalsFinal ==
    /\ \A b \in Bids : <<"refused", b>> \in told => b \notin Recorded(listing) /\ tx.bid # b
    /\ \A b \in Bids : <<"recorded", b>> \in told => b \in Recorded(listing)

\* Where nothing outlasts the wait, a bidder hears of a refusal only once the gold is back
\* (ADR-0049; a buyout does not wait): it cannot be taken up by a resend.
RefusedGoldBack ==
    \A b \in Bids \ (Buyouts \cup Troubled) : <<"refused", b>> \in told => holds[b].status # "RESERVED"

\* Gold held for a bid that nobody recorded, or that left the auction, comes back or
\* finds its bid: whichever call, release or process failed in between.
OrphansReturned ==
    \A b \in Bids :
        (holds[b].status = "RESERVED" /\ b \notin Having(listing, LiveBid)) ~>
            (holds[b].status # "RESERVED" \/ b \in Having(listing, LiveBid))

=============================================================================
