------------------------------- MODULE Wallet -------------------------------
(***************************************************************************)
(* wallet-service: accounts, the gold they own and the holds that fence    *)
(* part of it off for a bid.                                               *)
(*                                                                         *)
(* Every write follows the service's load-modify-save shape: a call reads  *)
(* an account in one step, decides in memory what it would do, and saves   *)
(* in a later step that succeeds only if accounts.version is still the one *)
(* it read (optimistic concurrency, usecase/retry.go).  Calls run in the   *)
(* Workers, which stand for gRPC handlers, Temporal activity workers and   *)
(* replicas alike; Sweeper is the goroutine of worker/hold_sweeper.go.     *)
(* A credit is one transaction of three statements at READ COMMITTED: the  *)
(* dedup row, the account row, the hold rows.                              *)
(***************************************************************************)
EXTENDS Integers, FiniteSets

CONSTANTS
    Members,      \* accounts, keyed by member
    Bids,         \* bid ids: wallet_holds.bid_id, UNIQUE
    Keys,         \* idempotency keys of credits: processed_activities
    SellerKeys,   \* the keys of settlement's CreditSeller; the others are Credit's
    Workers,      \* concurrent callers
    Sweeper,      \* the hold sweeper, one of the Workers
    Owner,        \* Owner[b]: the member whose gold a hold for b fences off
    Expiry,       \* Expiry[b]: the expires_at every PlaceHold for b carries
    KeyMember,    \* KeyMember[k]: the account the key's credit goes to
    KeyAmount,    \* KeyAmount[k]: and its amount
    Amounts,      \* gold a hold, a deposit or a withdrawal may ask for
    InitGold,     \* gold of every account at the start
    MaxInt,       \* math.MaxInt, the largest balance a Credit accepts
    MaxRetries,   \* usecase/retry.go's maxRetries
    Skew,         \* how far a service's clock may lag the database's
    MaxTime,      \* bound of the clock
    MaxDirect,    \* bound on the Deposit and Withdraw calls made
    MaxCrashes    \* bound on the calls that die half-way

ASSUME WalletConstants ==
    /\ IsFiniteSet(Members) /\ IsFiniteSet(Bids) /\ IsFiniteSet(Keys)
    /\ SellerKeys \subseteq Keys
    /\ Sweeper \in Workers
    /\ Owner \in [Bids -> Members]
    /\ Expiry \in [Bids -> Nat]
    /\ KeyMember \in [Keys -> Members]
    /\ Amounts \subseteq Nat \ {0}
    /\ KeyAmount \in [Keys -> Nat \ {0}]
    /\ MaxInt \in Nat /\ InitGold \in 0..MaxInt /\ MaxRetries \in Nat \ {0}
    /\ Skew \in Nat /\ MaxTime \in Nat /\ MaxDirect \in Nat /\ MaxCrashes \in Nat

VARIABLES
    accounts,   \* accounts[m]: the row of accounts with the wallet_holds of m
    processed,  \* processed_activities: the credits that have committed
    now,        \* the database's clock
    pc,         \* pc[w]: the statement w's call is at
    req,        \* req[w]: what w was asked to do
    at,         \* at[w]: the time w's call decides with
    snap,       \* snap[w]: the account w reconstituted
    tries,      \* tries[w]: attempts of withRetry that lost a race
    direct,     \* Deposit and Withdraw calls made so far
    crashes,    \* calls that died so far
    moved,      \* history: moved[m] is what Deposit less Withdraw added to m
    told        \* history: what callers have been answered about a bid

vars == <<accounts, processed, now, pc, req, at, snap, tries, direct, crashes,
          moved, told>>

-----------------------------------------------------------------------------
(* The aggregate: domain/account.                                          *)

Statuses == {"RESERVED", "COMMITTED", "RELEASED"}

NoHold == [status |-> "NONE", amount |-> 0]
Hold == [status : Statuses, amount : Amounts] \cup {NoHold}

Account == [gold : Int, version : Nat, holds : [Bids -> Hold]]
NoAccount == [gold |-> 0, version |-> 0, holds |-> [b \in Bids |-> NoHold]]

\* the sum of f[x] over the x of a set, counted coin by coin
Total(f, S) == Cardinality(UNION {{x} \X (1..f[x]) : x \in S})

\* the gold of the holds of a that are in a status of S
Held(a, S) ==
    Total([b \in Bids |-> a.holds[b].amount], {b \in Bids : a.holds[b].status \in S})

\* getAvailableGold: only RESERVED holds fence gold off
Available(a) == a.gold - Held(a, {"RESERVED"})

\* mutant: a released hold can still be committed
CanTransitionLax(from, to) == from # "COMMITTED" /\ to \in {"COMMITTED", "RELEASED"}

\* the FSM's whitelist, validHoldTransitions
CanTransition(from, to) == from = "RESERVED" /\ to \in {"COMMITTED", "RELEASED"}

\* Confirm and Cancel share this boundary: at the expiry itself a hold is live
Expired(b, t) == t > Expiry[b]

PlaceHoldErr(a, b, amount, t) ==
    LET h == a.holds[b] IN
    IF h # NoHold
    THEN IF h.status = "RESERVED" /\ h.amount = amount THEN "" ELSE "ErrBidAlreadyHeld"
    ELSE IF Available(a) < amount THEN "ErrHoldsExceedBalance"
    ELSE IF Expiry[b] <= t THEN "ErrInvalidHoldExpiry"
    ELSE ""

CommitHoldErr(a, b, expected, t) ==
    LET h == a.holds[b] IN
    IF h.amount # expected THEN "ErrHoldAmountMismatch"
    ELSE IF h.status = "COMMITTED" THEN ""
    ELSE IF Expired(b, t) THEN "ErrHoldExpired"
    ELSE IF a.gold < h.amount THEN "ErrInsufficientGold"
    ELSE IF ~CanTransition(h.status, "COMMITTED") THEN "ErrInvalidHoldTransition"
    ELSE ""

ReleaseHoldErr(a, b) ==
    LET h == a.holds[b] IN
    IF h.status = "RELEASED" \/ CanTransition(h.status, "RELEASED")
    THEN "" ELSE "ErrInvalidHoldTransition"

ExpireHoldErr(a, b, t) ==
    IF a.holds[b].status = "RESERVED" /\ ~Expired(b, t) THEN "ErrHoldNotExpired" ELSE ""

WithdrawErr(a, amount) ==
    IF Available(a) < amount THEN "ErrHoldsExceedBalance" ELSE ""

\* Credit refuses a balance it cannot hold; CreditSeller's Deposit adds unchecked
CreditErr(a, k) ==
    IF k \notin SellerKeys /\ a.gold > MaxInt - KeyAmount[k] THEN "ErrCreditOverflow" ELSE ""

\* a with the hold for b in status s for amount, and its gold
Put(a, b, s, amount, gold) ==
    [gold |-> gold, version |-> a.version,
     holds |-> [a.holds EXCEPT ![b] = [status |-> s, amount |-> amount]]]

PutGold(a, gold) == [gold |-> gold, version |-> a.version, holds |-> a.holds]

\* each is a no-op where the call is a replay of one already applied
PlaceHold(a, b, amount) ==
    IF a.holds[b] # NoHold THEN a
    ELSE Put(a, b, "RESERVED", amount, a.gold)

CommitHold(a, b) ==
    IF a.holds[b].status = "COMMITTED" THEN a
    ELSE Put(a, b, "COMMITTED", a.holds[b].amount, a.gold - a.holds[b].amount)

ReleaseHold(a, b) == Put(a, b, "RELEASED", a.holds[b].amount, a.gold)

ExpireHold(a, b) ==
    IF a.holds[b].status = "RESERVED" THEN ReleaseHold(a, b) ELSE a

Deposit(a, amount) == PutGold(a, a.gold + amount)
Withdraw(a, amount) == PutGold(a, a.gold - amount)

-----------------------------------------------------------------------------
(* The calls: one use case each.                                           *)

NoReq == [op |-> "None"]

BidRequests ==
    [op : {"PlaceHold", "CommitHold"}, bid : Bids, amount : Amounts]
        \cup [op : {"ReleaseHold", "ExpireHold"}, bid : Bids]
DirectRequests == [op : {"Deposit", "Withdraw"}, member : Members, amount : Amounts]
CreditRequests == [op : {"Credit"}, key : Keys]
Requests == BidRequests \cup DirectRequests \cup CreditRequests

\* the account a request is about; a hold's is found through its bid
MemberOf(r) ==
    CASE r.op \in {"Deposit", "Withdraw"} -> r.member
      [] r.op = "Credit"                  -> KeyMember[r.key]
      [] OTHER                            -> Owner[r.bid]

\* Reconstitute refuses the account before the aggregate is asked anything
Err(a, r, t) ==
    IF Available(a) < 0 THEN "ErrCorruptAccountState" ELSE
    CASE r.op = "PlaceHold"   -> PlaceHoldErr(a, r.bid, r.amount, t)
      [] r.op = "CommitHold"  -> CommitHoldErr(a, r.bid, r.amount, t)
      [] r.op = "ReleaseHold" -> ReleaseHoldErr(a, r.bid)
      [] r.op = "ExpireHold"  -> ExpireHoldErr(a, r.bid, t)
      [] r.op = "Withdraw"    -> WithdrawErr(a, r.amount)
      [] r.op = "Credit"      -> CreditErr(a, r.key)
      [] r.op = "Deposit"     -> ""

After(a, r) ==
    CASE r.op = "PlaceHold"   -> PlaceHold(a, r.bid, r.amount)
      [] r.op = "CommitHold"  -> CommitHold(a, r.bid)
      [] r.op = "ReleaseHold" -> ReleaseHold(a, r.bid)
      [] r.op = "ExpireHold"  -> ExpireHold(a, r.bid)
      [] r.op = "Withdraw"    -> Withdraw(a, r.amount)
      [] r.op = "Credit"      -> Deposit(a, KeyAmount[r.key])
      [] r.op = "Deposit"     -> Deposit(a, r.amount)

\* what the history keeps of an answer about a bid
Heard(r, err, wrote) ==
    IF err = "ErrCorruptAccountState" THEN {<<"CORRUPT", MemberOf(r)>>}
    ELSE IF err # "" THEN {}
    ELSE IF r.op = "CommitHold" THEN {<<"COMMITTED", r.bid>>}
    ELSE IF r.op = "ReleaseHold" THEN {<<"RELEASED", r.bid>>}
    ELSE IF r.op = "ExpireHold" /\ wrote THEN {<<"EXPIRED", r.bid>>}
    ELSE {}

Answers ==
    ({"COMMITTED", "RELEASED", "EXPIRED"} \X Bids)
        \cup ({"CORRUPT"} \X Members)

-----------------------------------------------------------------------------
Init ==
    /\ accounts = [m \in Members |-> [NoAccount EXCEPT !.gold = InitGold]]
    /\ processed = {}
    /\ now = 0
    /\ pc = [w \in Workers |-> "idle"]
    /\ req = [w \in Workers |-> NoReq]
    /\ at = [w \in Workers |-> 0]
    /\ snap = [w \in Workers |-> NoAccount]
    /\ tries = [w \in Workers |-> 0]
    /\ direct = 0 /\ crashes = 0
    /\ moved = [m \in Members |-> 0]
    /\ told = {}

\* w's call returns to its caller; nothing of it is left
Return(w) ==
    /\ pc' = [pc EXCEPT ![w] = "idle"]
    /\ req' = [req EXCEPT ![w] = NoReq]
    /\ at' = [at EXCEPT ![w] = 0]
    /\ snap' = [snap EXCEPT ![w] = NoAccount]
    /\ tries' = [tries EXCEPT ![w] = 0]

\* the times a service's clock may read when a call takes its Now from it; only
\* CommitHold and ExpireHold decide with it
Clocks(r) ==
    IF r.op \in {"CommitHold", "ExpireHold"} THEN {t \in 0..now : now - t <= Skew} ELSE {0}

Begin(w, r) ==
    /\ pc[w] = "idle"
    /\ req' = [req EXCEPT ![w] = r]
    /\ \E t \in Clocks(r) : at' = [at EXCEPT ![w] = t]
    /\ UNCHANGED <<accounts, processed, now, snap, tries, crashes, moved, told>>

\* PlaceHold, CommitHold and ReleaseHold, over gRPC or as an activity
BeginHoldCall(w) ==
    /\ w # Sweeper
    /\ \E r \in BidRequests : r.op # "ExpireHold" /\ Begin(w, r)
    /\ pc' = [pc EXCEPT ![w] = "load"]
    /\ UNCHANGED direct

BeginDirect(w) ==
    /\ w # Sweeper
    /\ direct < MaxDirect
    /\ direct' = direct + 1
    /\ \E r \in DirectRequests : Begin(w, r)
    /\ pc' = [pc EXCEPT ![w] = "load"]

BeginCredit(w) ==
    /\ w # Sweeper
    /\ \E r \in CreditRequests : Begin(w, r)
    /\ pc' = [pc EXCEPT ![w] = "mark"]
    /\ UNCHANGED direct

\* mutant: the comparison with expired_at the wrong way round
CandidateNotLapsed(b) ==
    accounts[Owner[b]].holds[b].status = "RESERVED" /\ ~Expired(b, now)

\* ExpiredHoldsQuery: RESERVED and lapsed by the database's clock
Candidate(b) == accounts[Owner[b]].holds[b].status = "RESERVED" /\ Expired(b, now)

\* one candidate of a sweep pass
BeginExpire(b) ==
    /\ Candidate(b)
    /\ Begin(Sweeper, [op |-> "ExpireHold", bid |-> b])
    /\ pc' = [pc EXCEPT ![Sweeper] = "load"]
    /\ UNCHANGED direct

\* FindByMemberID and FindByBidID: account and holds in one REPEATABLE READ
Load(w) ==
    LET r == req[w] IN
    /\ pc[w] = "load"
    /\ r.op \in {"CommitHold", "ReleaseHold"} => accounts[Owner[r.bid]].holds[r.bid] # NoHold
    /\ snap' = [snap EXCEPT ![w] = accounts[MemberOf(r)]]
    /\ at' = [at EXCEPT ![w] = IF r.op = "PlaceHold" THEN now ELSE @]
    /\ pc' = [pc EXCEPT ![w] = "save"]
    /\ UNCHANGED <<accounts, processed, now, req, tries, direct, crashes, moved, told>>

\* FindByBidID finds no hold: releaseOne's success; CommitHold's ErrNotFound, which its
\* activity does not know as permanent and has retried
LoadNotFound(w) ==
    LET r == req[w] IN
    /\ pc[w] = "load"
    /\ r.op \in {"CommitHold", "ReleaseHold"}
    /\ accounts[Owner[r.bid]].holds[r.bid] = NoHold
    /\ Return(w)
    /\ UNCHANGED <<accounts, processed, now, direct, crashes, moved, told>>

\* another transaction holds the uncommitted dedup row of k
KeyLocked(w, k) ==
    \E v \in Workers \ {w} :
        /\ pc[v] \in {"readAccount", "readHolds", "save"}
        /\ req[v] = [op |-> "Credit", key |-> k]

\* mutant: the insert is taken to have claimed the key whatever it found
AlwaysClaims(k) == TRUE

\* RowsAffected = 1
Claims(k) == k \notin processed

\* MarkActivityProcessed: INSERT .. ON CONFLICT DO NOTHING, which waits for the
\* transaction that inserted the row and reports whether this one claimed it
Mark(w) ==
    LET k == req[w].key IN
    /\ pc[w] = "mark"
    /\ ~KeyLocked(w, k)
    /\ IF Claims(k)
       THEN pc' = [pc EXCEPT ![w] = "readAccount"] /\ UNCHANGED <<req, at, snap, tries>>
       ELSE Return(w)
    /\ UNCHANGED <<accounts, processed, now, direct, crashes, moved, told>>

\* FindByMemberIDTx: two statements, each with a snapshot of its own
ReadAccount(w) ==
    LET a == accounts[MemberOf(req[w])] IN
    /\ pc[w] = "readAccount"
    /\ snap' = [snap EXCEPT ![w] = [NoAccount EXCEPT !.gold = a.gold, !.version = a.version]]
    /\ pc' = [pc EXCEPT ![w] = "readHolds"]
    /\ UNCHANGED <<accounts, processed, now, req, at, tries, direct, crashes, moved, told>>

ReadHolds(w) ==
    /\ pc[w] = "readHolds"
    /\ snap' = [snap EXCEPT ![w].holds = accounts[MemberOf(req[w])].holds]
    /\ pc' = [pc EXCEPT ![w] = "save"]
    /\ UNCHANGED <<accounts, processed, now, req, at, tries, direct, crashes, moved, told>>

\* Reconstitute or the aggregate refuses: the error goes back, the transaction of a
\* credit rolls back with its dedup row
Refuse(w) ==
    LET r == req[w]
        err == Err(snap[w], r, at[w])
    IN  /\ pc[w] = "save"
        /\ err # ""
        /\ told' = told \cup Heard(r, err, FALSE)
        /\ Return(w)
        /\ UNCHANGED <<accounts, processed, now, direct, crashes, moved>>

\* SaveTx with nothing to write succeeds without looking at the version
SaveNothing(w) ==
    LET r == req[w] IN
    /\ pc[w] = "save"
    /\ Err(snap[w], r, at[w]) = ""
    /\ After(snap[w], r) = snap[w]
    /\ told' = told \cup Heard(r, "", FALSE)
    /\ Return(w)
    /\ UNCHANGED <<accounts, processed, now, direct, crashes, moved>>

\* mutant: an UPDATE without the version in its WHERE
Unversioned(a, before) == TRUE

\* WHERE version = expectedVersion
VersionMatches(a, before) == a.version = before.version

\* mutant: the version is only moved on when gold moves
WrittenVersionless(a, before, after) ==
    [gold    |-> after.gold,
     version |-> IF after.gold # before.gold THEN a.version + 1 ELSE a.version,
     holds   |-> [b \in Bids |->
                    IF after.holds[b] # before.holds[b] THEN after.holds[b] ELSE a.holds[b]]]

\* diffAccount: gold is written as read and changed, of the holds only the changed rows
Written(a, before, after) ==
    [gold    |-> after.gold,
     version |-> a.version + 1,
     holds   |-> [b \in Bids |->
                    IF after.holds[b] # before.holds[b] THEN after.holds[b] ELSE a.holds[b]]]

Gain(r) ==
    CASE r.op = "Deposit"  -> r.amount
      [] r.op = "Withdraw" -> 0 - r.amount
      [] OTHER             -> 0

\* SaveTx writes, and the transaction commits with the dedup row of a credit
Save(w) ==
    LET r == req[w]
        m == MemberOf(r)
        after == After(snap[w], r)
    IN  /\ pc[w] = "save"
        /\ Err(snap[w], r, at[w]) = ""
        /\ after # snap[w]
        /\ VersionMatches(accounts[m], snap[w])
        /\ accounts' = [accounts EXCEPT ![m] = Written(@, snap[w], after)]
        /\ processed' = processed \cup (IF r.op = "Credit" THEN {r.key} ELSE {})
        /\ moved' = [moved EXCEPT ![m] = @ + Gain(r)]
        /\ told' = told \cup Heard(r, "", TRUE)
        /\ Return(w)
        /\ UNCHANGED <<now, direct, crashes>>

\* attempts < maxRetries, n of them having lost
RetriesLeft(n) == n + 1 < MaxRetries

\* ErrConcurrentModification: withRetry loads again, or gives up with ErrMaxRetries
SaveRaced(w) ==
    LET r == req[w] IN
    /\ pc[w] = "save"
    /\ Err(snap[w], r, at[w]) = ""
    /\ After(snap[w], r) # snap[w]
    /\ ~VersionMatches(accounts[MemberOf(r)], snap[w])
    /\ IF RetriesLeft(tries[w])
       THEN /\ tries' = [tries EXCEPT ![w] = @ + 1]
            /\ pc' = [pc EXCEPT ![w] = IF r.op = "Credit" THEN "mark" ELSE "load"]
            /\ snap' = [snap EXCEPT ![w] = NoAccount]
            /\ UNCHANGED <<req, at>>
       ELSE Return(w)
    /\ UNCHANGED <<accounts, processed, now, direct, crashes, moved, told>>

\* the process dies: an open transaction rolls back, nobody is answered
Crash(w) ==
    /\ pc[w] # "idle"
    /\ crashes < MaxCrashes
    /\ crashes' = crashes + 1
    /\ Return(w)
    /\ UNCHANGED <<accounts, processed, now, direct, moved, told>>

Tick ==
    /\ now < MaxTime
    /\ now' = now + 1
    /\ UNCHANGED <<accounts, processed, pc, req, at, snap, tries, direct, crashes, moved, told>>

Proceed(w) ==
    \/ Load(w) \/ LoadNotFound(w)
    \/ Mark(w) \/ ReadAccount(w) \/ ReadHolds(w)
    \/ Refuse(w) \/ SaveNothing(w) \/ Save(w) \/ SaveRaced(w)

Next ==
    \/ \E w \in Workers : \/ BeginHoldCall(w) \/ BeginDirect(w) \/ BeginCredit(w)
                          \/ Proceed(w) \/ Crash(w)
    \/ \E b \in Bids : BeginExpire(b)
    \/ Tick

Spec == Init /\ [][Next]_vars

\* A call that has begun is run to its end unless its process dies, and a sweep
\* pass tries every candidate its query returns, however often others come first
\* (expireHoldsPage's keyset moves past a hold whatever happened to it).
Fairness ==
    /\ \A w \in Workers : WF_vars(Proceed(w))
    /\ \A b \in Bids : SF_vars(BeginExpire(b))

LiveSpec == Spec /\ Fairness

-----------------------------------------------------------------------------
(* Properties.                                                             *)

TypeOK ==
    /\ accounts \in [Members -> Account]
    /\ processed \in SUBSET Keys
    /\ now \in 0..MaxTime
    /\ pc \in [Workers -> {"idle", "load", "mark", "readAccount", "readHolds", "save"}]
    /\ req \in [Workers -> Requests \cup {NoReq}]
    /\ at \in [Workers -> 0..MaxTime]
    /\ snap \in [Workers -> Account]
    /\ tries \in [Workers -> 0..(MaxRetries - 1)]
    /\ direct \in 0..MaxDirect /\ crashes \in 0..MaxCrashes
    /\ moved \in [Members -> Int]
    /\ told \in SUBSET Answers

\* No interleaving of holds, commits, withdrawals and credits reserves gold an
\* account does not own: the state Reconstitute refuses is never persisted.
NeverOverheld == \A m \in Members : Available(accounts[m]) >= 0

\* the credits to m that have committed
CreditsTo(m) == {k \in processed : KeyMember[k] = m}

\* Gold is neither minted nor lost: an account's balance and what its holds have
\* spent add up to what it started with, what Deposit and Withdraw moved, and each
\* processed key's credit exactly once, whatever was retried, raced or crashed. And
\* Credit's check keeps every balance within an int, as long as no Deposit or
\* CreditSeller, which add unchecked, has had a part in it.
GoldAccounted ==
    \A m \in Members :
        /\ accounts[m].gold + Held(accounts[m], {"COMMITTED"})
              = InitGold + moved[m] + Total(KeyAmount, CreditsTo(m))
        /\ direct = 0 /\ processed \cap SellerKeys = {} => accounts[m].gold <= MaxInt

\* what w's snapshot says of the row it was read from
SnapshotTells(w) ==
    LET a == accounts[MemberOf(req[w])] IN
    /\ pc[w] \in {"readHolds", "save"} =>
          /\ snap[w].version <= a.version
          /\ snap[w].version = a.version => snap[w].gold = a.gold
    /\ pc[w] = "save" =>
          /\ snap[w].version = a.version => snap[w].holds = a.holds
          /\ \A b \in Bids : snap[w].holds[b].status \in {"COMMITTED", "RELEASED"}
                               => a.holds[b] = snap[w].holds[b]

\* What optimistic concurrency rests on: a snapshot whose version is still the row's
\* is the row, holds and all, even one a credit read in two statements; and a stale
\* one never shows a hold settled in a way the row has not kept.
VersionsTell == \A w \in Workers : SnapshotTells(w)

\* A caller told that a hold is committed, or that it is released, can rely on it:
\* the row says so for ever after, so no bid is ever told both.
AnswersStand ==
    \A b \in Bids :
        LET s == accounts[Owner[b]].holds[b].status IN
        /\ <<"COMMITTED", b>> \in told => s = "COMMITTED"
        /\ <<"RELEASED", b>> \in told \/ <<"EXPIRED", b>> \in told => s = "RELEASED"

\* what one save may do to the hold for b: a to a2
HoldMove(a, a2, b) ==
    LET h == a.holds[b]
        h2 == a2.holds[b]
    IN  \/ h = NoHold /\ h2.status = "RESERVED"
        \/ /\ h.status = "RESERVED" /\ h2 = [status |-> "RELEASED", amount |-> h.amount]
           /\ a2.gold = a.gold
        \/ /\ h.status = "RESERVED" /\ h2 = [status |-> "COMMITTED", amount |-> h.amount]
           /\ a2.gold = a.gold - h.amount

\* Gold leaves an account for a hold in the very step that commits the hold, by the
\* hold's own amount, and a settled hold never changes again.
HoldSteps ==
    [][\A b \in Bids :
         accounts'[Owner[b]].holds[b] # accounts[Owner[b]].holds[b]
             => HoldMove(accounts[Owner[b]], accounts'[Owner[b]], b)]_vars

\* A reservation lapsed by every service's clock is given back, or committed by a call that
\* began in time, even when no caller ever releases it (FS-A3CQH: the sweep is the timeout
\* Cancel).
LapsedHoldsSettle ==
    \A b \in Bids :
        (accounts[Owner[b]].holds[b].status = "RESERVED" /\ Expired(b, now - Skew))
            ~> (accounts[Owner[b]].holds[b].status # "RESERVED")

\* account_repository.go: FindByMemberIDTx reads what FindByMemberID reads, so the
\* account it reconstitutes is never one whose holds exceed its gold.
NoHealthyAccountIsRefused == \A m \in Members : <<"CORRUPT", m>> \notin told

=============================================================================
