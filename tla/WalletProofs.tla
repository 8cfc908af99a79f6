---------------------------- MODULE WalletProofs ----------------------------
(***************************************************************************)
(* Theorems about Wallet, for any accounts, bids, keys, callers and        *)
(* clocks: type correctness, that optimistic concurrency makes every hold  *)
(* settle exactly once, that an answer once given stays true, that held    *)
(* gold never exceeds the balance, and that a balance is what the          *)
(* committed calls made of it, each key counted once.                      *)
(***************************************************************************)
EXTENDS Wallet, FiniteSetTheorems, FunctionTheorems, TLAPS

\* What each kind of request carries, and the account it is about.
LEMMA RequestShape ==
    ASSUME NEW r \in Requests
    PROVE  /\ MemberOf(r) \in Members
           /\ \/ /\ r.op \in {"PlaceHold", "CommitHold"}
                 /\ r.bid \in Bids /\ r.amount \in Amounts /\ MemberOf(r) = Owner[r.bid]
              \/ /\ r.op \in {"ReleaseHold", "ExpireHold"}
                 /\ r.bid \in Bids /\ MemberOf(r) = Owner[r.bid]
              \/ r.op \in {"Deposit", "Withdraw"} /\ r.amount \in Amounts
              \/ r.op = "Credit" /\ r.key \in Keys
  BY WalletConstants DEF Requests, BidRequests, DirectRequests, CreditRequests, MemberOf

\* What holds and credits are made of is gold: an integer, and of a hold never zero.
LEMMA AmountsType ==
    /\ \A n \in Amounts : n \in Int /\ n # 0
    /\ \A k \in Keys : KeyAmount[k] \in Int
  BY WalletConstants

\* Sums and differences of gold are gold.
LEMMA IntSum == \A x, y \in Int : x + y \in Int /\ x - y \in Int
  OBVIOUS

\* A version moved on by one is a version.
LEMMA NatSucc == \A n \in Nat : n + 1 \in Nat
  OBVIOUS

\* An idle call's empty snapshot has the type of an account.
LEMMA NoAccountType == NoAccount \in Account
  BY DEF NoAccount, Account, Hold, NoHold

\* Writing one hold of an account, and its gold.
LEMMA PutType ==
    ASSUME NEW a \in Account, NEW b \in Bids, NEW s \in Statuses, NEW n \in Amounts, NEW g \in Int
    PROVE  /\ Put(a, b, s, n, g) \in Account
           /\ Put(a, b, s, n, g).version = a.version
           /\ Put(a, b, s, n, g).gold = g
           /\ Put(a, b, s, n, g).holds[b] = [status |-> s, amount |-> n]
           /\ \A c \in Bids \ {b} : Put(a, b, s, n, g).holds[c] = a.holds[c]
  BY DEF Put, Account, Hold

\* Writing an account's gold alone: Deposit, Withdraw and Credit leave its holds.
LEMMA PutGoldType ==
    ASSUME NEW a \in Account, NEW g \in Int
    PROVE  /\ PutGold(a, g) \in Account
           /\ PutGold(a, g).version = a.version
           /\ PutGold(a, g).holds = a.holds
  BY DEF PutGold, Account

\* A hold that exists has an amount of gold.
LEMMA HoldAmount ==
    ASSUME NEW a \in Account, NEW b \in Bids, a.holds[b].status # "NONE"
    PROVE  /\ a.holds[b] = [status |-> a.holds[b].status, amount |-> a.holds[b].amount]
           /\ a.holds[b].amount \in Amounts /\ a.holds[b].amount \in Int
  <1>1. a.holds[b] \in Hold
    BY DEF Account
  <1>2. a.holds[b] \in [status : Statuses, amount : Amounts]
    BY <1>1 DEF Hold, NoHold
  <1> QED BY <1>2, AmountsType

\* a2 is an account and differs from a, if at all, by a legal move of the hold for b.
Moved(a, a2, b) ==
    /\ a2 \in Account
    /\ a2.version = a.version
    /\ \A c \in Bids : a2.holds[c] # a.holds[c] => c = b /\ HoldMove(a, a2, c)

\* A use case that changes nothing, a retry of what was done, moves no hold.
LEMMA SameMoves ==
    ASSUME NEW a \in Account, NEW b
    PROVE  Moved(a, a, b)
  BY DEF Moved

\* Account.PlaceHold reserves a hold that was not there, and moves no gold.
LEMMA PlaceHoldMoves ==
    ASSUME NEW a \in Account, NEW b \in Bids, NEW n \in Amounts
    PROVE  Moved(a, PlaceHold(a, b, n), b)
  <1>1. CASE a.holds[b] # NoHold
    BY <1>1, SameMoves DEF PlaceHold
  <1>2. CASE a.holds[b] = NoHold
    <2> DEFINE a2 == Put(a, b, "RESERVED", n, a.gold)
    <2>1. PlaceHold(a, b, n) = a2
      BY <1>2 DEF PlaceHold
    <2>2. "RESERVED" \in Statuses /\ a.gold \in Int
      BY DEF Statuses, Account
    <2>3. /\ a2 \in Account /\ a2.version = a.version
          /\ a2.holds[b] = [status |-> "RESERVED", amount |-> n]
          /\ \A c \in Bids \ {b} : a2.holds[c] = a.holds[c]
      BY <2>2, PutType
    <2> HIDE DEF a2
    <2>4. HoldMove(a, a2, b)
      BY <1>2, <2>3 DEF HoldMove
    <2> QED BY <2>1, <2>3, <2>4 DEF Moved
  <1> QED BY <1>1, <1>2

\* Account.CommitHold spends exactly what the hold reserved, or finds it spent.
LEMMA CommitHoldMoves ==
    ASSUME NEW a \in Account, NEW b \in Bids, a.holds[b].status \in {"RESERVED", "COMMITTED"}
    PROVE  Moved(a, CommitHold(a, b), b)
  <1>1. CASE a.holds[b].status = "COMMITTED"
    BY <1>1, SameMoves DEF CommitHold
  <1>2. CASE a.holds[b].status = "RESERVED"
    <2> DEFINE n == a.holds[b].amount
               a2 == Put(a, b, "COMMITTED", n, a.gold - n)
    <2>1. CommitHold(a, b) = a2
      BY <1>2 DEF CommitHold
    <2>2. n \in Amounts /\ n \in Int
      BY <1>2, HoldAmount
    <2>3. "COMMITTED" \in Statuses /\ a.gold - n \in Int
      BY <2>2 DEF Statuses, Account
    <2>4. /\ a2 \in Account /\ a2.version = a.version /\ a2.gold = a.gold - n
          /\ a2.holds[b] = [status |-> "COMMITTED", amount |-> n]
          /\ \A c \in Bids \ {b} : a2.holds[c] = a.holds[c]
      BY <2>2, <2>3, PutType
    <2> HIDE DEF a2
    <2>5. HoldMove(a, a2, b)
      BY <1>2, <2>4 DEF HoldMove
    <2> QED BY <2>1, <2>4, <2>5 DEF Moved
  <1> QED BY <1>1, <1>2

\* Account.ReleaseHold, and so Expire, frees a hold and moves no gold.
LEMMA ReleaseHoldMoves ==
    ASSUME NEW a \in Account, NEW b \in Bids, a.holds[b].status \in {"RESERVED", "RELEASED"}
    PROVE  Moved(a, ReleaseHold(a, b), b)
  <1> DEFINE n == a.holds[b].amount
             a2 == ReleaseHold(a, b)
  <1>1. n \in Amounts /\ a.holds[b] = [status |-> a.holds[b].status, amount |-> n]
    BY HoldAmount
  <1>2. "RELEASED" \in Statuses /\ a.gold \in Int
    BY DEF Statuses, Account
  <1>3. a2 = Put(a, b, "RELEASED", n, a.gold)
    BY DEF ReleaseHold
  <1>4. /\ a2 \in Account /\ a2.version = a.version /\ a2.gold = a.gold
        /\ a2.holds[b] = [status |-> "RELEASED", amount |-> n]
        /\ \A c \in Bids \ {b} : a2.holds[c] = a.holds[c]
    BY <1>1, <1>2, <1>3, PutType
  <1> HIDE DEF a2
  <1> SUFFICES Moved(a, a2, b)
    BY DEF a2
  <1>5. CASE a.holds[b].status = "RELEASED"
    <2>1. a2.holds[b] = a.holds[b]
      BY <1>1, <1>4, <1>5
    <2>2. \A c \in Bids : a2.holds[c] = a.holds[c]
      BY <1>4, <2>1
    <2> QED BY <1>4, <2>2 DEF Moved
  <1>6. CASE a.holds[b].status = "RESERVED"
    <2>1. HoldMove(a, a2, b)
      BY <1>4, <1>6 DEF HoldMove
    <2> QED BY <1>4, <2>1 DEF Moved
  <1> QED BY <1>5, <1>6

\* What a use case that is not refused makes of the account it loaded.
LEMMA AfterMoves ==
    ASSUME NEW a \in Account, NEW r \in Requests, NEW t \in Nat, Err(a, r, t) = ""
    PROVE  /\ After(a, r) \in Account
           /\ After(a, r).version = a.version
           /\ \A b \in Bids :
                 After(a, r).holds[b] # a.holds[b]
                     => Owner[b] = MemberOf(r) /\ HoldMove(a, After(a, r), b)
  <1>1. CASE r.op = "PlaceHold"
    <2>1. r.bid \in Bids /\ r.amount \in Amounts /\ MemberOf(r) = Owner[r.bid]
      BY <1>1, RequestShape
    <2>2. After(a, r) = PlaceHold(a, r.bid, r.amount)
      BY <1>1 DEF After
    <2>3. Moved(a, After(a, r), r.bid)
      BY <2>1, <2>2, PlaceHoldMoves
    <2> QED BY <2>1, <2>3 DEF Moved
  <1>2. CASE r.op = "CommitHold"
    <2>1. r.bid \in Bids /\ MemberOf(r) = Owner[r.bid]
      BY <1>2, RequestShape
    <2>2. After(a, r) = CommitHold(a, r.bid)
      BY <1>2 DEF After
    <2>3. CommitHoldErr(a, r.bid, r.amount, t) = ""
      BY <1>2 DEF Err
    <2>4. a.holds[r.bid].status \in {"RESERVED", "COMMITTED"}
      BY <2>3 DEF CommitHoldErr, CanTransition
    <2>5. Moved(a, After(a, r), r.bid)
      BY <2>1, <2>2, <2>4, CommitHoldMoves
    <2> QED BY <2>1, <2>5 DEF Moved
  <1>3. CASE r.op = "ReleaseHold"
    <2>1. r.bid \in Bids /\ MemberOf(r) = Owner[r.bid]
      BY <1>3, RequestShape
    <2>2. After(a, r) = ReleaseHold(a, r.bid)
      BY <1>3 DEF After
    <2>3. ReleaseHoldErr(a, r.bid) = ""
      BY <1>3 DEF Err
    <2>4. a.holds[r.bid].status \in {"RESERVED", "RELEASED"}
      BY <2>3 DEF ReleaseHoldErr, CanTransition
    <2>5. Moved(a, After(a, r), r.bid)
      BY <2>1, <2>2, <2>4, ReleaseHoldMoves
    <2> QED BY <2>1, <2>5 DEF Moved
  <1>4. CASE r.op = "ExpireHold"
    <2>1. r.bid \in Bids /\ MemberOf(r) = Owner[r.bid]
      BY <1>4, RequestShape
    <2>2. After(a, r) = ExpireHold(a, r.bid)
      BY <1>4 DEF After
    <2>3. Moved(a, ExpireHold(a, r.bid), r.bid)
      BY <2>1, ReleaseHoldMoves, SameMoves DEF ExpireHold
    <2> QED BY <2>1, <2>2, <2>3 DEF Moved
  <1>5. CASE r.op \in {"Deposit", "Withdraw", "Credit"}
    <2>1. PICK g \in Int : After(a, r) = PutGold(a, g)
      <3>1. CASE r.op = "Deposit"
        <4>1. After(a, r) = PutGold(a, a.gold + r.amount)
          BY <3>1 DEF After, Deposit
        <4>2. r.amount \in Int
          BY <3>1, RequestShape, AmountsType
        <4>3. a.gold \in Int
          BY DEF Account
        <4>4. a.gold + r.amount \in Int
          BY <4>2, <4>3, IntSum
        <4> QED BY <4>1, <4>4
      <3>2. CASE r.op = "Withdraw"
        <4>1. After(a, r) = PutGold(a, a.gold - r.amount)
          BY <3>2 DEF After, Withdraw
        <4>2. r.amount \in Int
          BY <3>2, RequestShape, AmountsType
        <4>3. a.gold \in Int
          BY DEF Account
        <4>4. a.gold - r.amount \in Int
          BY <4>2, <4>3, IntSum
        <4> QED BY <4>1, <4>4
      <3>3. CASE r.op = "Credit"
        <4>1. After(a, r) = PutGold(a, a.gold + KeyAmount[r.key])
          BY <3>3 DEF After, Deposit
        <4>2. KeyAmount[r.key] \in Int
          BY <3>3, RequestShape, AmountsType
        <4>3. a.gold \in Int
          BY DEF Account
        <4>4. a.gold + KeyAmount[r.key] \in Int
          BY <4>2, <4>3, IntSum
        <4> QED BY <4>1, <4>4
      <3> QED BY <1>5, <3>1, <3>2, <3>3
    <2> QED BY <2>1, PutGoldType
  <1> QED BY <1>1, <1>2, <1>3, <1>4, <1>5, RequestShape

\* What the save of a current snapshot writes.
Advanced(a, a2, m) ==
    /\ a2 \in Account
    /\ a2.version = a.version + 1
    /\ \A b \in Bids : a2.holds[b] # a.holds[b] => Owner[b] = m /\ HoldMove(a, a2, b)

\* What Save writes of a current snapshot is a legal move, one version on.
LEMMA WrittenMoves ==
    ASSUME NEW a \in Account, NEW r \in Requests, NEW t \in Nat, Err(a, r, t) = ""
    PROVE  /\ Advanced(a, Written(a, a, After(a, r)), MemberOf(r))
           /\ Written(a, a, After(a, r)).holds = After(a, r).holds
  <1> DEFINE d == After(a, r)
             a2 == Written(a, a, d)
  <1>1. /\ d \in Account
        /\ \A b \in Bids : d.holds[b] # a.holds[b] => Owner[b] = MemberOf(r) /\ HoldMove(a, d, b)
    BY AfterMoves
  <1> HIDE DEF d
  <1>2. a2.gold = d.gold /\ a2.version = a.version + 1
    BY DEF Written
  <1>3. a2.holds = d.holds
    <2>1. a2.holds = [b \in Bids |-> IF d.holds[b] # a.holds[b] THEN d.holds[b] ELSE a.holds[b]]
      BY DEF Written
    <2>2. d.holds \in [Bids -> Hold]
      BY <1>1 DEF Account
    <2> QED BY <2>1, <2>2
  <1>4. a2 \in Account
    <2>1. d.gold \in Int /\ d.holds \in [Bids -> Hold]
      BY <1>1 DEF Account
    <2>3. a.version + 1 \in Nat
      <3>1. a.version \in Nat
        BY DEF Account
      <3> QED BY <3>1, NatSucc
    <2>2. a2 = [gold |-> d.gold, version |-> a.version + 1, holds |-> d.holds]
      BY <1>3 DEF Written
    <2>4. [gold |-> d.gold, version |-> a.version + 1, holds |-> d.holds] \in Account
      BY <2>1, <2>3 DEF Account
    <2> QED BY <2>2, <2>4
  <1>5. \A b \in Bids : HoldMove(a, d, b) => HoldMove(a, a2, b)
    BY <1>2, <1>3 DEF HoldMove
  <1> QED BY <1>1, <1>2, <1>3, <1>4, <1>5 DEF Advanced, d

\* Whose answer settles a hold has settled it in what it writes, or found it settled.
LEMMA AfterSettles ==
    ASSUME NEW a \in Account, NEW r \in Requests, NEW t \in Nat, Err(a, r, t) = ""
    PROVE  /\ r.op = "CommitHold" => After(a, r).holds[r.bid].status = "COMMITTED"
           /\ r.op = "ReleaseHold" => After(a, r).holds[r.bid].status = "RELEASED"
           /\ r.op = "ExpireHold" /\ After(a, r) # a => After(a, r).holds[r.bid].status = "RELEASED"
  <1>1. ASSUME NEW b \in Bids
        PROVE  /\ CommitHold(a, b).holds[b].status = "COMMITTED"
               /\ ReleaseHold(a, b).holds[b].status = "RELEASED"
               /\ ExpireHold(a, b) # a => ExpireHold(a, b).holds[b].status = "RELEASED"
    BY DEF CommitHold, ReleaseHold, ExpireHold, Put, Account
  <1>2. CASE r.op = "CommitHold"
    BY <1>1, <1>2, RequestShape DEF After
  <1>3. CASE r.op = "ReleaseHold"
    BY <1>1, <1>3, RequestShape DEF After
  <1>4. CASE r.op = "ExpireHold"
    BY <1>1, <1>4, RequestShape DEF After
  <1> QED BY <1>2, <1>3, <1>4

-----------------------------------------------------------------------------
\* What a call under way knows of its request.
CallOK ==
    \A w \in Workers :
        /\ pc[w] # "idle" => req[w] \in Requests
        /\ pc[w] \in {"mark", "readAccount", "readHolds"} => req[w].op = "Credit"

\* The inductive invariant: VersionsTell is what makes Save's write a legal move, and
\* what lets SaveNothing answer from a snapshot.
IInv == TypeOK /\ CallOK /\ VersionsTell /\ AnswersStand

\* A call takes its request and its Now, whichever kind it is.
LEMMA BeginsType ==
    ASSUME TypeOK, NEW w \in Workers, NEW r \in Requests, Begin(w, r)
    PROVE  /\ req' \in [Workers -> Requests \cup {NoReq}]
           /\ req'[w] = r
           /\ \A v \in Workers \ {w} : req'[v] = req[v]
           /\ at' \in [Workers -> 0..MaxTime]
  <1>1. PICK t \in Clocks(r) : at' = [at EXCEPT ![w] = t]
    BY DEF Begin
  <1>2. t \in 0..MaxTime
    <2>1. now \in Nat /\ now <= MaxTime /\ MaxTime \in Nat
      BY WalletConstants DEF TypeOK
    <2>2. t = 0 \/ t \in 0..now
      BY DEF Clocks
    <2> QED BY <2>1, <2>2
  <1> QED BY <1>1, <1>2 DEF Begin, TypeOK

\* A call that returns leaves a worker idle, its state reset.
LEMMA ReturnType ==
    ASSUME TypeOK, NEW w \in Workers, Return(w)
    PROVE  /\ pc' \in [Workers -> {"idle", "load", "mark", "readAccount", "readHolds", "save"}]
           /\ req' \in [Workers -> Requests \cup {NoReq}]
           /\ at' \in [Workers -> 0..MaxTime]
           /\ snap' \in [Workers -> Account]
           /\ tries' \in [Workers -> 0..(MaxRetries - 1)]
  <1>1. 0 \in 0..MaxTime /\ 0 \in 0..(MaxRetries - 1)
    BY WalletConstants
  <1> QED BY <1>1, NoAccountType DEF TypeOK, Return

\* What a call is answered is one of the answers.
LEMMA HeardType ==
    ASSUME NEW r \in Requests, NEW err, NEW wrote \in BOOLEAN
    PROVE  Heard(r, err, wrote) \subseteq Answers
  <1>1. r.op \in {"CommitHold", "ReleaseHold", "ExpireHold"} => r.bid \in Bids
    BY RequestShape
  <1>2. MemberOf(r) \in Members
    BY RequestShape
  <1>3. \A b \in Bids : {<<"COMMITTED", b>>, <<"RELEASED", b>>, <<"EXPIRED", b>>} \subseteq Answers
    BY DEF Answers
  <1>4. \A m \in Members : <<"CORRUPT", m>> \in Answers
    BY DEF Answers
  <1> QED BY <1>1, <1>2, <1>3, <1>4 DEF Heard

\* Save writes onto the very account it read: the version check makes the snapshot
\* current, so what it writes is a legal move of it.
LEMMA SaveStep ==
    ASSUME IInv, NEW w \in Workers, Save(w)
    PROVE  LET r == req[w]
               m == MemberOf(r)
               a == accounts[m]
           IN  /\ r \in Requests /\ m \in Members /\ a \in Account
               /\ snap[w] = a
               /\ Err(a, r, at[w]) = "" /\ at[w] \in Nat
               /\ accounts' = [accounts EXCEPT ![m] = Written(a, a, After(a, r))]
               /\ Advanced(a, accounts'[m], m)
               /\ accounts'[m].holds = After(a, r).holds
  <1> DEFINE r == req[w]
             m == MemberOf(r)
             a == accounts[m]
  <1>1. pc[w] = "save" /\ r \in Requests
    BY DEF Save, IInv, CallOK
  <1>2. m \in Members
    BY <1>1, RequestShape
  <1>3. a \in Account /\ snap[w] \in Account
    BY <1>2 DEF IInv, TypeOK
  <1>4. snap[w].version = a.version
    BY DEF Save, VersionMatches
  <1>5. snap[w].gold = a.gold /\ snap[w].holds = a.holds
    BY <1>1, <1>4 DEF IInv, VersionsTell, SnapshotTells
  <1>6. snap[w] = a
    BY <1>3, <1>4, <1>5 DEF Account
  <1>7. at[w] \in Nat
    BY DEF IInv, TypeOK
  <1>8. Err(a, r, at[w]) = "" /\ accounts' = [accounts EXCEPT ![m] = Written(a, a, After(a, r))]
    BY <1>6 DEF Save
  <1>9. accounts'[m] = Written(a, a, After(a, r))
    BY <1>2, <1>8 DEF IInv, TypeOK
  <1> QED BY <1>1, <1>2, <1>3, <1>6, <1>7, <1>8, <1>9, WrittenMoves

\* No step but Save touches an account.
LEMMA OnlySaveWrites ==
    ASSUME [Next]_vars, \A w \in Workers : ~Save(w)
    PROVE  accounts' = accounts
  BY DEF Next, vars, BeginHoldCall, BeginDirect, BeginCredit, BeginExpire, Begin, Proceed, Load,
         LoadNotFound, Mark, ReadAccount, ReadHolds, Refuse, SaveNothing, SaveRaced, Crash, Tick

\* Every step leaves an account alone or advances it by one version and a legal move.
LEMMA StepAccounts ==
    ASSUME IInv, [Next]_vars
    PROVE  /\ accounts' \in [Members -> Account]
           /\ \A m \in Members :
                 accounts'[m] = accounts[m] \/ Advanced(accounts[m], accounts'[m], m)
  <1>1. CASE \E w \in Workers : Save(w)
    <2>1. PICK w \in Workers : Save(w)
      BY <1>1
    <2> DEFINE n == MemberOf(req[w])
               v == Written(accounts[n], accounts[n], After(accounts[n], req[w]))
    <2>2. n \in Members /\ accounts' = [accounts EXCEPT ![n] = v]
          /\ Advanced(accounts[n], accounts'[n], n)
      BY <2>1, SaveStep
    <2> HIDE DEF n, v
    <2>3. accounts \in [Members -> Account]
      BY DEF IInv, TypeOK
    <2>4. accounts'[n] \in Account /\ accounts'[n] = v
      BY <2>2, <2>3 DEF Advanced
    <2> QED BY <2>2, <2>3, <2>4
  <1>2. CASE \A w \in Workers : ~Save(w)
    BY <1>2, OnlySaveWrites DEF IInv, TypeOK
  <1> QED BY <1>1, <1>2

\* A settled hold is settled for good.
LEMMA SettledStays ==
    ASSUME NEW a \in Account, NEW a2, NEW m, NEW b \in Bids, a2 = a \/ Advanced(a, a2, m),
           a.holds[b].status \in {"COMMITTED", "RELEASED"}
    PROVE  a2.holds[b] = a.holds[b]
  <1> SUFFICES ASSUME Advanced(a, a2, m), a2.holds[b] # a.holds[b]
               PROVE  FALSE
    OBVIOUS
  <1>1. HoldMove(a, a2, b)
    BY DEF Advanced
  <1>2. a.holds[b].status \in {"NONE", "RESERVED"}
    BY <1>1 DEF HoldMove, NoHold
  <1> QED BY <1>2

\* A call that does not move keeps a snapshot that its version identifies.
LEMMA VersionsFrame ==
    ASSUME IInv, [Next]_vars, NEW w \in Workers,
           pc'[w] = pc[w], req'[w] = req[w], snap'[w] = snap[w]
    PROVE  SnapshotTells(w)'
  <1> DEFINE m == MemberOf(req[w])
             a == accounts[m]
             a2 == accounts'[m]
             s == snap[w]
  <1>1. CASE pc[w] \notin {"readHolds", "save"}
    BY <1>1 DEF SnapshotTells
  <1>2. CASE pc[w] \in {"readHolds", "save"}
    <2>1. m \in Members
      BY <1>2, RequestShape DEF IInv, CallOK
    <2>2. a \in Account /\ s \in Account
      BY <2>1 DEF IInv, TypeOK
    <2>3. a2 = a \/ Advanced(a, a2, m)
      BY <2>1, StepAccounts
    <2>4. SnapshotTells(w)
      BY DEF IInv, VersionsTell
    <2>5. MemberOf(req'[w]) = m
      OBVIOUS
    <2>6. s.version <= a2.version /\ (s.version = a2.version => a2 = a)
      <3>1. s.version <= a.version
        BY <1>2, <2>4 DEF SnapshotTells
      <3>2. s.version \in Nat /\ a.version \in Nat
        BY <2>2 DEF Account
      <3>3. a2 = a \/ a2.version = a.version + 1
        BY <2>3 DEF Advanced
      <3> HIDE DEF a, a2, s
      <3> QED BY <3>1, <3>2, <3>3
    <2>7. ASSUME pc[w] = "save", NEW b \in Bids, s.holds[b].status \in {"COMMITTED", "RELEASED"}
          PROVE  a2.holds[b] = s.holds[b]
      <3>1. a.holds[b] = s.holds[b]
        BY <2>4, <2>7 DEF SnapshotTells
      <3> QED BY <2>2, <2>3, <2>7, <3>1, SettledStays
    <2>8. /\ s.version = a2.version => s.gold = a2.gold
          /\ pc[w] = "save" => (s.version = a2.version => s.holds = a2.holds)
      BY <1>2, <2>4, <2>6 DEF SnapshotTells
    <2> QED BY <2>5, <2>6, <2>7, <2>8 DEF SnapshotTells
  <1> QED BY <1>1, <1>2

\* No step makes a snapshot's version lie: a credit's torn read is caught by it.
LEMMA VersionsStep ==
    ASSUME IInv, [Next]_vars
    PROVE  VersionsTell'
  <1> SUFFICES ASSUME NEW w \in Workers
               PROVE  SnapshotTells(w)'
    BY DEF VersionsTell
  <1>1. CASE pc'[w] \notin {"readHolds", "save"}
    BY <1>1 DEF SnapshotTells
  <1>2. CASE pc'[w] = pc[w] /\ req'[w] = req[w] /\ snap'[w] = snap[w]
    BY <1>2, VersionsFrame
  <1>3. CASE Load(w)
    <2>1. req[w] \in Requests
      BY <1>3 DEF Load, IInv, CallOK
    <2>2. /\ accounts' = accounts /\ req' = req
          /\ snap'[w] = accounts[MemberOf(req[w])]
      BY <1>3 DEF Load, IInv, TypeOK
    <2>3. accounts[MemberOf(req[w])].version \in Nat
      BY <2>1, RequestShape DEF IInv, TypeOK, Account
    <2> QED BY <2>2, <2>3 DEF SnapshotTells
  <1>4. CASE ReadAccount(w)
    <2> DEFINE a == accounts[MemberOf(req[w])]
    <2>1. req[w] \in Requests
      BY <1>4 DEF ReadAccount, IInv, CallOK
    <2>2. /\ accounts' = accounts /\ req' = req /\ pc'[w] = "readHolds"
          /\ snap'[w] = [NoAccount EXCEPT !.gold = a.gold, !.version = a.version]
      BY <1>4 DEF ReadAccount, IInv, TypeOK
    <2>3. snap'[w].gold = a.gold /\ snap'[w].version = a.version
      BY <2>2 DEF NoAccount
    <2>4. a.version \in Nat
      BY <2>1, RequestShape DEF IInv, TypeOK, Account
    <2> QED BY <2>2, <2>3, <2>4 DEF SnapshotTells
  <1>5. CASE ReadHolds(w)
    <2> DEFINE a == accounts[MemberOf(req[w])]
    <2>1. /\ accounts' = accounts /\ req' = req /\ pc[w] = "readHolds" /\ snap[w] \in Account
          /\ snap'[w] = [snap[w] EXCEPT !.holds = a.holds]
      BY <1>5 DEF ReadHolds, IInv, TypeOK
    <2>2. snap'[w].gold = snap[w].gold /\ snap'[w].version = snap[w].version /\ snap'[w].holds = a.holds
      BY <2>1 DEF Account
    <2>3. SnapshotTells(w)
      BY DEF IInv, VersionsTell
    <2> QED BY <2>1, <2>2, <2>3 DEF SnapshotTells
  <1> QED
    <2> SUFFICES ASSUME pc'[w] \in {"readHolds", "save"},
                        ~(pc'[w] = pc[w] /\ req'[w] = req[w] /\ snap'[w] = snap[w])
                 PROVE  Load(w) \/ ReadAccount(w) \/ ReadHolds(w)
      BY <1>1, <1>2, <1>3, <1>4, <1>5
    <2>1. PICK v \in Workers : \/ BeginHoldCall(v) \/ BeginDirect(v) \/ BeginCredit(v)
                               \/ Proceed(v) \/ Crash(v)
                               \/ v = Sweeper /\ \E b \in Bids : BeginExpire(b)
      BY WalletConstants DEF Next, vars, Tick
    <2>2. pc \in [Workers -> {"idle", "load", "mark", "readAccount", "readHolds", "save"}]
          /\ req \in [Workers -> Requests \cup {NoReq}] /\ snap \in [Workers -> Account]
      BY DEF IInv, TypeOK
    <2>3. v = w
      BY <2>1, <2>2 DEF BeginHoldCall, BeginDirect, BeginCredit, BeginExpire, Begin, Proceed, Load,
         LoadNotFound, Mark, ReadAccount, ReadHolds, Refuse, SaveNothing, Save, SaveRaced, Crash, Return
    <2> QED BY <2>1, <2>2, <2>3 DEF BeginHoldCall, BeginDirect, BeginCredit, BeginExpire, Proceed,
         LoadNotFound, Mark, Refuse, SaveNothing, Save, SaveRaced, Crash, Return

\* Every step keeps a call's place, request and snapshot consistent.
LEMMA CallStep ==
    ASSUME IInv, [Next]_vars
    PROVE  CallOK'
  <1> USE DEF IInv, TypeOK, CallOK
  <1>1. ASSUME NEW w \in Workers, NEW r \in Requests, Begin(w, r),
               \/ pc' = [pc EXCEPT ![w] = "load"]
               \/ pc' = [pc EXCEPT ![w] = "mark"] /\ r.op = "Credit"
        PROVE  CallOK'
    BY <1>1, BeginsType
  <1>2. ASSUME NEW w \in Workers, BeginHoldCall(w)
        PROVE  CallOK'
    BY <1>1, <1>2 DEF BeginHoldCall, Requests
  <1>3. ASSUME NEW w \in Workers, BeginDirect(w)
        PROVE  CallOK'
    BY <1>1, <1>3 DEF BeginDirect, Requests
  <1>4. ASSUME NEW w \in Workers, BeginCredit(w)
        PROVE  CallOK'
    BY <1>1, <1>4 DEF BeginCredit, Requests, CreditRequests
  <1>5. ASSUME NEW b \in Bids, BeginExpire(b)
        PROVE  CallOK'
    <2>1. [op |-> "ExpireHold", bid |-> b] \in Requests
      BY DEF Requests, BidRequests
    <2> QED BY <1>1, <1>5, <2>1, WalletConstants DEF BeginExpire
  <1>6. ASSUME NEW w \in Workers, Return(w)
        PROVE  CallOK'
    BY <1>6 DEF Return
  <1>7. ASSUME NEW w \in Workers, Load(w) \/ ReadAccount(w) \/ ReadHolds(w)
        PROVE  CallOK'
    BY <1>7 DEF Load, ReadAccount, ReadHolds
  <1>8. ASSUME NEW w \in Workers, Mark(w)
        PROVE  CallOK'
    BY <1>6, <1>8 DEF Mark
  <1>9. ASSUME NEW w \in Workers, SaveRaced(w)
        PROVE  CallOK'
    BY <1>6, <1>9 DEF SaveRaced
  <1>10. ASSUME NEW w \in Workers,
                LoadNotFound(w) \/ Refuse(w) \/ SaveNothing(w) \/ Save(w) \/ Crash(w)
         PROVE  CallOK'
    BY <1>6, <1>10 DEF LoadNotFound, Refuse, SaveNothing, Save, Crash
  <1>11. ASSUME Tick \/ UNCHANGED vars
         PROVE  CallOK'
    BY <1>11 DEF Tick, vars
  <1> QED BY <1>2, <1>3, <1>4, <1>5, <1>7, <1>8, <1>9, <1>10, <1>11 DEF Next, Proceed

\* What a step adds to the history of answers.
LEMMA ToldStep ==
    ASSUME IInv, NEW w \in Workers,
           LoadNotFound(w) \/ Refuse(w) \/ SaveNothing(w) \/ Save(w)
    PROVE  /\ told' \in SUBSET Answers
           /\ \A b \in Bids :
                LET s == accounts'[Owner[b]].holds[b].status IN
                /\ <<"COMMITTED", b>> \in told' \ told => s = "COMMITTED"
                /\ <<"RELEASED", b>> \in told' \ told => s = "RELEASED"
                /\ <<"EXPIRED", b>> \in told' \ told => s = "RELEASED"
  <1> DEFINE r == req[w]
             m == MemberOf(r)
  <1>1. r \in Requests /\ m \in Members /\ told \in SUBSET Answers
        /\ snap[w] \in Account /\ at[w] \in Nat
    <2>1. pc[w] # "idle"
      BY DEF LoadNotFound, Refuse, SaveNothing, Save
    <2>2. r \in Requests
      BY <2>1 DEF IInv, CallOK
    <2>3. m \in Members
      BY <2>2, RequestShape
    <2>4. told \in SUBSET Answers /\ snap[w] \in Account /\ at[w] \in 0..MaxTime
      BY DEF IInv, TypeOK
    <2> QED BY <2>2, <2>3, <2>4
  <1>2. CASE LoadNotFound(w)
    BY <1>1, <1>2 DEF LoadNotFound
  <1>3. CASE Refuse(w)
    <2>1. told' = told \cup Heard(r, Err(snap[w], r, at[w]), FALSE) /\ Err(snap[w], r, at[w]) # ""
      BY <1>3 DEF Refuse
    <2>2. Heard(r, Err(snap[w], r, at[w]), FALSE) \subseteq {<<"CORRUPT", m>>}
      BY <2>1 DEF Heard
    <2> QED BY <1>1, <2>1, <2>2, HeardType
  <1>4. CASE SaveNothing(w)
    <2>1. /\ told' = told \cup Heard(r, "", FALSE) /\ Err(snap[w], r, at[w]) = ""
          /\ After(snap[w], r) = snap[w] /\ pc[w] = "save" /\ accounts' = accounts
      BY <1>4 DEF SaveNothing
    <2>2. Heard(r, "", FALSE) = (IF r.op = "CommitHold" THEN {<<"COMMITTED", r.bid>>}
                                 ELSE IF r.op = "ReleaseHold" THEN {<<"RELEASED", r.bid>>} ELSE {})
      BY DEF Heard
    <2>3. /\ r.op = "CommitHold" => snap[w].holds[r.bid].status = "COMMITTED"
          /\ r.op = "ReleaseHold" => snap[w].holds[r.bid].status = "RELEASED"
      BY <1>1, <2>1, AfterSettles
    <2>4. r.op \in {"CommitHold", "ReleaseHold"} => r.bid \in Bids /\ m = Owner[r.bid]
      BY <1>1, RequestShape
    <2>5. \A b \in Bids : snap[w].holds[b].status \in {"COMMITTED", "RELEASED"}
                            => accounts[m].holds[b] = snap[w].holds[b]
      BY <2>1 DEF IInv, VersionsTell, SnapshotTells
    <2>6. /\ r.op = "CommitHold" => accounts[Owner[r.bid]].holds[r.bid].status = "COMMITTED"
          /\ r.op = "ReleaseHold" => accounts[Owner[r.bid]].holds[r.bid].status = "RELEASED"
      BY SMTT(30), <2>3, <2>4, <2>5
    <2>7. told' \in SUBSET Answers
      BY <1>1, <2>1, HeardType
    <2>8. \A b \in Bids :
                         /\ <<"COMMITTED", b>> \in told' \ told => r.op = "CommitHold" /\ b = r.bid
                         /\ <<"RELEASED", b>> \in told' \ told => r.op = "ReleaseHold" /\ b = r.bid
                         /\ <<"EXPIRED", b>> \notin told' \ told
      <3>1. \A x \in told' \ told : x \in Heard(r, "", FALSE)
        BY <2>1
      <3> HIDE DEF r
      <3> QED BY <2>2, <3>1
    <2>9. accounts' = accounts
      BY <2>1
    <2> HIDE DEF r, m
    <2> QED BY <2>6, <2>7, <2>8, <2>9
  <1>5. CASE Save(w)
    <2>1. told' = told \cup Heard(r, "", TRUE) /\ Err(snap[w], r, at[w]) = ""
          /\ After(snap[w], r) # snap[w]
      BY <1>5 DEF Save
    <2>2. Heard(r, "", TRUE) = (IF r.op = "CommitHold" THEN {<<"COMMITTED", r.bid>>}
                                ELSE IF r.op = "ReleaseHold" THEN {<<"RELEASED", r.bid>>}
                                ELSE IF r.op = "ExpireHold" THEN {<<"EXPIRED", r.bid>>} ELSE {})
      BY DEF Heard
    <2>3. accounts'[m].holds = After(snap[w], r).holds
      BY <1>5, SaveStep
    <2>4. /\ r.op = "CommitHold" => accounts'[m].holds[r.bid].status = "COMMITTED"
          /\ r.op \in {"ReleaseHold", "ExpireHold"} => accounts'[m].holds[r.bid].status = "RELEASED"
      BY <1>1, <2>1, <2>3, AfterSettles
    <2>5. r.op \in {"CommitHold", "ReleaseHold", "ExpireHold"} => r.bid \in Bids /\ m = Owner[r.bid]
      BY <1>1, RequestShape
    <2>6. told' \in SUBSET Answers
      BY <1>1, <2>1, HeardType
    <2>7. \A b \in Bids :
                         /\ <<"COMMITTED", b>> \in told' \ told => r.op = "CommitHold" /\ b = r.bid
                         /\ <<"RELEASED", b>> \in told' \ told => r.op = "ReleaseHold" /\ b = r.bid
                         /\ <<"EXPIRED", b>> \in told' \ told => r.op = "ExpireHold" /\ b = r.bid
      <3>1. \A x \in told' \ told : x \in Heard(r, "", TRUE)
        BY <2>1
      <3> HIDE DEF r
      <3> QED BY <2>2, <3>1
    <2>8. /\ r.op = "CommitHold" => accounts'[Owner[r.bid]].holds[r.bid].status = "COMMITTED"
          /\ r.op \in {"ReleaseHold", "ExpireHold"}
                => accounts'[Owner[r.bid]].holds[r.bid].status = "RELEASED"
      BY <2>4, <2>5
    <2> HIDE DEF r, m
    <2> QED BY <2>6, <2>7, <2>8
  <1> QED BY <1>2, <1>3, <1>4, <1>5

\* No step takes an answer about a hold back.
LEMMA AnswersStep ==
    ASSUME IInv, [Next]_vars
    PROVE  AnswersStand'
  <1> SUFFICES ASSUME NEW b \in Bids
               PROVE  LET s == accounts'[Owner[b]].holds[b].status IN
                      /\ <<"COMMITTED", b>> \in told' => s = "COMMITTED"
                      /\ <<"RELEASED", b>> \in told' => s = "RELEASED"
                      /\ <<"EXPIRED", b>> \in told' => s = "RELEASED"
    BY DEF AnswersStand
  <1> DEFINE a == accounts[Owner[b]]
             a2 == accounts'[Owner[b]]
  <1>1. Owner[b] \in Members
    BY WalletConstants
  <1>2. a \in Account /\ (a2 = a \/ Advanced(a, a2, Owner[b]))
    BY <1>1, StepAccounts DEF IInv, TypeOK
  <1>3. /\ <<"COMMITTED", b>> \in told => a.holds[b].status = "COMMITTED"
        /\ <<"RELEASED", b>> \in told => a.holds[b].status = "RELEASED"
        /\ <<"EXPIRED", b>> \in told => a.holds[b].status = "RELEASED"
    BY DEF IInv, AnswersStand
  <1>4. a.holds[b].status \in {"COMMITTED", "RELEASED"} => a2.holds[b] = a.holds[b]
    BY <1>2, SettledStays
  <1>5. CASE told' = told
    BY <1>3, <1>4, <1>5
  <1>6. CASE \E w \in Workers : LoadNotFound(w) \/ Refuse(w) \/ SaveNothing(w) \/ Save(w)
    BY <1>3, <1>4, <1>6, ToldStep
  <1>7. told' = told \/ \E w \in Workers : LoadNotFound(w) \/ Refuse(w) \/ SaveNothing(w) \/ Save(w)
    BY DEF Next, vars, BeginHoldCall, BeginDirect, BeginCredit, BeginExpire, Begin, Proceed, Load,
         Mark, ReadAccount, ReadHolds, SaveRaced, Crash, Tick
  <1> QED BY <1>5, <1>6, <1>7

-----------------------------------------------------------------------------
\* Every step keeps the types.
LEMMA TypeStep ==
    ASSUME IInv, [Next]_vars
    PROVE  TypeOK'
  <1>1. TypeOK
    BY DEF IInv
  <1>2. accounts' \in [Members -> Account]
    BY StepAccounts
  <1> DEFINE PCs == {"idle", "load", "mark", "readAccount", "readHolds", "save"}
  <1> DEFINE Calls == /\ pc' \in [Workers -> PCs]
                      /\ req' \in [Workers -> Requests \cup {NoReq}]
                      /\ at' \in [Workers -> 0..MaxTime]
                      /\ snap' \in [Workers -> Account]
                      /\ tries' \in [Workers -> 0..(MaxRetries - 1)]
  <1> DEFINE Rest == /\ processed' \in SUBSET Keys /\ now' \in 0..MaxTime
                     /\ direct' \in 0..MaxDirect /\ crashes' \in 0..MaxCrashes
                     /\ moved' \in [Members -> Int] /\ told' \in SUBSET Answers
  <1> SUFFICES Calls /\ Rest
    BY <1>2 DEF TypeOK
  <1>3. \A w \in Workers : Return(w) => Calls
    BY <1>1, ReturnType
  <1>4. ASSUME UNCHANGED <<processed, now, direct, crashes, moved, told>>
        PROVE  Rest
    BY <1>1, <1>4 DEF TypeOK
  <1>5. ASSUME NEW w \in Workers, NEW r \in Requests, Begin(w, r),
               pc' = [pc EXCEPT ![w] = "load"] \/ pc' = [pc EXCEPT ![w] = "mark"]
        PROVE  Calls /\ (direct' \in 0..MaxDirect => Rest)
    <2>1. req' \in [Workers -> Requests \cup {NoReq}] /\ at' \in [Workers -> 0..MaxTime]
      BY <1>1, <1>5, BeginsType
    <2> QED BY <1>1, <1>5, <2>1 DEF TypeOK, Begin
  <1>6. CASE \E w \in Workers : BeginHoldCall(w)
    BY <1>1, <1>5, <1>6 DEF BeginHoldCall, Requests, TypeOK
  <1>7. CASE \E w \in Workers : BeginDirect(w)
    <2>1. direct' \in 0..MaxDirect
      BY <1>1, <1>7, WalletConstants DEF BeginDirect, TypeOK
    <2> QED BY <1>5, <1>7, <2>1 DEF BeginDirect, Requests
  <1>8. CASE \E w \in Workers : BeginCredit(w)
    BY <1>1, <1>5, <1>8 DEF BeginCredit, Requests, TypeOK
  <1>9. CASE \E b \in Bids : BeginExpire(b)
    <2>1. PICK b \in Bids : BeginExpire(b)
      BY <1>9
    <2>2. [op |-> "ExpireHold", bid |-> b] \in Requests
      BY DEF Requests, BidRequests
    <2> QED BY <1>1, <1>5, <2>1, <2>2, WalletConstants DEF BeginExpire, TypeOK
  <1>10. CASE \E w \in Workers : Load(w)
    <2>1. PICK w \in Workers : Load(w)
      BY <1>10
    <2>2. req[w] \in Requests
      BY <2>1 DEF Load, IInv, CallOK
    <2>3. accounts[MemberOf(req[w])] \in Account
      BY <1>1, <2>2, RequestShape DEF TypeOK
    <2>4. Calls
      BY <1>1, <2>1, <2>3 DEF Load, TypeOK
    <2> QED BY <1>4, <2>1, <2>4 DEF Load
  <1>11. CASE \E w \in Workers : ReadAccount(w) \/ ReadHolds(w)
    <2>1. PICK w \in Workers : ReadAccount(w) \/ ReadHolds(w)
      BY <1>11
    <2> DEFINE a == accounts[MemberOf(req[w])]
    <2>2. req[w] \in Requests
      BY <2>1 DEF ReadAccount, ReadHolds, IInv, CallOK
    <2>3. a \in Account /\ snap[w] \in Account
      BY <1>1, <2>2, RequestShape DEF TypeOK
    <2>4. [NoAccount EXCEPT !.gold = a.gold, !.version = a.version] \in Account
      BY <2>3, NoAccountType DEF Account
    <2>5. [snap[w] EXCEPT !.holds = a.holds] \in Account
      BY <2>3 DEF Account
    <2>6. Calls
      BY <1>1, <2>1, <2>4, <2>5 DEF ReadAccount, ReadHolds, TypeOK
    <2> QED BY <1>4, <2>1, <2>6 DEF ReadAccount, ReadHolds
  <1>12. CASE \E w \in Workers : Mark(w)
    <2>1. PICK w \in Workers : Mark(w)
      BY <1>12
    <2>2. Calls
      BY <1>1, <1>3, <2>1 DEF Mark, TypeOK
    <2> QED BY <1>4, <2>1, <2>2 DEF Mark
  <1>13. CASE \E w \in Workers : SaveRaced(w)
    <2>1. PICK w \in Workers : SaveRaced(w)
      BY <1>13
    <2>2. RetriesLeft(tries[w]) => tries[w] + 1 \in 0..(MaxRetries - 1)
      BY <1>1, WalletConstants DEF RetriesLeft, TypeOK
    <2>3. Calls
      BY <1>1, <1>3, <2>1, <2>2, NoAccountType DEF SaveRaced, TypeOK
    <2> QED BY <1>4, <2>1, <2>3 DEF SaveRaced
  <1>14. CASE \E w \in Workers : LoadNotFound(w) \/ Refuse(w) \/ SaveNothing(w)
    <2>1. PICK w \in Workers : LoadNotFound(w) \/ Refuse(w) \/ SaveNothing(w)
      BY <1>14
    <2>2. told' \in SUBSET Answers
      BY <2>1, ToldStep
    <2>3. Calls
      BY <1>3, <2>1 DEF LoadNotFound, Refuse, SaveNothing
    <2> QED BY <1>1, <2>1, <2>2, <2>3 DEF LoadNotFound, Refuse, SaveNothing, TypeOK
  <1>15. CASE \E w \in Workers : Save(w)
    <2>1. PICK w \in Workers : Save(w)
      BY <1>15
    <2>2. told' \in SUBSET Answers
      BY <2>1, ToldStep
    <2>3. Calls
      BY <1>3, <2>1 DEF Save
    <2>4. req[w] \in Requests
      BY <2>1, SaveStep
    <2>5. processed' \in SUBSET Keys
      BY <1>1, <2>1, <2>4, RequestShape DEF Save, TypeOK
    <2>6. Gain(req[w]) \in Int
      BY <2>4, RequestShape, AmountsType DEF Gain
    <2>7. moved' \in [Members -> Int]
      BY <1>1, <2>1, <2>6, IntSum DEF Save, TypeOK
    <2> QED BY <1>1, <2>1, <2>2, <2>3, <2>5, <2>7 DEF Save, TypeOK
  <1>16. CASE \E w \in Workers : Crash(w)
    <2>1. PICK w \in Workers : Crash(w)
      BY <1>16
    <2>2. crashes' \in 0..MaxCrashes
      BY <1>1, <2>1, WalletConstants DEF Crash, TypeOK
    <2>3. Calls
      BY <1>3, <2>1 DEF Crash
    <2> QED BY <1>1, <2>1, <2>2, <2>3 DEF Crash, TypeOK
  <1>17. CASE Tick
    <2>1. now' \in 0..MaxTime
      BY <1>1, <1>17, WalletConstants DEF Tick, TypeOK
    <2> QED BY <1>1, <1>17, <2>1 DEF Tick, TypeOK
  <1>18. CASE UNCHANGED vars
    BY <1>1, <1>18 DEF vars, TypeOK
  <1> QED BY <1>6, <1>7, <1>8, <1>9, <1>10, <1>11, <1>12, <1>13, <1>14, <1>15, <1>16, <1>17, <1>18
          DEF Next, Proceed

\* A wallet where nothing happened yet satisfies the inductive invariant.
LEMMA InitIInv == Init => IInv
  <1> SUFFICES ASSUME Init PROVE IInv
    OBVIOUS
  <1>1. TypeOK
    <2>1. 0 \in 0..MaxTime /\ 0 \in 0..(MaxRetries - 1) /\ 0 \in 0..MaxDirect /\ 0 \in 0..MaxCrashes
      BY WalletConstants
    <2>2. [NoAccount EXCEPT !.gold = InitGold] \in Account
      BY NoAccountType, WalletConstants DEF Account
    <2> QED BY <2>1, <2>2, NoAccountType DEF Init, TypeOK
  <1>2. CallOK /\ VersionsTell /\ AnswersStand
    BY DEF Init, CallOK, VersionsTell, SnapshotTells, AnswersStand
  <1> QED BY <1>1, <1>2 DEF IInv

\* The invariant is inductive.
LEMMA StepIInv == IInv /\ [Next]_vars => IInv'
  BY TypeStep, CallStep, VersionsStep, AnswersStep DEF IInv

\* Every reachable state satisfies the inductive invariant.
THEOREM Invariance == Spec => []IInv
  BY InitIInv, StepIInv, PTL DEF Spec

\* The wallet's state has its types: in particular no call outruns withRetry's budget.
THEOREM TypeCorrect == Spec => []TypeOK
  <1>1. IInv => TypeOK
    BY DEF IInv
  <1> QED BY <1>1, Invariance, PTL

\* accounts.version identifies what was read: for every account, credit and race.
THEOREM VersionsTellCorrect == Spec => []VersionsTell
  <1>1. IInv => VersionsTell
    BY DEF IInv
  <1> QED BY <1>1, Invariance, PTL

\* No answer about a hold is ever taken back: nobody is told a bid's gold was spent
\* and given back.
THEOREM AnswersCorrect == Spec => []AnswersStand
  <1>1. IInv => AnswersStand
    BY DEF IInv
  <1> QED BY <1>1, Invariance, PTL

\* Gold leaves an account for a hold exactly when the hold commits, and no settled hold
\* changes, whatever the callers' interleaving.
THEOREM HoldStepsCorrect == Spec => HoldSteps
  <1> DEFINE A == \A b \in Bids :
                    accounts'[Owner[b]].holds[b] # accounts[Owner[b]].holds[b]
                        => HoldMove(accounts[Owner[b]], accounts'[Owner[b]], b)
  <1>1. IInv /\ [Next]_vars => [A]_vars
    <2> SUFFICES ASSUME IInv, [Next]_vars, NEW b \in Bids,
                        accounts'[Owner[b]].holds[b] # accounts[Owner[b]].holds[b]
                 PROVE  HoldMove(accounts[Owner[b]], accounts'[Owner[b]], b)
      OBVIOUS
    <2>1. Owner[b] \in Members
      BY WalletConstants
    <2>2. Advanced(accounts[Owner[b]], accounts'[Owner[b]], Owner[b])
      BY <2>1, StepAccounts
    <2> QED BY <2>2 DEF Advanced
  <1>2. Spec => [][A]_vars
    BY <1>1, Invariance, PTL DEF Spec
  <1> QED BY <1>2 DEF HoldSteps
-----------------------------------------------------------------------------
\* The coins of f[x] for the x of S: what Total counts.
Coins(f, S) == UNION {{x} \X (1..f[x]) : x \in S}

\* The coins of one element are as many as it is worth.
LEMMA CoinsOfOne ==
    ASSUME NEW x, NEW n \in Nat
    PROVE  IsFiniteSet({x} \X (1..n)) /\ Cardinality({x} \X (1..n)) = n
  <1>1. IsFiniteSet({x}) /\ Cardinality({x}) = 1
    BY FS_Singleton
  <1>2. IsFiniteSet(1..n) /\ Cardinality(1..n) = n
    BY FS_Interval
  <1>3. /\ IsFiniteSet({x} \X (1..n))
        /\ Cardinality({x} \X (1..n)) = Cardinality({x}) * Cardinality(1..n)
    BY <1>1, <1>2, FS_Product
  <1>4. 1 * n = n
    OBVIOUS
  <1> QED BY <1>1, <1>2, <1>3, <1>4

\* Finitely many amounts have finitely many coins.
LEMMA CoinsFinite ==
    ASSUME NEW S, IsFiniteSet(S), NEW f, \A x \in S : f[x] \in Nat
    PROVE  IsFiniteSet(Coins(f, S))
  <1> DEFINE T == {{x} \X (1..f[x]) : x \in S}
             g == [x \in S |-> {x} \X (1..f[x])]
  <1>1. g \in Surjection(S, T)
    BY DEF Surjection
  <1>2. IsFiniteSet(T)
    BY <1>1, FS_Surjection
  <1>3. ASSUME NEW U \in T
        PROVE  IsFiniteSet(U)
    <2>1. PICK x \in S : U = {x} \X (1..f[x])
      OBVIOUS
    <2> QED BY <2>1, CoinsOfOne
  <1>4. IsFiniteSet(UNION T)
    BY <1>2, <1>3, FS_UNION
  <1> QED BY <1>4 DEF Coins

\* A sum of amounts is an amount.
LEMMA TotalType ==
    ASSUME NEW S, IsFiniteSet(S), NEW f, \A x \in S : f[x] \in Nat
    PROVE  Total(f, S) \in Nat
  BY CoinsFinite, FS_CardinalityType DEF Total, Coins

\* Nothing adds up to nothing.
LEMMA TotalEmpty == \A f : Total(f, {}) = 0
  BY FS_EmptySet DEF Total

\* Amounts that agree on a set have the same sum over it.
LEMMA TotalSame ==
    ASSUME NEW S, NEW f, NEW g, \A x \in S : f[x] = g[x]
    PROVE  Total(f, S) = Total(g, S)
  <1>1. {{x} \X (1..f[x]) : x \in S} = {{x} \X (1..g[x]) : x \in S}
    OBVIOUS
  <1> QED BY <1>1 DEF Total

\* One more amount adds what it is worth.
LEMMA TotalAdd ==
    ASSUME NEW S, IsFiniteSet(S), NEW x, x \notin S, NEW f, f[x] \in Nat,
           \A y \in S : f[y] \in Nat
    PROVE  Total(f, S \cup {x}) = Total(f, S) + f[x]
  <1> DEFINE A == Coins(f, S)
             B == {x} \X (1..f[x])
  <1>1. Coins(f, S \cup {x}) = A \cup B
    <2>1. {{y} \X (1..f[y]) : y \in S \cup {x}} = {{y} \X (1..f[y]) : y \in S} \cup {B}
      OBVIOUS
    <2> QED BY <2>1 DEF Coins
  <1>2. A \cap B = {}
    <2>1. \A c \in A : c[1] \in S
      BY DEF Coins
    <2>2. \A c \in B : c[1] = x
      OBVIOUS
    <2> QED BY <2>1, <2>2
  <1>3. IsFiniteSet(A) /\ Cardinality(A) \in Nat
    BY CoinsFinite, FS_CardinalityType
  <1>4. IsFiniteSet(B) /\ Cardinality(B) = f[x]
    BY CoinsOfOne
  <1>5. Cardinality(A \cap B) = 0
    BY <1>2, FS_EmptySet
  <1>6. Cardinality(A \cup B) = Cardinality(A) + Cardinality(B) - Cardinality(A \cap B)
    BY <1>3, <1>4, FS_Union
  <1>7. Total(f, S) = Cardinality(A) /\ Total(f, S \cup {x}) = Cardinality(A \cup B)
    BY <1>1 DEF Total, Coins
  <1> HIDE DEF A, B
  <1> QED BY <1>3, <1>4, <1>5, <1>6, <1>7

-----------------------------------------------------------------------------
\* The gold of a's hold for b, if it is in a status of S.
Part(a, b, S) == IF a.holds[b].status \in S THEN a.holds[b].amount ELSE 0

\* A hold's amount is never negative, whatever its status.
LEMMA PartType ==
    ASSUME NEW a \in Account, NEW b \in Bids, NEW S
    PROVE  a.holds[b].amount \in Nat /\ Part(a, b, S) \in Nat
  <1>1. a.holds[b] \in Hold
    BY DEF Account
  <1>2. \A n \in Amounts : n \in Nat
    BY WalletConstants
  <1>3. a.holds[b].amount \in Nat
    BY <1>1, <1>2 DEF Hold, NoHold
  <1> QED BY <1>3 DEF Part

\* What is held is what the hold for one bid adds to what the others hold.
LEMMA HeldSplit ==
    ASSUME NEW a \in Account, NEW b \in Bids, NEW S
    PROVE  LET rest == Total([c \in Bids |-> a.holds[c].amount],
                             {c \in Bids \ {b} : a.holds[c].status \in S})
           IN  rest \in Nat /\ Held(a, S) = rest + Part(a, b, S)
  <1> DEFINE f == [c \in Bids |-> a.holds[c].amount]
             R == {c \in Bids \ {b} : a.holds[c].status \in S}
             H == {c \in Bids : a.holds[c].status \in S}
  <1>1. \A c \in Bids : f[c] \in Nat
    BY PartType
  <1>2. IsFiniteSet(Bids) /\ R \in SUBSET Bids
    BY WalletConstants
  <1>3. IsFiniteSet(R)
    BY <1>2, FS_Subset
  <1>4. Total(f, R) \in Nat
    <2> HIDE DEF f
    <2> QED BY <1>1, <1>3, TotalType
  <1>5. Held(a, S) = Total(f, H)
    BY DEF Held
  <1>6. CASE a.holds[b].status \in S
    <2>1. H = R \cup {b} /\ b \notin R
      BY <1>6
    <2>2. f[b] \in Nat /\ \A y \in R : f[y] \in Nat
      BY <1>1
    <2>3. Total(f, R \cup {b}) = Total(f, R) + f[b]
      <3> HIDE DEF f, R
      <3> QED BY <1>3, <2>1, <2>2, TotalAdd
    <2>4. Part(a, b, S) = f[b]
      BY <1>6 DEF Part
    <2> QED BY <1>4, <1>5, <2>1, <2>3, <2>4
  <1>7. CASE a.holds[b].status \notin S
    <2>1. H = R
      BY <1>7
    <2>2. Part(a, b, S) = 0
      BY <1>7 DEF Part
    <2>3. Held(a, S) = Total(f, R)
      BY <1>5, <2>1
    <2> HIDE DEF f, R
    <2>4. Held(a, S) = Total(f, R) + 0
      BY <1>4, <2>3
    <2> QED BY <1>4, <2>2, <2>4 DEF f, R
  <1> QED BY <1>6, <1>7

\* What is held is an amount of gold.
LEMMA HeldType ==
    ASSUME NEW a \in Account, NEW S
    PROVE  Held(a, S) \in Nat
  <1> DEFINE f == [c \in Bids |-> a.holds[c].amount]
             H == {c \in Bids : a.holds[c].status \in S}
  <1>1. \A c \in H : f[c] \in Nat
    BY PartType
  <1>2. IsFiniteSet(H)
    BY WalletConstants, FS_Subset
  <1>3. Total(f, H) \in Nat
    <2> HIDE DEF f, H
    <2> QED BY <1>1, <1>2, TotalType
  <1> QED BY <1>3 DEF Held

\* Writing one hold changes what is held by that hold alone.
LEMMA PutHeld ==
    ASSUME NEW a \in Account, NEW b \in Bids, NEW s \in Statuses, NEW n \in Amounts, NEW g \in Int,
           NEW S
    PROVE  Held(Put(a, b, s, n, g), S)
              = Held(a, S) - Part(a, b, S) + (IF s \in S THEN n ELSE 0)
  <1> DEFINE a2 == Put(a, b, s, n, g)
             R == {c \in Bids \ {b} : a.holds[c].status \in S}
             R2 == {c \in Bids \ {b} : a2.holds[c].status \in S}
             f == [c \in Bids |-> a.holds[c].amount]
             f2 == [c \in Bids |-> a2.holds[c].amount]
  <1>1. /\ a2 \in Account
        /\ a2.holds[b] = [status |-> s, amount |-> n]
        /\ \A c \in Bids \ {b} : a2.holds[c] = a.holds[c]
    BY PutType
  <1> HIDE DEF a2
  <1>2. R2 = R /\ \A c \in R : f2[c] = f[c]
    BY <1>1
  <1>3. Total(f2, R2) = Total(f, R)
    <2> HIDE DEF f, f2, R, R2
    <2> QED BY <1>2, TotalSame
  <1>4. Total(f, R) \in Nat /\ Held(a, S) = Total(f, R) + Part(a, b, S)
    BY HeldSplit
  <1>5. Held(a2, S) = Total(f2, R2) + Part(a2, b, S)
    BY <1>1, HeldSplit
  <1>6. Part(a2, b, S) = IF s \in S THEN n ELSE 0
    BY <1>1 DEF Part
  <1>7. Part(a, b, S) \in Nat /\ n \in Nat
    BY PartType, WalletConstants
  <1> HIDE DEF f, f2, R, R2
  <1>8. Held(a2, S) = Held(a, S) - Part(a, b, S) + (IF s \in S THEN n ELSE 0)
    BY <1>3, <1>4, <1>5, <1>6, <1>7
  <1> QED BY <1>8 DEF a2

\* What a use case has done to the gold of a: a2 fences off no more than it owns, its
\* gold and what its holds have spent have grown by gain, and a ceiling on a's gold is
\* one on a2's.
Balanced(a, a2, gain) ==
    /\ Available(a2) >= 0
    /\ a2.gold + Held(a2, {"COMMITTED"}) = a.gold + Held(a, {"COMMITTED"}) + gain

\* Account.PlaceHold fences off only gold that is available.
LEMMA PlaceHoldBalanced ==
    ASSUME NEW a \in Account, NEW b \in Bids, NEW n \in Amounts,
           Available(a) >= 0, a.holds[b] = NoHold => Available(a) >= n
    PROVE  Balanced(a, PlaceHold(a, b, n), 0) /\ PlaceHold(a, b, n).gold = a.gold
  <1>1. a.gold \in Int /\ Held(a, {"RESERVED"}) \in Nat /\ Held(a, {"COMMITTED"}) \in Nat
    BY HeldType DEF Account
  <1>2. CASE a.holds[b] # NoHold
    <2>1. PlaceHold(a, b, n) = a
      BY <1>2 DEF PlaceHold
    <2> QED BY <1>1, <2>1 DEF Balanced
  <1>3. CASE a.holds[b] = NoHold
    <2> DEFINE a2 == Put(a, b, "RESERVED", n, a.gold)
    <2>1. PlaceHold(a, b, n) = a2
      BY <1>3 DEF PlaceHold
    <2>2. Part(a, b, {"RESERVED"}) = 0 /\ Part(a, b, {"COMMITTED"}) = 0
      <3>1. a.holds[b].status = "NONE"
        BY <1>3 DEF NoHold
      <3> QED BY <3>1 DEF Part
    <2>3. /\ Held(a2, {"RESERVED"}) = Held(a, {"RESERVED"}) - Part(a, b, {"RESERVED"}) + n
          /\ Held(a2, {"COMMITTED"}) = Held(a, {"COMMITTED"}) - Part(a, b, {"COMMITTED"}) + 0
      BY <1>1, PutHeld DEF Statuses
    <2>4. a2.gold = a.gold
      BY DEF Put
    <2>5. Available(a) >= n
      BY <1>3
    <2>6. n \in Nat
      BY WalletConstants
    <2> HIDE DEF a2
    <2>7. Available(a2) >= 0
      BY <1>1, <2>2, <2>3, <2>4, <2>5, <2>6 DEF Available
    <2>8. a2.gold + Held(a2, {"COMMITTED"}) = a.gold + Held(a, {"COMMITTED"}) + 0
      BY <1>1, <2>2, <2>3, <2>4, <2>6
    <2> QED BY <2>1, <2>4, <2>7, <2>8 DEF Balanced
  <1> QED BY <1>2, <1>3

\* Account.CommitHold spends gold that was fenced off: what is available stays.
LEMMA CommitHoldBalanced ==
    ASSUME NEW a \in Account, NEW b \in Bids, a.holds[b].status \in {"RESERVED", "COMMITTED"},
           Available(a) >= 0
    PROVE  Balanced(a, CommitHold(a, b), 0) /\ CommitHold(a, b).gold <= a.gold
  <1>1. a.gold \in Int /\ Held(a, {"RESERVED"}) \in Nat /\ Held(a, {"COMMITTED"}) \in Nat
    BY HeldType DEF Account
  <1>2. CASE a.holds[b].status = "COMMITTED"
    BY <1>1, <1>2 DEF CommitHold, Balanced
  <1>3. CASE a.holds[b].status = "RESERVED"
    <2> DEFINE n == a.holds[b].amount
               a2 == Put(a, b, "COMMITTED", n, a.gold - n)
    <2>1. CommitHold(a, b) = a2
      BY <1>3 DEF CommitHold
    <2>2. n \in Amounts /\ n \in Nat
      BY <1>3, HoldAmount, PartType
    <2>3. Part(a, b, {"RESERVED"}) = n /\ Part(a, b, {"COMMITTED"}) = 0
      BY <1>3 DEF Part
    <2>4. a.gold - n \in Int
      BY <1>1, <2>2
    <2>5. /\ Held(a2, {"RESERVED"}) = Held(a, {"RESERVED"}) - Part(a, b, {"RESERVED"}) + 0
          /\ Held(a2, {"COMMITTED"}) = Held(a, {"COMMITTED"}) - Part(a, b, {"COMMITTED"}) + n
      BY <2>2, <2>4, PutHeld DEF Statuses
    <2>6. a2.gold = a.gold - n
      BY DEF Put
    <2> HIDE DEF a2, n
    <2>7. Available(a2) >= 0
      BY <1>1, <2>2, <2>3, <2>5, <2>6 DEF Available
    <2>8. a2.gold + Held(a2, {"COMMITTED"}) = a.gold + Held(a, {"COMMITTED"}) + 0 /\ a2.gold <= a.gold
      BY <1>1, <2>2, <2>3, <2>5, <2>6
    <2> QED BY <2>1, <2>7, <2>8 DEF Balanced
  <1> QED BY <1>2, <1>3

\* Account.ReleaseHold, and so Expire, gives what was fenced off back to what is available.
LEMMA ReleaseHoldBalanced ==
    ASSUME NEW a \in Account, NEW b \in Bids, a.holds[b].status \in {"RESERVED", "RELEASED"},
           Available(a) >= 0
    PROVE  Balanced(a, ReleaseHold(a, b), 0) /\ ReleaseHold(a, b).gold = a.gold
  <1> DEFINE n == a.holds[b].amount
             a2 == Put(a, b, "RELEASED", n, a.gold)
  <1>1. a.gold \in Int /\ Held(a, {"RESERVED"}) \in Nat /\ Held(a, {"COMMITTED"}) \in Nat
    BY HeldType DEF Account
  <1>2. ReleaseHold(a, b) = a2
    BY DEF ReleaseHold
  <1>3. n \in Amounts
    BY HoldAmount
  <1>4. Part(a, b, {"RESERVED"}) \in Nat /\ Part(a, b, {"COMMITTED"}) = 0
    BY PartType DEF Part
  <1>5. /\ Held(a2, {"RESERVED"}) = Held(a, {"RESERVED"}) - Part(a, b, {"RESERVED"}) + 0
        /\ Held(a2, {"COMMITTED"}) = Held(a, {"COMMITTED"}) - Part(a, b, {"COMMITTED"}) + 0
    BY <1>1, <1>3, PutHeld DEF Statuses
  <1>6. a2.gold = a.gold
    BY DEF Put
  <1> HIDE DEF a2, n
  <1>7. Available(a2) >= 0
    BY <1>1, <1>4, <1>5, <1>6 DEF Available
  <1>8. a2.gold + Held(a2, {"COMMITTED"}) = a.gold + Held(a, {"COMMITTED"}) + 0
    BY <1>1, <1>4, <1>5, <1>6
  <1> QED BY <1>2, <1>6, <1>7, <1>8 DEF Balanced

\* Deposit, Withdraw and Credit leave every hold as it was.
LEMMA PutGoldBalanced ==
    ASSUME NEW a \in Account, NEW n \in Int, Available(a) + n >= 0
    PROVE  Balanced(a, PutGold(a, a.gold + n), n) /\ PutGold(a, a.gold + n).gold = a.gold + n
  <1> DEFINE a2 == PutGold(a, a.gold + n)
  <1>1. a.gold \in Int /\ Held(a, {"RESERVED"}) \in Nat /\ Held(a, {"COMMITTED"}) \in Nat
    BY HeldType DEF Account
  <1>2. a2.gold = a.gold + n /\ a2.holds = a.holds
    BY DEF PutGold
  <1> HIDE DEF a2
  <1>3. Held(a2, {"RESERVED"}) = Held(a, {"RESERVED"}) /\ Held(a2, {"COMMITTED"}) = Held(a, {"COMMITTED"})
    BY <1>2 DEF Held
  <1>4. Balanced(a, a2, n)
    BY <1>1, <1>2, <1>3 DEF Balanced, Available
  <1> QED BY <1>2, <1>4 DEF a2

\* What a credit adds to an account.
Credited(r) == IF r.op = "Credit" THEN KeyAmount[r.key] ELSE 0

\* Neither Reconstitute nor the aggregate refuses r.
Accepted(a, r, t) == Err(a, r, t) = ""

\* What a use case that is not refused does to the gold of the account it loaded; only
\* Deposit and CreditSeller can lift a balance past MaxInt.
LEMMA AfterBalanced ==
    ASSUME NEW a \in Account, NEW r \in Requests, NEW t \in Nat, Accepted(a, r, t)
    PROVE  /\ Balanced(a, After(a, r), Gain(r) + Credited(r))
           /\ a.gold <= MaxInt /\ r.op # "Deposit" /\ (r.op = "Credit" => r.key \notin SellerKeys)
                 => After(a, r).gold <= MaxInt
  <1> DEFINE d == After(a, r)
             Bounded == a.gold <= MaxInt /\ r.op # "Deposit"
                           /\ (r.op = "Credit" => r.key \notin SellerKeys) => d.gold <= MaxInt
  <1>1. Available(a) >= 0 /\ a.gold \in Int /\ Available(a) \in Int /\ MaxInt \in Nat
    <2>1. a.gold \in Int /\ Held(a, {"RESERVED"}) \in Nat
      BY HeldType DEF Account
    <2>2. Available(a) \in Int
      BY <2>1 DEF Available
    <2>3. ~(Available(a) < 0)
      BY DEF Accepted, Err
    <2> QED BY <2>1, <2>2, <2>3, WalletConstants
  <1>2. CASE r.op \in {"PlaceHold", "CommitHold", "ReleaseHold", "ExpireHold"}
    <2>1. Gain(r) + Credited(r) = 0
      BY <1>2 DEF Gain, Credited
    <2>2. Balanced(a, a, 0)
      <3>1. Held(a, {"COMMITTED"}) \in Nat
        BY HeldType
      <3> QED BY <1>1, <3>1 DEF Balanced
    <2>3. Balanced(a, d, 0) /\ d.gold \in Int /\ d.gold <= a.gold
      <3>1. CASE r.op = "PlaceHold"
        <4>1. r.bid \in Bids /\ r.amount \in Amounts
          BY <3>1, RequestShape
        <4>2. PlaceHoldErr(a, r.bid, r.amount, t) = ""
          BY <3>1 DEF Accepted, Err
        <4>3. a.holds[r.bid] = NoHold => ~(Available(a) < r.amount)
          BY <4>2 DEF PlaceHoldErr
        <4>4. r.amount \in Int
          BY <4>1, AmountsType
        <4>5. a.holds[r.bid] = NoHold => Available(a) >= r.amount
          BY <1>1, <4>3, <4>4
        <4>6. d = PlaceHold(a, r.bid, r.amount)
          BY <3>1 DEF After
        <4>7. Balanced(a, d, 0) /\ d.gold = a.gold
          BY <1>1, <4>1, <4>5, <4>6, PlaceHoldBalanced
        <4> QED BY <1>1, <4>7
      <3>2. CASE r.op = "CommitHold"
        <4>1. r.bid \in Bids
          BY <3>2, RequestShape
        <4>2. CommitHoldErr(a, r.bid, r.amount, t) = ""
          BY <3>2 DEF Accepted, Err
        <4>3. a.holds[r.bid].status \in {"RESERVED", "COMMITTED"}
          BY <4>2 DEF CommitHoldErr, CanTransition
        <4>4. d = CommitHold(a, r.bid)
          BY <3>2 DEF After
        <4>5. d \in Account
          BY AfterMoves DEF Accepted
        <4> QED BY <1>1, <4>1, <4>3, <4>4, <4>5, CommitHoldBalanced DEF Account
      <3>3. CASE r.op = "ReleaseHold"
        <4>1. r.bid \in Bids
          BY <3>3, RequestShape
        <4>2. ReleaseHoldErr(a, r.bid) = ""
          BY <3>3 DEF Accepted, Err
        <4>3. a.holds[r.bid].status \in {"RESERVED", "RELEASED"}
          BY <4>2 DEF ReleaseHoldErr, CanTransition
        <4>4. d = ReleaseHold(a, r.bid)
          BY <3>3 DEF After
        <4>5. Balanced(a, d, 0) /\ d.gold = a.gold
          BY <1>1, <4>1, <4>3, <4>4, ReleaseHoldBalanced
        <4> QED BY <1>1, <4>5
      <3>4. CASE r.op = "ExpireHold"
        <4>1. r.bid \in Bids
          BY <3>4, RequestShape
        <4>2. d = ExpireHold(a, r.bid)
          BY <3>4 DEF After
        <4>3. d = a \/ (a.holds[r.bid].status = "RESERVED" /\ d = ReleaseHold(a, r.bid))
          BY <4>2 DEF ExpireHold
        <4>4. Balanced(a, d, 0) /\ d.gold = a.gold
          BY <1>1, <2>2, <4>1, <4>3, ReleaseHoldBalanced
        <4> QED BY <1>1, <4>4
      <3> QED BY <1>2, <3>1, <3>2, <3>3, <3>4
    <2> HIDE DEF d
    <2>4. Bounded
      BY <1>1, <2>3
    <2> QED BY <2>1, <2>3, <2>4 DEF d
  <1>3. CASE r.op = "Deposit"
    <2>1. r.amount \in Nat
      BY <1>3, RequestShape, WalletConstants
    <2>2. d = PutGold(a, a.gold + r.amount)
      BY <1>3 DEF After, Deposit
    <2>3. Gain(r) + Credited(r) = r.amount
      BY <1>3, <2>1 DEF Gain, Credited
    <2>4. r.amount \in Int /\ Available(a) + r.amount >= 0
      BY <1>1, <2>1
    <2> QED BY <1>3, <2>2, <2>3, <2>4, PutGoldBalanced
  <1>4. CASE r.op = "Withdraw"
    <2> DEFINE n == 0 - r.amount
    <2>1. r.amount \in Nat
      BY <1>4, RequestShape, WalletConstants
    <2>2. d = PutGold(a, a.gold - r.amount)
      BY <1>4 DEF After, Withdraw
    <2>3. a.gold - r.amount = a.gold + n
      BY <1>1, <2>1
    <2>4. Gain(r) + Credited(r) = n
      BY <1>4, <2>1 DEF Gain, Credited
    <2>5. ~(Available(a) < r.amount)
      BY <1>4 DEF Accepted, Err, WithdrawErr
    <2>6. n \in Int /\ Available(a) + n >= 0
      BY <1>1, <2>1, <2>5
    <2> HIDE DEF n
    <2>7. Balanced(a, PutGold(a, a.gold + n), n) /\ PutGold(a, a.gold + n).gold = a.gold + n
      BY <2>6, PutGoldBalanced
    <2>8. d = PutGold(a, a.gold + n)
      BY <2>2, <2>3
    <2>9. Balanced(a, d, n) /\ d.gold = a.gold + n
      BY <2>7, <2>8
    <2> HIDE DEF d
    <2>10. Bounded
      BY <1>1, <2>1, <2>6, <2>9 DEF n
    <2> QED BY <2>4, <2>9, <2>10 DEF d
  <1>5. CASE r.op = "Credit"
    <2> DEFINE n == KeyAmount[r.key]
    <2>1. r.key \in Keys /\ n \in Nat
      BY <1>5, RequestShape, WalletConstants
    <2>2. d = PutGold(a, a.gold + n)
      BY <1>5 DEF After, Deposit
    <2>3. Gain(r) + Credited(r) = n
      BY <1>5, <2>1 DEF Gain, Credited
    <2>4. CreditErr(a, r.key) = ""
      BY <1>5 DEF Accepted, Err
    <2>5. r.key \notin SellerKeys => ~(a.gold > MaxInt - n)
      BY <2>4 DEF CreditErr
    <2> HIDE DEF n
    <2>6. n \in Int /\ Available(a) + n >= 0
      BY <1>1, <2>1
    <2>7. Balanced(a, PutGold(a, a.gold + n), n) /\ PutGold(a, a.gold + n).gold = a.gold + n
      BY <2>6, PutGoldBalanced
    <2>8. Balanced(a, d, n) /\ d.gold = a.gold + n
      BY <2>2, <2>7
    <2> HIDE DEF d
    <2>9. Bounded
      BY <1>1, <1>5, <2>1, <2>5, <2>8
    <2> QED BY <2>3, <2>8, <2>9 DEF d
  <1> QED BY <1>2, <1>3, <1>4, <1>5, RequestShape

-----------------------------------------------------------------------------
\* w is inside the transaction of a credit under k.
Claiming(w, k) ==
    /\ pc[w] \in {"readAccount", "readHolds", "save"}
    /\ req[w] = [op |-> "Credit", key |-> k]

\* A key is only inside one transaction at a time, and not when it is processed.
KeysClaimed ==
    \A w \in Workers, k \in Keys :
        Claiming(w, k) => k \notin processed /\ \A v \in Workers \ {w} : ~Claiming(v, k)

\* A credit reads its account inside its transaction, never as other calls load theirs.
LoadsUncredited == \A w \in Workers : pc[w] = "load" => req[w].op # "Credit"

\* A Deposit under way is one of those counted.
DepositsCounted == \A w \in Workers : req[w].op = "Deposit" => direct > 0

\* The inductive invariant of the gold: beside IInv, that a key's credit is saved once.
GoldInv == LoadsUncredited /\ KeysClaimed /\ DepositsCounted /\ NeverOverheld /\ GoldAccounted

\* A request for a credit is its key.
LEMMA CreditShape ==
    ASSUME NEW r \in Requests, r.op = "Credit"
    PROVE  r.key \in Keys /\ r = [op |-> "Credit", key |-> r.key] /\ MemberOf(r) = KeyMember[r.key]
  <1>1. r \in CreditRequests
    BY DEF Requests, BidRequests, DirectRequests
  <1> QED BY <1>1 DEF CreditRequests, MemberOf

\* A transaction of a credit begins with Mark and goes on until it is left.
LEMMA ClaimStep ==
    ASSUME IInv, LoadsUncredited, [Next]_vars, NEW w \in Workers, NEW k \in Keys, Claiming(w, k)'
    PROVE  \/ Claiming(w, k)
           \/ /\ k \notin processed /\ processed' = processed
              /\ \A v \in Workers \ {w} : ~Claiming(v, k) /\ ~Claiming(v, k)'
  <1>1. /\ pc \in [Workers -> {"idle", "load", "mark", "readAccount", "readHolds", "save"}]
        /\ req \in [Workers -> Requests \cup {NoReq}]
    BY DEF IInv, TypeOK
  <1>2. pc[w] = "load" => req[w].op # "Credit"
    BY DEF LoadsUncredited
  <1>3. CASE Mark(w)
    <2>1. req' = req /\ pc[w] = "mark" /\ pc' = [pc EXCEPT ![w] = "readAccount"]
          /\ Claims(req[w].key) /\ ~KeyLocked(w, req[w].key) /\ processed' = processed
      BY <1>1, <1>3 DEF Mark, Return, Claiming
    <2>2. req[w].key = k
      BY <2>1 DEF Claiming
    <2>3. \A v \in Workers \ {w} : ~Claiming(v, k)
      BY <2>1, <2>2 DEF KeyLocked, Claiming
    <2>4. \A v \in Workers \ {w} : ~Claiming(v, k)'
      BY <1>1, <2>1, <2>3 DEF Claiming
    <2> QED BY <2>1, <2>2, <2>3, <2>4 DEF Claims
  <1>4. CASE ~Mark(w)
    <2>1. CASE pc'[w] = pc[w] /\ req'[w] = req[w]
      BY <2>1 DEF Claiming
    <2>2. CASE Load(w) \/ ReadAccount(w) \/ ReadHolds(w)
      BY <1>1, <1>2, <2>2 DEF Load, ReadAccount, ReadHolds, Claiming
    <2>3. CASE Return(w)
      BY <1>1, <2>3 DEF Return, Claiming
    <2>4. CASE SaveRaced(w)
      BY <1>1, <2>3, <2>4 DEF SaveRaced, Claiming
    <2>5. CASE BeginHoldCall(w) \/ BeginDirect(w) \/ BeginCredit(w)
               \/ (w = Sweeper /\ \E b \in Bids : BeginExpire(b))
      BY <1>1, <2>5 DEF BeginHoldCall, BeginDirect, BeginCredit, BeginExpire, Claiming
    <2> QED
      <3>1. PICK v \in Workers : \/ BeginHoldCall(v) \/ BeginDirect(v) \/ BeginCredit(v)
                                 \/ Proceed(v) \/ Crash(v)
                                 \/ v = Sweeper /\ \E b \in Bids : BeginExpire(b)
                                 \/ Tick \/ UNCHANGED vars
        BY WalletConstants DEF Next
      <3>2. CASE v = w
        BY <1>4, <2>1, <2>2, <2>3, <2>4, <2>5, <3>1, <3>2
           DEF Proceed, LoadNotFound, Refuse, SaveNothing, Save, Crash, Tick, vars
      <3>3. CASE v # w
        <4>1. pc'[w] = pc[w] /\ req'[w] = req[w]
          BY <1>1, <3>1, <3>3 DEF BeginHoldCall, BeginDirect, BeginCredit, BeginExpire, Begin, Proceed,
             Load, LoadNotFound, Mark, ReadAccount, ReadHolds, Refuse, SaveNothing, Save, SaveRaced,
             Crash, Return, Tick, vars
        <4> QED BY <2>1, <4>1
      <3> QED BY <3>2, <3>3
  <1> QED BY <1>3, <1>4

\* A key is processed in the save of its credit, which leaves the transaction.
LEMMA ProcessedStep ==
    ASSUME IInv, [Next]_vars
    PROVE  \/ processed' = processed
           \/ \E w \in Workers, k \in Keys :
                 Save(w) /\ Claiming(w, k) /\ pc'[w] = "idle" /\ processed' = processed \cup {k}
  <1>1. CASE \E w \in Workers : Save(w)
    <2>1. PICK w \in Workers : Save(w)
      BY <1>1
    <2>2. CASE req[w].op = "Credit"
      <3>1. req[w] \in Requests
        BY <2>1, SaveStep
      <3>2. req[w].key \in Keys /\ Claiming(w, req[w].key)
        BY <2>1, <2>2, <3>1, CreditShape DEF Save, Claiming
      <3>3. pc'[w] = "idle" /\ processed' = processed \cup {req[w].key}
        BY <2>1, <2>2 DEF Save, Return, IInv, TypeOK
      <3> QED BY <2>1, <3>2, <3>3
    <2>3. CASE req[w].op # "Credit"
      BY <2>1, <2>3 DEF Save
    <2> QED BY <2>2, <2>3
  <1>2. CASE \A w \in Workers : ~Save(w)
    BY <1>2 DEF Next, vars, BeginHoldCall, BeginDirect, BeginCredit, BeginExpire, Begin, Proceed, Load,
         LoadNotFound, Mark, ReadAccount, ReadHolds, Refuse, SaveNothing, SaveRaced, Crash, Tick
  <1> QED BY <1>1, <1>2

\* The dedup row keeps a key inside one transaction, and out of every one once processed.
LEMMA KeysStep ==
    ASSUME IInv, LoadsUncredited, KeysClaimed, [Next]_vars
    PROVE  KeysClaimed'
  <1> SUFFICES ASSUME NEW w \in Workers, NEW k \in Keys, Claiming(w, k)'
               PROVE  k \notin processed' /\ \A v \in Workers \ {w} : ~Claiming(v, k)'
    BY DEF KeysClaimed
  <1>1. CASE ~Claiming(w, k)
    BY <1>1, ClaimStep
  <1>2. CASE Claiming(w, k)
    <2>1. k \notin processed /\ \A v \in Workers \ {w} : ~Claiming(v, k)
      BY <1>2 DEF KeysClaimed
    <2>2. k \notin processed'
      <3>1. CASE processed' = processed
        BY <2>1, <3>1
      <3>2. ASSUME NEW u \in Workers, NEW l \in Keys, Claiming(u, l), pc'[u] = "idle",
                   processed' = processed \cup {l}
            PROVE  k \notin processed'
        <4>1. u # w
          BY <3>2 DEF Claiming
        <4>2. l # k
          BY <2>1, <3>2, <4>1
        <4> QED BY <2>1, <3>2, <4>2
      <3> QED BY <3>1, <3>2, ProcessedStep
    <2>3. ASSUME NEW v \in Workers \ {w}, Claiming(v, k)'
          PROVE  FALSE
      <3>1. ~Claiming(v, k)
        BY <2>1
      <3> QED BY <1>2, <2>3, <3>1, ClaimStep
    <2> QED BY <2>2, <2>3
  <1> QED BY <1>1, <1>2

\* Calls load, and are counted, as they are begun.
LEMMA CallKinds ==
    ASSUME IInv, LoadsUncredited, DepositsCounted, [Next]_vars
    PROVE  LoadsUncredited' /\ DepositsCounted' /\ (direct' = 0 => direct = 0)
  <1> USE DEF LoadsUncredited, DepositsCounted
  <1>1. /\ pc \in [Workers -> {"idle", "load", "mark", "readAccount", "readHolds", "save"}]
        /\ req \in [Workers -> Requests \cup {NoReq}]
        /\ direct \in Nat
    BY WalletConstants DEF IInv, TypeOK
  <1> DEFINE Goal == LoadsUncredited' /\ DepositsCounted' /\ (direct' = 0 => direct = 0)
  <1>2. ASSUME NEW w \in Workers, NEW r, req' = [req EXCEPT ![w] = r],
               \/ /\ pc' = [pc EXCEPT ![w] = "load"] /\ r.op # "Credit"
               \/ /\ pc' = [pc EXCEPT ![w] = "mark"],
               \/ direct' = direct + 1
               \/ direct' = direct /\ r.op # "Deposit"
        PROVE  Goal
    BY <1>1, <1>2
  <1>3. ASSUME NEW w \in Workers, BeginHoldCall(w)
        PROVE  Goal
    <2>1. PICK r \in BidRequests : r.op # "ExpireHold" /\ Begin(w, r)
      BY <1>3 DEF BeginHoldCall
    <2>2. r.op \notin {"Credit", "Deposit"}
      BY DEF BidRequests
    <2> QED BY <1>2, <1>3, <2>1, <2>2 DEF BeginHoldCall, Begin
  <1>4. ASSUME NEW w \in Workers, BeginDirect(w)
        PROVE  Goal
    <2>1. PICK r \in DirectRequests : Begin(w, r)
      BY <1>4 DEF BeginDirect
    <2>2. r.op # "Credit"
      BY DEF DirectRequests
    <2> QED BY <1>2, <1>4, <2>1, <2>2 DEF BeginDirect, Begin
  <1>5. ASSUME NEW w \in Workers, BeginCredit(w)
        PROVE  Goal
    <2>1. PICK r \in CreditRequests : Begin(w, r)
      BY <1>5 DEF BeginCredit
    <2>2. r.op # "Deposit"
      BY DEF CreditRequests
    <2> QED BY <1>2, <1>5, <2>1, <2>2 DEF BeginCredit, Begin
  <1>6. ASSUME NEW b \in Bids, BeginExpire(b)
        PROVE  Goal
    <2> DEFINE r == [op |-> "ExpireHold", bid |-> b]
    <2>1. r.op \notin {"Credit", "Deposit"}
      OBVIOUS
    <2> QED BY <1>2, <1>6, <2>1, WalletConstants DEF BeginExpire, Begin
  <1>7. ASSUME NEW w \in Workers, Return(w), direct' = direct
        PROVE  Goal
    BY <1>1, <1>7 DEF Return, NoReq
  <1>8. ASSUME NEW w \in Workers, Load(w) \/ ReadAccount(w) \/ ReadHolds(w)
        PROVE  Goal
    BY <1>1, <1>8 DEF Load, ReadAccount, ReadHolds
  <1>9. ASSUME NEW w \in Workers, Mark(w) \/ SaveRaced(w)
        PROVE  Goal
    BY <1>1, <1>7, <1>9 DEF Mark, SaveRaced
  <1>10. ASSUME NEW w \in Workers,
                LoadNotFound(w) \/ Refuse(w) \/ SaveNothing(w) \/ Save(w) \/ Crash(w)
         PROVE  Goal
    BY <1>7, <1>10 DEF LoadNotFound, Refuse, SaveNothing, Save, Crash
  <1>11. ASSUME Tick \/ UNCHANGED vars
         PROVE  Goal
    BY <1>11 DEF Tick, vars
  <1> QED BY <1>3, <1>4, <1>5, <1>6, <1>8, <1>9, <1>10, <1>11 DEF Next, Proceed

-----------------------------------------------------------------------------
\* What the saves so far have credited to an account.
CreditedTo(m) == Total(KeyAmount, CreditsTo(m))

\* It is an amount of gold.
LEMMA CreditedType ==
    ASSUME TypeOK, NEW m
    PROVE  CreditedTo(m) \in Nat /\ IsFiniteSet(CreditsTo(m))
           /\ \A k \in Keys : KeyAmount[k] \in Nat
  <1>1. CreditsTo(m) \in SUBSET Keys
    BY DEF TypeOK, CreditsTo
  <1>2. IsFiniteSet(CreditsTo(m))
    BY <1>1, FS_Subset, WalletConstants
  <1>3. \A k \in Keys : KeyAmount[k] \in Nat
    BY WalletConstants
  <1> QED BY <1>1, <1>2, <1>3, TotalType DEF CreditedTo

\* A save moves the gold of its account, what Deposit and Withdraw moved and what has been
\* credited to it by the same amounts, and no other account's.
LEMMA SaveGold ==
    ASSUME IInv, KeysClaimed, NEW w \in Workers, Save(w), NEW n \in Members
    PROVE  LET r == req[w]
               a == accounts[n]
               a2 == accounts'[n]
           IN  \/ a2 = a /\ moved'[n] = moved[n] /\ CreditedTo(n)' = CreditedTo(n)
               \/ /\ r \in Requests
                  /\ Balanced(a, a2, Gain(r) + Credited(r))
                  /\ a.gold <= MaxInt /\ r.op # "Deposit" /\ (r.op = "Credit" => r.key \notin SellerKeys)
                        => a2.gold <= MaxInt
                  /\ moved'[n] = moved[n] + Gain(r)
                  /\ CreditedTo(n)' = CreditedTo(n) + Credited(r)
                  /\ r.op = "Credit" => r.key \in processed'
  <1> DEFINE r == req[w]
             m == MemberOf(r)
             a == accounts[m]
             d == After(a, r)
  <1>1. /\ r \in Requests /\ m \in Members /\ a \in Account /\ at[w] \in Nat
        /\ Accepted(a, r, at[w])
        /\ accounts' = [accounts EXCEPT ![m] = Written(a, a, d)]
        /\ accounts'[m].holds = d.holds
    BY SaveStep DEF Accepted
  <1>2. /\ processed' = processed \cup (IF r.op = "Credit" THEN {r.key} ELSE {})
        /\ moved' = [moved EXCEPT ![m] = @ + Gain(r)]
        /\ pc[w] = "save"
    BY DEF Save
  <1>3. accounts \in [Members -> Account] /\ moved \in [Members -> Int] /\ TypeOK
    BY DEF IInv, TypeOK
  <1>4. r.op = "Credit" =>
            /\ r.key \in Keys /\ m = KeyMember[r.key] /\ r.key \notin processed
    <2>1. r.op = "Credit" => r.key \in Keys /\ m = KeyMember[r.key] /\ Claiming(w, r.key)
      BY <1>1, <1>2, CreditShape DEF Claiming
    <2> QED BY <2>1 DEF KeysClaimed
  <1>5. CASE n # m
    <2>1. accounts'[n] = accounts[n] /\ moved'[n] = moved[n]
      BY <1>1, <1>2, <1>3, <1>5
    <2>2. CreditsTo(n)' = CreditsTo(n)
      BY <1>2, <1>4, <1>5 DEF CreditsTo
    <2> QED BY <2>1, <2>2 DEF CreditedTo
  <1>6. CASE n = m
    <2>1. accounts'[m] = Written(a, a, d)
      BY <1>1, <1>3
    <2>2. accounts'[m].gold = d.gold /\ accounts'[m].holds = d.holds
      BY <1>1, <2>1 DEF Written
    <2>3. /\ Balanced(a, d, Gain(r) + Credited(r))
          /\ a.gold <= MaxInt /\ r.op # "Deposit" /\ (r.op = "Credit" => r.key \notin SellerKeys)
                => d.gold <= MaxInt
      BY <1>1, AfterBalanced
    <2>4. Balanced(a, accounts'[m], Gain(r) + Credited(r))
      BY <2>2, <2>3 DEF Balanced, Available, Held
    <2>5. moved'[m] = moved[m] + Gain(r)
      BY <1>1, <1>2, <1>3
    <2>6. CreditedTo(n)' = CreditedTo(n) + Credited(r)
      <3>1. CreditedTo(n) \in Nat /\ IsFiniteSet(CreditsTo(n)) /\ \A k \in Keys : KeyAmount[k] \in Nat
        BY <1>3, CreditedType
      <3>2. CASE r.op = "Credit"
        <4>1. CreditsTo(n)' = CreditsTo(n) \cup {r.key} /\ r.key \notin CreditsTo(n)
          BY <1>2, <1>4, <1>6, <3>2 DEF CreditsTo
        <4>2. \A k \in CreditsTo(n) : KeyAmount[k] \in Nat
          BY <1>3, <3>1 DEF CreditsTo, TypeOK
        <4>3. Total(KeyAmount, CreditsTo(n) \cup {r.key}) = Total(KeyAmount, CreditsTo(n)) + KeyAmount[r.key]
          BY <1>4, <3>1, <3>2, <4>1, <4>2, TotalAdd
        <4> QED BY <3>2, <4>1, <4>3 DEF CreditedTo, Credited
      <3>3. CASE r.op # "Credit"
        <4>1. CreditsTo(n)' = CreditsTo(n)
          BY <1>2, <3>3 DEF CreditsTo
        <4>2. CreditedTo(n)' = CreditedTo(n) /\ Credited(r) = 0
          BY <3>3, <4>1 DEF CreditedTo, Credited
        <4> QED BY <3>1, <4>2
      <3> QED BY <3>2, <3>3
    <2>7. r.op = "Credit" => r.key \in processed'
      BY <1>2
    <2> HIDE DEF r, m, d
    <2> QED BY <1>1, <1>6, <2>2, <2>3, <2>4, <2>5, <2>6, <2>7 DEF r
  <1> QED BY <1>5, <1>6

\* Every step keeps the gold accounted for, and none fences off more than there is.
LEMMA GoldStep ==
    ASSUME IInv, GoldInv, [Next]_vars
    PROVE  NeverOverheld' /\ GoldAccounted'
  <1>1. KeysClaimed /\ NeverOverheld /\ GoldAccounted /\ DepositsCounted /\ LoadsUncredited
    BY DEF GoldInv
  <1>2. /\ accounts \in [Members -> Account] /\ accounts' \in [Members -> Account]
        /\ moved \in [Members -> Int] /\ direct \in Nat /\ TypeOK
    BY StepAccounts, WalletConstants DEF IInv, TypeOK
  <1>3. CASE \E w \in Workers : Save(w)
    <2>1. PICK w \in Workers : Save(w)
      BY <1>3
    <2> SUFFICES ASSUME NEW m \in Members
                 PROVE  /\ Available(accounts'[m]) >= 0
                        /\ accounts'[m].gold + Held(accounts'[m], {"COMMITTED"})
                              = InitGold + moved'[m] + CreditedTo(m)'
                        /\ direct' = 0 /\ processed' \cap SellerKeys = {} => accounts'[m].gold <= MaxInt
      BY DEF NeverOverheld, GoldAccounted, CreditedTo
    <2> DEFINE r == req[w]
               a == accounts[m]
               a2 == accounts'[m]
    <2>2. /\ Available(a) >= 0
          /\ a.gold + Held(a, {"COMMITTED"}) = InitGold + moved[m] + CreditedTo(m)
          /\ direct = 0 /\ processed \cap SellerKeys = {} => a.gold <= MaxInt
      BY <1>1 DEF NeverOverheld, GoldAccounted, CreditedTo
    <2>3. direct' = direct /\ processed \subseteq processed'
      BY <2>1 DEF Save
    <2>4. CASE a2 = a /\ moved'[m] = moved[m] /\ CreditedTo(m)' = CreditedTo(m)
      <3>1. direct' = 0 /\ processed' \cap SellerKeys = {} => a2.gold <= MaxInt
        BY <2>2, <2>3, <2>4
      <3> HIDE DEF a, a2
      <3>2. Available(a2) >= 0 /\ a2.gold + Held(a2, {"COMMITTED"}) = InitGold + moved'[m] + CreditedTo(m)'
        BY <2>2, <2>4
      <3> QED BY <3>1, <3>2 DEF a2
    <2>5. CASE /\ r \in Requests
               /\ Balanced(a, a2, Gain(r) + Credited(r))
               /\ a.gold <= MaxInt /\ r.op # "Deposit" /\ (r.op = "Credit" => r.key \notin SellerKeys)
                     => a2.gold <= MaxInt
               /\ moved'[m] = moved[m] + Gain(r)
               /\ CreditedTo(m)' = CreditedTo(m) + Credited(r)
               /\ r.op = "Credit" => r.key \in processed'
      <3>1. direct' = 0 /\ processed' \cap SellerKeys = {} => a2.gold <= MaxInt
        <4> SUFFICES ASSUME direct' = 0, processed' \cap SellerKeys = {}
                     PROVE  a2.gold <= MaxInt
          OBVIOUS
        <4>1. direct = 0 /\ processed \cap SellerKeys = {}
          BY <2>3
        <4>2. a.gold <= MaxInt
          BY <2>2, <4>1
        <4>3. r.op # "Deposit"
          BY <1>1, <1>2, <4>1 DEF DepositsCounted
        <4>4. r.op = "Credit" => r.key \notin SellerKeys
          BY <2>5
        <4> QED BY <2>5, <4>2, <4>3, <4>4
      <3>2. Gain(r) \in Int /\ Credited(r) \in Int
        BY <2>5, RequestShape, AmountsType DEF Gain, Credited
      <3>3. CreditedTo(m) \in Nat /\ moved[m] \in Int /\ InitGold \in Int
        BY <1>2, CreditedType, WalletConstants
      <3>4. a.gold \in Int /\ a2.gold \in Int
        BY <1>2 DEF Account
      <3>5. Held(a, {"COMMITTED"}) \in Nat /\ Held(a2, {"COMMITTED"}) \in Nat
        BY <1>2, HeldType
      <3> DEFINE h == Held(a, {"COMMITTED"})
                 h2 == Held(a2, {"COMMITTED"})
                 g == Gain(r)
                 c == Credited(r)
      <3>6. a2.gold + h2 = a.gold + h + (g + c) /\ Available(a2) >= 0
        BY <2>5 DEF Balanced
      <3>7. a2.gold + h2 = InitGold + moved'[m] + CreditedTo(m)'
        <4> HIDE DEF a, a2, h, h2, g, c
        <4>1. moved'[m] = moved[m] + g /\ CreditedTo(m)' = CreditedTo(m) + c
          BY <2>5 DEF g, c
        <4>2. a.gold + h = InitGold + moved[m] + CreditedTo(m)
          BY <2>2 DEF h
        <4>3. g \in Int /\ c \in Int /\ h \in Nat /\ h2 \in Nat
          BY <3>2, <3>5 DEF g, c, h, h2
        <4> QED BY <3>3, <3>4, <3>6, <4>1, <4>2, <4>3
      <3> QED BY <3>1, <3>6, <3>7
    <2> QED BY <1>1, <2>1, <2>4, <2>5, SaveGold
  <1>4. CASE \A w \in Workers : ~Save(w)
    <2>1. accounts' = accounts
      BY <1>4, OnlySaveWrites
    <2>2. processed' = processed /\ moved' = moved
      BY <1>4 DEF Next, vars, BeginHoldCall, BeginDirect, BeginCredit, BeginExpire, Begin, Proceed, Load,
         LoadNotFound, Mark, ReadAccount, ReadHolds, Refuse, SaveNothing, SaveRaced, Crash, Tick
    <2>3. direct' = 0 => direct = 0
      BY <1>1, CallKinds
    <2> QED BY <1>1, <2>1, <2>2, <2>3 DEF NeverOverheld, GoldAccounted, CreditsTo
  <1> QED BY <1>3, <1>4

\* A wallet where nothing happened yet has every account's gold where it started.
LEMMA InitGoldInv == Init => GoldInv
  <1> SUFFICES ASSUME Init PROVE GoldInv
    OBVIOUS
  <1>1. LoadsUncredited /\ KeysClaimed /\ DepositsCounted
    BY DEF Init, LoadsUncredited, KeysClaimed, Claiming, DepositsCounted, NoReq
  <1>2. ASSUME NEW m \in Members
        PROVE  /\ accounts[m].gold = InitGold
               /\ \A S \in SUBSET Statuses : Held(accounts[m], S) = 0
               /\ moved[m] = 0 /\ CreditsTo(m) = {}
    <2>1. accounts[m] = [NoAccount EXCEPT !.gold = InitGold] /\ moved[m] = 0 /\ processed = {}
      BY DEF Init
    <2>2. accounts[m].gold = InitGold /\ accounts[m].holds = [b \in Bids |-> NoHold]
      BY <2>1 DEF NoAccount
    <2>3. ASSUME NEW S \in SUBSET Statuses
          PROVE  Held(accounts[m], S) = 0
      <3>1. {b \in Bids : accounts[m].holds[b].status \in S} = {}
        BY <2>2 DEF NoHold, Statuses
      <3> QED BY <3>1, TotalEmpty DEF Held
    <2> QED BY <2>1, <2>2, <2>3 DEF CreditsTo
  <1>3. Total(KeyAmount, {}) = 0
    BY TotalEmpty
  <1>4. {"RESERVED"} \in SUBSET Statuses /\ {"COMMITTED"} \in SUBSET Statuses
    BY DEF Statuses
  <1>5. InitGold \in Nat /\ InitGold <= MaxInt
    BY WalletConstants
  <1>6. NeverOverheld
    BY <1>2, <1>4, <1>5 DEF NeverOverheld, Available
  <1>7. ASSUME NEW m \in Members
        PROVE  /\ accounts[m].gold + Held(accounts[m], {"COMMITTED"})
                     = InitGold + moved[m] + Total(KeyAmount, CreditsTo(m))
               /\ accounts[m].gold <= MaxInt
    <2>1. Total(KeyAmount, CreditsTo(m)) = 0
      BY <1>2, <1>3
    <2>2. accounts[m].gold = InitGold /\ Held(accounts[m], {"COMMITTED"}) = 0 /\ moved[m] = 0
      BY <1>2, <1>4
    <2> QED BY <1>5, <2>1, <2>2
  <1> QED BY <1>1, <1>6, <1>7 DEF GoldInv, GoldAccounted

\* The invariant of the gold is inductive over the states IInv allows.
LEMMA StepGoldInv == IInv /\ GoldInv /\ [Next]_vars => GoldInv'
  BY KeysStep, CallKinds, GoldStep DEF GoldInv

\* Every reachable state satisfies it.
THEOREM GoldInvariance == Spec => []GoldInv
  BY InitGoldInv, StepGoldInv, Invariance, PTL DEF Spec

\* No account ever has more gold fenced off than it owns, however holds, commits, withdrawals,
\* credits and sweeps interleave: the state Reconstitute refuses is never saved.
THEOREM NeverOverheldCorrect == Spec => []NeverOverheld
  <1>1. GoldInv => NeverOverheld
    BY DEF GoldInv
  <1> QED BY <1>1, GoldInvariance, PTL

\* Gold is neither minted nor lost: every balance with what its holds have spent is what
\* it started with, what Deposit and Withdraw moved and each processed credit once; and
\* Credit keeps it within an int.
THEOREM GoldAccountedCorrect == Spec => []GoldAccounted
  <1>1. GoldInv => GoldAccounted
    BY DEF GoldInv
  <1> QED BY <1>1, GoldInvariance, PTL

=============================================================================
