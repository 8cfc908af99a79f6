-------------------------- MODULE BidPlacementProofs --------------------------
(***************************************************************************)
(* Proofs about module BidPlacement, for any bids, callers, amounts and    *)
(* numbers of attempts, resends and crashes: every bid that leads or may   *)
(* lead again has its gold reserved (LeaderBacked), an answer about a bid  *)
(* is never taken back (RefusalsFinal), and a refusal that was waited for  *)
(* comes after the gold (RefusedGoldBack).  They rest on ServedWell: a     *)
(* resend comes after the call it repeats, and a bid sent under a key is   *)
(* one whose refusal waits for its release.                                *)
(*                                                                         *)
(* The argument: a hold is released only for a bid that is not live and    *)
(* can never become so (Releasing, Aged), because whoever could still      *)
(* write it would have to be a call for the same bid (Alone, CallTells)    *)
(* or a COMMIT in doubt (InDoubt).                                         *)
(***************************************************************************)
EXTENDS BidPlacement, TLAPS

ServedWell == ~Overlap /\ Keyed \cap (Troubled \cup Buyouts) = {}

Live(l, b) == l.bids[b].status \in {"WINNING", "OUTBID"}
Unwritten(b) == listing.bids[b] = NoBid /\ tx.bid # b
Backed(b, n) == holds[b] = [status |-> "RESERVED", amount |-> n]
NonePending(l) == \A b \in Bids : l.bids[b].status # "PENDING"

\* l2 is l but for bid b, and for who leads among those that are live
Kin(l, l2, b) ==
    \A c \in Bids \ {b} :
        /\ l2.bids[c].amount = l.bids[c].amount
        /\ Live(l2, c) <=> Live(l, c)
        /\ ~Live(l, c) => l2.bids[c] = l.bids[c]

\* a COMMIT in doubt would record one more bid, with its gold
InDoubt ==
    /\ NonePending(listing)
    /\ tx # NoTx =>
          /\ tx.bid \in Bids /\ listing.bids[tx.bid] = NoBid
          /\ NonePending(tx.after)
          /\ Live(tx.after, tx.bid) /\ Backed(tx.bid, tx.after.bids[tx.bid].amount)
          /\ Kin(listing, tx.after, tx.bid)

IsPlacing(w, b) == call[w].bid = b /\ call[w].pc # "withdrawn"
MayWrite(w, b) == call[w].bid = b /\ call[w].pc \in {"hold", "write"}

CallTells(w) ==
    LET b == call[w].bid
        p == call[w].pc
    IN  /\ IF p = "idle" THEN call[w] = Idle ELSE b \in Bids
        /\ p \in {"hold", "write"} =>
              /\ call[w].amount \in Amounts \cup {BuyoutPrice}
              /\ call[w].tries = 0 /\ b \notin Keyed => Unwritten(b)
        /\ p = "hold" => call[w].tries = 0
        /\ p = "write" =>
              /\ holds[b] # NoHold
              /\ listing.bids[b] # NoBid \/ Backed(b, call[w].amount)
        /\ p \in {"refused", "replayed", "wait"} => Unwritten(b) /\ holds[b] # NoHold
        /\ p = "replayed" => b \in Buyouts
        /\ p = "wait" => b \notin Buyouts /\ runs[b] # "none"
        /\ p = "withdrawn" => listing.bids[b].status = "CANCELLED" /\ holds[b] # NoHold

Calls == \A w \in Callers : CallTells(w)

Alone == \A w, v \in Callers, b \in Bids : IsPlacing(w, b) /\ IsPlacing(v, b) => w = v

\* nothing is known of a bid nobody sent
Fresh ==
    \A b \in Bids : calls[b] = 0 =>
        /\ Unwritten(b) /\ holds[b] = NoHold /\ runs[b] = "none"
        /\ b \notin aged /\ <<"refused", b>> \notin told
        /\ \A w \in Callers : call[w].bid # b

\* an aged hold's bid is written by nobody any more
Aged ==
    /\ \A b \in aged : tx.bid # b /\ \A w \in Callers : ~IsPlacing(w, b)
    /\ \A b \in judged : ~Live(listing, b)

Releasing ==
    /\ \A b \in Bids : /\ runs[b] # "none" => holds[b] # NoHold
                       /\ runs[b] = "done" => holds[b].status = "RELEASED"
                       /\ runs[b] = "running" => ~Live(listing, b) /\ tx.bid # b
    /\ \A b \in Bids, w \in Callers :
          runs[b] = "running" /\ MayWrite(w, b) => listing.bids[b] # NoBid
    /\ \A b \in Keyed :
          runs[b] = "running" /\ listing.bids[b] = NoBid =>
              \E w \in Callers : call[w].bid = b /\ call[w].pc = "wait"

Told ==
    /\ \A b \in Bids : <<"recorded", b>> \in told => listing.bids[b] # NoBid
    /\ \A b \in Bids : <<"refused", b>> \in told =>
          Unwritten(b) /\ (b \notin Buyouts \cup Troubled => holds[b].status = "RELEASED")
    /\ \A b \in Bids, w \in Callers :
          <<"refused", b>> \in told /\ call[w].bid = b =>
              call[w].pc # "write" /\ (call[w].pc = "hold" => b \in Keyed)

LeadersBacked == \A b \in Bids : Live(listing, b) => Backed(b, listing.bids[b].amount)

IInv ==
    /\ TypeOK /\ InDoubt /\ LeadersBacked /\ Calls /\ Alone
    /\ Fresh /\ Aged /\ Releasing /\ Told

-----------------------------------------------------------------------------
(* What the verbs make of a listing.                                       *)

(* A bid is recorded exactly if it has a status of its own. *)
LEMMA BidKinds ==
    ASSUME NEW x \in Bid
    PROVE  /\ x = NoBid <=> x.status = "NONE"
           /\ x # NoBid => x \in [status : BidStatuses, amount : Nat \ {0}, led : BOOLEAN]
BY DEF Bid, NoBid, BidStatuses

(* Moving recorded bids to a status changes nothing else. *)
LEMMA MoveEffect ==
    ASSUME NEW l \in Listing, NEW B \in SUBSET Recorded(l), NEW s \in BidStatuses
    PROVE  /\ Move(l, B, s) \in Listing
           /\ \A c \in Bids : /\ Move(l, B, s).bids[c].amount = l.bids[c].amount
                              /\ c \in B => Move(l, B, s).bids[c].status = s
                              /\ c \notin B => Move(l, B, s).bids[c] = l.bids[c]
<1> DEFINE moved == [b \in Bids |-> IF b \in B THEN [l.bids[b] EXCEPT !.status = s] ELSE l.bids[b]]
<1>1. ASSUME NEW c \in Bids
      PROVE  /\ moved[c] \in Bid /\ moved[c].amount = l.bids[c].amount
             /\ c \in B => moved[c].status = s
             /\ c \notin B => moved[c] = l.bids[c]
  <2>1. l.bids[c] \in Bid
    BY DEF Listing
  <2>2. CASE c \in B
    <3>1. l.bids[c] \in [status : BidStatuses, amount : Nat \ {0}, led : BOOLEAN]
      BY <2>1, <2>2, BidKinds DEF Recorded
    <3> QED BY <2>2, <3>1 DEF Bid
  <2>3. CASE c \notin B
    BY <2>1, <2>3
  <2> QED BY <2>2, <2>3
<1>2. Move(l, B, s) = [l EXCEPT !.bids = moved]
  BY DEF Move
<1>3. moved \in [Bids -> Bid]
  BY <1>1
<1> HIDE DEF moved
<1> QED BY <1>1, <1>2, <1>3 DEF Listing

(* The highest bid, which has to give way, stays live; the new one leads or
   is outbid; nobody else's bid changes. *)
Recording(l, b, n) == IF b \in Buyouts THEN Buyout(l, b) ELSE ConfirmBid(PlaceBid(l, b, n), b)

LEMMA RecordingEffect ==
    ASSUME NEW l \in Listing, NonePending(l), NEW b \in Bids, l.bids[b] = NoBid,
           NEW n \in Nat \ {0}, b \in Buyouts => n = BuyoutPrice
    PROVE  /\ Recording(l, b, n) \in Listing /\ NonePending(Recording(l, b, n))
           /\ Live(Recording(l, b, n), b) /\ Recording(l, b, n).bids[b].amount = n
           /\ Kin(l, Recording(l, b, n), b)
<1>0. Winning(l) \in SUBSET Recorded(l) /\ b \notin Winning(l)
  BY DEF Winning, Having, Recorded, NoBid
<1>1. CASE b \in Buyouts
  <2> DEFINE m == Move(l, Winning(l), "OUTBID")
             new == [status |-> "WINNING", amount |-> BuyoutPrice, led |-> FALSE]
  <2>1. /\ m \in Listing
        /\ \A c \in Bids : /\ m.bids[c].amount = l.bids[c].amount
                           /\ c \in Winning(l) => m.bids[c].status = "OUTBID"
                           /\ c \notin Winning(l) => m.bids[c] = l.bids[c]
    BY <1>0, MoveEffect DEF BidStatuses
  <2>2. Recording(l, b, n) = [m EXCEPT !.bids[b] = new]
    BY <1>1 DEF Recording, Buyout
  <2>3. new \in Bid /\ new.amount = n /\ new.status = "WINNING"
    BY <1>1 DEF Bid, BidStatuses
  <2> HIDE DEF m, new
  <2>4. Recording(l, b, n) \in Listing /\ Recording(l, b, n).bids[b] = new
        /\ \A c \in Bids \ {b} : Recording(l, b, n).bids[c] = m.bids[c]
    BY <2>1, <2>2, <2>3 DEF Listing
  <2> QED BY <2>1, <2>3, <2>4 DEF NonePending, Live, Kin, Winning, Having
<1>2. CASE b \notin Buyouts
  <2> DEFINE p == PlaceBid(l, b, n)
             new == [status |-> "PENDING", amount |-> n, led |-> FALSE]
  <2>1. p \in Listing /\ p.bids[b] = new /\ \A c \in Bids \ {b} : p.bids[c] = l.bids[c]
    <3>1. new \in Bid
      BY DEF Bid, BidStatuses
    <3>2. p = [l EXCEPT !.bids[b] = new]
      BY DEF PlaceBid
    <3> HIDE DEF p, new
    <3> QED BY <3>1, <3>2 DEF Listing
  <2>2. Recording(l, b, n) = ConfirmBid(p, b)
    BY <1>2 DEF Recording
  <2>3. new.status = "PENDING" /\ new.amount = n /\ new # NoBid
    BY DEF NoBid
  <2> HIDE DEF p, new
  <2>4. {b} \in SUBSET Recorded(p) /\ Winning(p) \in SUBSET Recorded(p) /\ Winning(p) = Winning(l)
    BY <1>0, <2>1, <2>3 DEF Recorded, Winning, Having, NoBid
  <2>5. CASE ConfirmBid(p, b) = Move(p, {b}, "OUTBID")
    <3> DEFINE q == Move(p, {b}, "OUTBID")
    <3>1. /\ q \in Listing
          /\ \A c \in Bids : /\ q.bids[c].amount = p.bids[c].amount
                             /\ c \in {b} => q.bids[c].status = "OUTBID"
                             /\ c \notin {b} => q.bids[c] = p.bids[c]
      BY <2>1, <2>4, MoveEffect DEF BidStatuses
    <3> HIDE DEF q
    <3>2. Recording(l, b, n) = q
      BY <2>2, <2>5 DEF q
    <3> QED BY <2>1, <2>3, <3>1, <3>2 DEF NonePending, Live, Kin
  <2>6. CASE ConfirmBid(p, b) = Move(Move(p, Winning(p), "OUTBID"), {b}, "WINNING")
    <3> DEFINE m == Move(p, Winning(p), "OUTBID")
               q == Move(m, {b}, "WINNING")
    <3>1. /\ m \in Listing
          /\ \A c \in Bids : /\ m.bids[c].amount = p.bids[c].amount
                             /\ c \in Winning(p) => m.bids[c].status = "OUTBID"
                             /\ c \notin Winning(p) => m.bids[c] = p.bids[c]
      BY <2>1, <2>4, MoveEffect DEF BidStatuses
    <3> HIDE DEF m
    <3>2. {b} \in SUBSET Recorded(m)
      BY <1>0, <2>1, <2>3, <2>4, <3>1 DEF Recorded
    <3>3. /\ q \in Listing
          /\ \A c \in Bids : /\ q.bids[c].amount = m.bids[c].amount
                             /\ c \in {b} => q.bids[c].status = "WINNING"
                             /\ c \notin {b} => q.bids[c] = m.bids[c]
      BY <3>1, <3>2, MoveEffect DEF BidStatuses
    <3>4. Recording(l, b, n) = q
      BY <2>2, <2>6 DEF m, q
    <3> HIDE DEF q
    <3>5. NonePending(q) /\ Live(q, b) /\ q.bids[b].amount = n
      BY <2>1, <2>3, <2>4, <3>1, <3>3 DEF NonePending, Live
    <3>6. Kin(l, q, b)
      BY <2>1, <2>4, <3>1, <3>3 DEF Live, Kin, Winning, Having
    <3> QED BY <3>3, <3>4, <3>5, <3>6
  <2> QED BY <2>1, <2>3, <2>5, <2>6 DEF ConfirmBid
<1> QED BY <1>1, <1>2

(* A withdrawn bid leaves the auction, and its heir was live already. *)
LEMMA WithdrawEffect ==
    ASSUME NEW l \in Listing, NonePending(l), NEW b \in Bids, Live(l, b), NEW l2 \in WithdrawBid(l, b)
    PROVE  /\ l2 \in Listing /\ NonePending(l2) /\ l2.bids[b].status = "CANCELLED" /\ Kin(l, l2, b)
<1>0. l.bids[b] \in [status : BidStatuses, amount : Nat \ {0}, led : BOOLEAN]
  BY BidKinds DEF Live, Listing, NoBid
<1> DEFINE led == l.bids[b].status = "WINNING"
           left == [l EXCEPT !.bids[b] = [@ EXCEPT !.status = "CANCELLED", !.led = led]]
<1>1. left \in Listing /\ left.bids[b].status = "CANCELLED" /\ left.bids[b] # NoBid
      /\ \A c \in Bids \ {b} : left.bids[c] = l.bids[c]
  <2> DEFINE new == [l.bids[b] EXCEPT !.status = "CANCELLED", !.led = led]
  <2>1. new \in Bid /\ new.status = "CANCELLED" /\ new # NoBid
    BY <1>0 DEF Bid, BidStatuses, NoBid
  <2>2. left = [l EXCEPT !.bids[b] = new]
    OBVIOUS
  <2> HIDE DEF new, left, led
  <2> QED BY <2>1, <2>2 DEF Listing
<1>2. CASE l2 = left
  <2> HIDE DEF left
  <2> QED BY <1>1, <1>2 DEF NonePending, Kin, Live
<1>3. ASSUME l.bids[b].status = "WINNING", NEW heir \in RunnersUp(l), l2 = Move(left, {heir}, "WINNING")
      PROVE  /\ l2 \in Listing /\ NonePending(l2) /\ l2.bids[b].status = "CANCELLED" /\ Kin(l, l2, b)
  <2> HIDE DEF left
  <2>1. heir \in Bids /\ l.bids[heir].status = "OUTBID" /\ heir # b
    BY <1>3 DEF RunnersUp, Highest, Having
  <2>2. {heir} \in SUBSET Recorded(left)
    BY <1>1, <2>1 DEF Recorded, NoBid
  <2>3. /\ l2 \in Listing
        /\ \A c \in Bids : /\ l2.bids[c].amount = left.bids[c].amount
                           /\ c \in {heir} => l2.bids[c].status = "WINNING"
                           /\ c \notin {heir} => l2.bids[c] = left.bids[c]
    BY <1>1, <1>3, <2>2, MoveEffect DEF BidStatuses
  <2> QED BY <1>1, <2>1, <2>3 DEF NonePending, Kin, Live
<1>4. l2 = left \/ (l.bids[b].status = "WINNING" /\ \E heir \in RunnersUp(l) : l2 = Move(left, {heir}, "WINNING"))
  BY DEF WithdrawBid
<1> QED BY <1>2, <1>3, <1>4

-----------------------------------------------------------------------------
(* Facts every step uses.                                                  *)

PCs == {"idle", "hold", "write", "refused", "replayed", "withdrawn", "wait"}

LEMMA BidOf ==
    ASSUME TypeOK, NEW b \in Bids
    PROVE  /\ listing.bids[b] = NoBid <=> listing.bids[b].status = "NONE"
           /\ b \in Recorded(listing) <=> listing.bids[b] # NoBid
           /\ holds[b] # NoHold => holds[b].status \in {"RESERVED", "RELEASED"}
           /\ b # NobodysBid
BY BidKinds, PlacementConstants DEF TypeOK, Listing, Recorded, Holds

LEMMA Nobody ==
    NobodysBid \notin Bids /\ Idle.pc = "idle" /\ Idle.bid = NobodysBid /\ NoHold.status = "NONE"
BY PlacementConstants DEF Idle, NoHold

LEMMA LiveHeld == ASSUME LeadersBacked, NEW b \in Bids, Live(listing, b) PROVE holds[b] # NoHold
<1>1. Backed(b, listing.bids[b].amount)
  BY DEF LeadersBacked
<1> QED BY <1>1 DEF Backed, NoHold

LEMMA CallOf ==
    ASSUME IInv, NEW w \in Callers, call[w].pc # "idle"
    PROVE  call[w].bid \in Bids /\ call[w].pc \in PCs /\ CallTells(w) /\ calls[call[w].bid] # 0
BY DEF IInv, Calls, CallTells, Fresh, TypeOK, PCs

LEMMA Going ==
    ASSUME TypeOK, NEW w \in Callers, NEW p \in PCs, Goto(w, p)
    PROVE  /\ call' \in [Callers -> [pc : PCs, bid : Bids \cup {NobodysBid},
                                     amount : Amounts \cup {0, BuyoutPrice}, tries : 0..(MaxWrites - 1)]]
           /\ call'[w].pc = p /\ call'[w].bid = call[w].bid
           /\ call'[w].amount = call[w].amount /\ call'[w].tries = call[w].tries
           /\ \A v \in Callers \ {w} : call'[v] = call[v]
BY DEF TypeOK, Goto, PCs

LEMMA Returning ==
    ASSUME TypeOK, NEW w \in Callers, Return(w)
    PROVE  /\ call' \in [Callers -> [pc : PCs, bid : Bids \cup {NobodysBid},
                                     amount : Amounts \cup {0, BuyoutPrice}, tries : 0..(MaxWrites - 1)]]
           /\ call'[w] = Idle
           /\ \A v \in Callers \ {w} : call'[v] = call[v]
BY PlacementConstants DEF TypeOK, Return, PCs, Idle

LEMMA Retrying ==
    ASSUME TypeOK, NEW w \in Callers, call[w].tries + 1 < MaxWrites,
           call' = [call EXCEPT ![w].tries = @ + 1]
    PROVE  /\ call' \in [Callers -> [pc : PCs, bid : Bids \cup {NobodysBid},
                                     amount : Amounts \cup {0, BuyoutPrice}, tries : 0..(MaxWrites - 1)]]
           /\ call'[w].pc = call[w].pc /\ call'[w].bid = call[w].bid
           /\ call'[w].amount = call[w].amount /\ call'[w].tries # 0
           /\ \A v \in Callers \ {w} : call'[v] = call[v]
BY PlacementConstants DEF TypeOK, PCs

(* A resend finds nothing of the call it repeats still under way. *)
LEMMA StepBegin ==
    ASSUME IInv, ServedWell, NEW w \in Callers, NEW b \in Bids, NEW n \in Amounts \cup {BuyoutPrice},
           Begin(w, b, n)
    PROVE  IInv'
<1>w. /\ UNCHANGED <<listing, tx, holds, runs, aged, judged, told, crashes>>
      /\ call[w] = Idle /\ call'[w].pc = "hold" /\ call'[w].bid = b
      /\ call'[w].amount = n /\ call'[w].tries = 0
      /\ \A v \in Callers \ {w} : call'[v] = call[v]
      /\ listing.bids[b] = NoBid /\ b \notin aged
      /\ calls'[b] # 0 /\ \A c \in Bids \ {b} : calls'[c] = calls[c]
  BY BidOf DEF IInv, TypeOK, Begin, PassesRead, UnchangedReconciler
<1>t. TypeOK'
  <2>1. calls' \in [Bids -> 0..MaxCalls]
    BY PlacementConstants DEF IInv, TypeOK, Begin
  <2>2. call' \in [Callers -> [pc : PCs, bid : Bids \cup {NobodysBid},
                               amount : Amounts \cup {0, BuyoutPrice}, tries : 0..(MaxWrites - 1)]]
    BY PlacementConstants DEF IInv, TypeOK, Begin, PCs
  <2> QED BY <1>w, <2>1, <2>2 DEF IInv, TypeOK, PCs
<1>p. \A v \in Callers : ~IsPlacing(v, b)
  BY DEF ServedWell, Begin, Placing, IsPlacing
<1>k. b \notin Keyed => calls[b] = 0
  BY DEF IInv, TypeOK, Begin
<1>u. b \notin Keyed => Unwritten(b) /\ runs[b] = "none" /\ <<"refused", b>> \notin told
  BY <1>k DEF IInv, Fresh
<1>r. runs[b] # "running"
  <2>1. b \in Keyed /\ runs[b] = "running" => FALSE
    BY <1>w, <1>p DEF IInv, Releasing, IsPlacing
  <2> QED BY <2>1, <1>u
<1>b. b # NobodysBid
  BY PlacementConstants
<1>1. TypeOK'
  BY <1>t
<1>2. InDoubt'
  BY <1>w, Nobody DEF IInv, InDoubt, NonePending, Kin, Live, Backed
<1>3. LeadersBacked'
  <2>1. ASSUME NEW c \in Bids, Live(listing, c)'
        PROVE  holds'[c] = [status |-> "RESERVED", amount |-> listing'.bids[c].amount]
    BY <2>1, <1>w, Nobody DEF IInv, LeadersBacked, Live, Backed
  <2> QED BY <2>1 DEF LeadersBacked, Backed
<1>4. Calls'
  <2>1. ASSUME NEW v \in Callers
        PROVE  CallTells(v)'
    <3>1. CASE v = w
      BY <2>1, <3>1, <1>w, Nobody, <1>u, <1>b DEF IInv, Calls, CallTells, Unwritten, Backed, Idle
    <3>2. CASE v # w
      BY <2>1, <3>2, <1>w, Nobody, <1>u, <1>b DEF IInv, Calls, CallTells, Unwritten, Backed, Idle
    <3> QED BY <3>1, <3>2
  <2> QED BY <2>1 DEF Calls
<1>5. Alone'
  BY <1>w, Nobody, <1>p, <1>b DEF IInv, Alone, IsPlacing
<1>6. Fresh'
  BY <1>w, Nobody, <1>b DEF IInv, Fresh, Unwritten
<1>7. Aged'
  BY <1>w, Nobody, <1>b DEF IInv, Aged, IsPlacing, TypeOK
<1>8. Releasing'
  <2>1. ASSUME NEW c \in Bids
        PROVE  (runs'[c] # "none" => holds'[c] # NoHold) /\ (runs'[c] = "done" => holds'[c].status = "RELEASED")
    BY <2>1, <1>w, Nobody, <1>r, <1>b DEF IInv, Releasing
  <2>2. ASSUME NEW c \in Bids, runs'[c] = "running"
        PROVE  ~Live(listing, c)' /\ tx'.bid # c
    BY <2>2, <1>w, Nobody, <1>r, <1>b DEF IInv, Releasing, Live
  <2>3. ASSUME NEW c \in Bids, runs'[c] = "running", NEW v \in Callers, MayWrite(v, c)'
        PROVE  listing'.bids[c] # NoBid
    <3>1. CASE v = w
      BY <2>3, <3>1, <1>w, Nobody, <1>r, <1>b DEF IInv, Releasing, MayWrite
    <3>2. CASE v # w
      BY <2>3, <3>2, <1>w, Nobody, <1>r, <1>b DEF IInv, Releasing, MayWrite
    <3> QED BY <3>1, <3>2
  <2>4. ASSUME NEW c \in Bids, runs'[c] = "running", c \in Keyed, listing'.bids[c] = NoBid
        PROVE  \E v \in Callers : call'[v].bid = c /\ call'[v].pc = "wait"
    BY <2>4, <1>w, Nobody, <1>r, <1>b DEF IInv, Releasing
  <2> QED BY <2>1, <2>2, <2>3, <2>4, PlacementConstants DEF Releasing
<1>9. Told'
  <2>1. ASSUME NEW c \in Bids, <<"recorded", c>> \in told'
        PROVE  listing'.bids[c] # NoBid
    BY <2>1, <1>w, Nobody, <1>u DEF IInv, Told
  <2>2. ASSUME NEW c \in Bids, <<"refused", c>> \in told'
        PROVE  Unwritten(c)'
    BY <2>2, <1>w, Nobody, <1>u DEF IInv, Told, Unwritten
  <2>3. ASSUME NEW c \in Bids, <<"refused", c>> \in told', c \notin Buyouts \cup Troubled
        PROVE  holds'[c].status = "RELEASED"
    BY <2>3, <1>w, Nobody, <1>u DEF IInv, Told
  <2>4. ASSUME NEW c \in Bids, <<"refused", c>> \in told', NEW v \in Callers, call'[v].bid = c
        PROVE  call'[v].pc # "write" /\ (call'[v].pc = "hold" => c \in Keyed)
    <3>1. CASE v = w
      BY <2>4, <3>1, <1>w, Nobody, <1>u DEF IInv, Told
    <3>2. CASE v # w
      BY <2>4, <3>2, <1>w, Nobody, <1>u DEF IInv, Told
    <3> QED BY <3>1, <3>2
  <2> QED BY <2>1, <2>2, <2>3, <2>4 DEF Told
<1> QED BY <1>1, <1>2, <1>3, <1>4, <1>5, <1>6, <1>7, <1>8, <1>9 DEF IInv

(* A hold that was released is never taken up again, so a resend of a refused
   bid ends here. *)
LEMMA StepHold ==
    ASSUME IInv, ServedWell, NEW w \in Callers, Hold(w)
    PROVE  IInv'
<1>0. PICK b \in Bids, n \in Amounts \cup {BuyoutPrice} : b = call[w].bid /\ n = call[w].amount
  BY CallOf DEF Hold, CallTells
<1>b. /\ b # NobodysBid /\ call[w].pc = "hold" /\ call[w].bid = b /\ call[w].amount = n
      /\ CallTells(w) /\ calls[b] # 0 /\ call[w].tries = 0
  BY <1>0, BidOf, CallOf DEF IInv, Hold, CallTells
<1>n. UNCHANGED <<listing, tx, calls, runs, aged, judged, told, crashes>>
  BY DEF Hold, UnchangedReconciler
<1>r. <<"refused", b>> \in told => holds[b].status = "RELEASED"
  BY <1>b DEF IInv, Told, ServedWell
<1>l. \A c \in Bids : Live(listing, c) => holds[c] # NoHold
  BY LiveHeld DEF IInv
<1>d. tx # NoTx => tx.bid \in Bids /\ holds[tx.bid] # NoHold
  BY DEF IInv, InDoubt, Backed, NoHold
<1>h. \/ holds[b] = NoHold /\ holds' = [holds EXCEPT ![b] = [status |-> "RESERVED", amount |-> n]]
      \/ holds' = holds
  BY <1>0 DEF Hold
<1>g. /\ holds' \in [Bids -> Holds]
      /\ \A c \in Bids : holds[c] # NoHold => holds'[c] = holds[c]
      /\ holds'[b] # holds[b] => holds[b] = NoHold /\ Backed(b, n)'
      /\ \A c \in Bids \ {b} : holds'[c] = holds[c]
  <2>1. [status |-> "RESERVED", amount |-> n] \in Holds
    BY <1>b DEF Holds
  <2>2. holds \in [Bids -> Holds]
    BY DEF IInv, TypeOK
  <2>3. Backed(b, n)' <=> holds'[b] = [status |-> "RESERVED", amount |-> n]
    BY <1>n DEF Backed
  <2> QED BY <1>b, <1>h, <2>1, <2>2, <2>3
<1>c. /\ call' \in [Callers -> [pc : PCs, bid : Bids \cup {NobodysBid},
                                amount : Amounts \cup {0, BuyoutPrice}, tries : 0..(MaxWrites - 1)]]
      /\ \A v \in Callers \ {w} : call'[v] = call[v]
      /\ \/ call'[w] = Idle
         \/ /\ call'[w].pc = "write" /\ call'[w].bid = b
            /\ call'[w].amount = n /\ call'[w].tries = 0
            /\ holds'[b] = [status |-> "RESERVED", amount |-> n] /\ holds[b].status # "RELEASED"
  <2>1. CASE Goto(w, "write")
    <3>1. holds'[b] = [status |-> "RESERVED", amount |-> n] /\ holds[b].status # "RELEASED"
      BY <1>b, <2>1 DEF IInv, TypeOK, Hold, HeldFor, Return, Goto, NoHold, Idle
    <3> QED BY <1>b, <2>1, <3>1, Going DEF IInv, PCs
  <2>2. CASE Return(w)
    BY <2>2, Returning DEF IInv
  <2> QED BY <2>1, <2>2 DEF Hold
<1>1. TypeOK'
  BY <1>b, <1>n, <1>g, <1>c, <1>r, Nobody DEF IInv, TypeOK, PCs
<1>2. InDoubt'
  BY <1>b, <1>n, <1>g, <1>c, <1>r, Nobody, <1>d DEF IInv, InDoubt, NonePending, Kin, Live, Backed
<1>3. LeadersBacked'
  <2>1. ASSUME NEW c \in Bids, Live(listing, c)'
        PROVE  holds'[c] = [status |-> "RESERVED", amount |-> listing'.bids[c].amount]
    BY <2>1, <1>b, <1>n, <1>g, <1>c, <1>r, Nobody, <1>l DEF IInv, LeadersBacked, Live, Backed
  <2> QED BY <2>1 DEF LeadersBacked, Backed
<1>4. Calls'
  <2>1. ASSUME NEW v \in Callers
        PROVE  CallTells(v)'
    <3>1. CASE v = w
      BY <2>1, <3>1, <1>b, <1>n, <1>g, <1>c, <1>r, Nobody DEF IInv, Calls, CallTells, Unwritten, Backed, Idle
    <3>2. CASE v # w
      BY <2>1, <3>2, <1>b, <1>n, <1>g, <1>c, <1>r, Nobody DEF IInv, Calls, CallTells, Unwritten, Backed, Idle
    <3> QED BY <3>1, <3>2
  <2> QED BY <2>1 DEF Calls
<1>5. Alone'
  BY <1>b, <1>n, <1>g, <1>c, <1>r, Nobody DEF IInv, Alone, IsPlacing
<1>6. Fresh'
  BY <1>b, <1>n, <1>g, <1>c, <1>r, Nobody DEF IInv, Fresh, Unwritten
<1>7. Aged'
  BY <1>b, <1>n, <1>g, <1>c, <1>r, Nobody DEF IInv, Aged, IsPlacing, TypeOK
<1>8. Releasing'
  <2>1. ASSUME NEW c \in Bids
        PROVE  (runs'[c] # "none" => holds'[c] # NoHold) /\ (runs'[c] = "done" => holds'[c].status = "RELEASED")
    BY <2>1, <1>b, <1>n, <1>g, <1>c, <1>r, Nobody DEF IInv, Releasing
  <2>2. ASSUME NEW c \in Bids, runs'[c] = "running"
        PROVE  ~Live(listing, c)' /\ tx'.bid # c
    BY <2>2, <1>b, <1>n, <1>g, <1>c, <1>r, Nobody DEF IInv, Releasing, Live
  <2>3. ASSUME NEW c \in Bids, runs'[c] = "running", NEW v \in Callers, MayWrite(v, c)'
        PROVE  listing'.bids[c] # NoBid
    <3>1. CASE v = w
      BY <2>3, <3>1, <1>b, <1>n, <1>g, <1>c, <1>r, Nobody DEF IInv, Releasing, MayWrite
    <3>2. CASE v # w
      BY <2>3, <3>2, <1>b, <1>n, <1>g, <1>c, <1>r, Nobody DEF IInv, Releasing, MayWrite
    <3> QED BY <3>1, <3>2
  <2>4. ASSUME NEW c \in Bids, runs'[c] = "running", c \in Keyed, listing'.bids[c] = NoBid
        PROVE  \E v \in Callers : call'[v].bid = c /\ call'[v].pc = "wait"
    BY <2>4, <1>b, <1>n, <1>g, <1>c, <1>r, Nobody DEF IInv, Releasing
  <2> QED BY <2>1, <2>2, <2>3, <2>4, PlacementConstants DEF Releasing
<1>9. Told'
  <2>1. ASSUME NEW c \in Bids, <<"recorded", c>> \in told'
        PROVE  listing'.bids[c] # NoBid
    BY <2>1, <1>b, <1>n, <1>g, <1>c, <1>r, Nobody DEF IInv, Told
  <2>2. ASSUME NEW c \in Bids, <<"refused", c>> \in told'
        PROVE  Unwritten(c)'
    BY <2>2, <1>b, <1>n, <1>g, <1>c, <1>r, Nobody DEF IInv, Told, Unwritten
  <2>3. ASSUME NEW c \in Bids, <<"refused", c>> \in told', c \notin Buyouts \cup Troubled
        PROVE  holds'[c].status = "RELEASED"
    BY <2>3, <1>b, <1>n, <1>g, <1>c, <1>r, Nobody DEF IInv, Told
  <2>4. ASSUME NEW c \in Bids, <<"refused", c>> \in told', NEW v \in Callers, call'[v].bid = c
        PROVE  call'[v].pc # "write" /\ (call'[v].pc = "hold" => c \in Keyed)
    <3>1. CASE v = w
      BY <2>4, <3>1, <1>b, <1>n, <1>g, <1>c, <1>r, Nobody DEF IInv, Told
    <3>2. CASE v # w
      BY <2>4, <3>2, <1>b, <1>n, <1>g, <1>c, <1>r, Nobody DEF IInv, Told
    <3> QED BY <3>1, <3>2
  <2> QED BY <2>1, <2>2, <2>3, <2>4 DEF Told
<1> QED BY <1>1, <1>2, <1>3, <1>4, <1>5, <1>6, <1>7, <1>8, <1>9 DEF IInv

(* The bid is there already: the call says so. *)
LEMMA StepRecorded ==
    ASSUME IInv, NEW w \in Callers, call[w].pc = "write", call[w].bid \in Recorded(listing),
           told' = told \cup {<<"recorded", call[w].bid>>}, Return(w),
           UNCHANGED <<listing, tx, holds, calls, runs, aged, judged, crashes>>
    PROVE  IInv'
<1>0. PICK b \in Bids : b = call[w].bid
  BY DEF Recorded
<1>b. b # NobodysBid /\ listing.bids[b] # NoBid /\ call[w].pc = "write" /\ call[w].bid = b
  BY <1>0, BidOf DEF IInv
<1>n. told' = told \cup {<<"recorded", b>>}
  BY <1>0
<1>c. /\ call' \in [Callers -> [pc : PCs, bid : Bids \cup {NobodysBid},
                                amount : Amounts \cup {0, BuyoutPrice}, tries : 0..(MaxWrites - 1)]]
      /\ call'[w] = Idle /\ \A v \in Callers \ {w} : call'[v] = call[v]
  BY Returning DEF IInv
<1>1. TypeOK'
  BY <1>b, <1>n, <1>c, Nobody DEF IInv, TypeOK, PCs
<1>2. InDoubt'
  BY <1>b, <1>n, <1>c, Nobody DEF IInv, InDoubt, NonePending, Kin, Live, Backed
<1>3. LeadersBacked'
  <2>1. ASSUME NEW c \in Bids, Live(listing, c)'
        PROVE  holds'[c] = [status |-> "RESERVED", amount |-> listing'.bids[c].amount]
    BY <2>1, <1>b, <1>n, <1>c, Nobody DEF IInv, LeadersBacked, Live, Backed
  <2> QED BY <2>1 DEF LeadersBacked, Backed
<1>4. Calls'
  <2>1. ASSUME NEW v \in Callers
        PROVE  CallTells(v)'
    <3>1. CASE v = w
      BY <2>1, <3>1, <1>b, <1>n, <1>c, Nobody DEF IInv, Calls, CallTells, Unwritten, Backed, Idle
    <3>2. CASE v # w
      BY <2>1, <3>2, <1>b, <1>n, <1>c, Nobody DEF IInv, Calls, CallTells, Unwritten, Backed, Idle
    <3> QED BY <3>1, <3>2
  <2> QED BY <2>1 DEF Calls
<1>5. Alone'
  BY <1>b, <1>n, <1>c, Nobody DEF IInv, Alone, IsPlacing
<1>6. Fresh'
  BY <1>b, <1>n, <1>c, Nobody DEF IInv, Fresh, Unwritten
<1>7. Aged'
  BY <1>b, <1>n, <1>c, Nobody DEF IInv, Aged, IsPlacing, TypeOK
<1>8. Releasing'
  <2>1. ASSUME NEW c \in Bids
        PROVE  (runs'[c] # "none" => holds'[c] # NoHold) /\ (runs'[c] = "done" => holds'[c].status = "RELEASED")
    BY <2>1, <1>b, <1>n, <1>c, Nobody DEF IInv, Releasing
  <2>2. ASSUME NEW c \in Bids, runs'[c] = "running"
        PROVE  ~Live(listing, c)' /\ tx'.bid # c
    BY <2>2, <1>b, <1>n, <1>c, Nobody DEF IInv, Releasing, Live
  <2>3. ASSUME NEW c \in Bids, runs'[c] = "running", NEW v \in Callers, MayWrite(v, c)'
        PROVE  listing'.bids[c] # NoBid
    <3>1. CASE v = w
      BY <2>3, <3>1, <1>b, <1>n, <1>c, Nobody DEF IInv, Releasing, MayWrite
    <3>2. CASE v # w
      BY <2>3, <3>2, <1>b, <1>n, <1>c, Nobody DEF IInv, Releasing, MayWrite
    <3> QED BY <3>1, <3>2
  <2>4. ASSUME NEW c \in Bids, runs'[c] = "running", c \in Keyed, listing'.bids[c] = NoBid
        PROVE  \E v \in Callers : call'[v].bid = c /\ call'[v].pc = "wait"
    BY <2>4, <1>b, <1>n, <1>c, Nobody DEF IInv, Releasing
  <2> QED BY <2>1, <2>2, <2>3, <2>4, PlacementConstants DEF Releasing
<1>9. Told'
  <2>1. ASSUME NEW c \in Bids, <<"recorded", c>> \in told'
        PROVE  listing'.bids[c] # NoBid
    BY <2>1, <1>b, <1>n, <1>c, Nobody DEF IInv, Told
  <2>2. ASSUME NEW c \in Bids, <<"refused", c>> \in told'
        PROVE  Unwritten(c)'
    BY <2>2, <1>b, <1>n, <1>c, Nobody DEF IInv, Told, Unwritten
  <2>3. ASSUME NEW c \in Bids, <<"refused", c>> \in told', c \notin Buyouts \cup Troubled
        PROVE  holds'[c].status = "RELEASED"
    BY <2>3, <1>b, <1>n, <1>c, Nobody DEF IInv, Told
  <2>4. ASSUME NEW c \in Bids, <<"refused", c>> \in told', NEW v \in Callers, call'[v].bid = c
        PROVE  call'[v].pc # "write" /\ (call'[v].pc = "hold" => c \in Keyed)
    <3>1. CASE v = w
      BY <2>4, <3>1, <1>b, <1>n, <1>c, Nobody DEF IInv, Told
    <3>2. CASE v # w
      BY <2>4, <3>2, <1>b, <1>n, <1>c, Nobody DEF IInv, Told
    <3> QED BY <3>1, <3>2
  <2> QED BY <2>1, <2>2, <2>3, <2>4 DEF Told
<1> QED BY <1>1, <1>2, <1>3, <1>4, <1>5, <1>6, <1>7, <1>8, <1>9 DEF IInv

(* What the write found settles it that the bid is not there and never will be. *)
LEMMA StepGivesWay ==
    ASSUME IInv, NEW w \in Callers, call[w].pc = "write", Unlocked, call[w].bid \notin Recorded(listing),
           NEW p \in {"replayed", "refused"}, p = "replayed" => call[w].bid \in Buyouts, Goto(w, p),
           UNCHANGED <<listing, tx, holds, calls, runs, aged, judged, told, crashes>>
    PROVE  IInv'
<1>0. PICK b \in Bids : b = call[w].bid
  BY CallOf
<1>b. /\ b # NobodysBid /\ Unwritten(b) /\ call[w].pc = "write" /\ call[w].bid = b
      /\ CallTells(w) /\ holds[b] # NoHold /\ (p = "replayed" => b \in Buyouts)
  BY <1>0, BidOf, CallOf DEF IInv, Unlocked, NoTx, Unwritten, CallTells
<1>c. /\ call' \in [Callers -> [pc : PCs, bid : Bids \cup {NobodysBid},
                                amount : Amounts \cup {0, BuyoutPrice}, tries : 0..(MaxWrites - 1)]]
      /\ call'[w].pc = p /\ p \in {"replayed", "refused"} /\ call'[w].bid = b
      /\ \A v \in Callers \ {w} : call'[v] = call[v]
  BY <1>b, Going DEF IInv, PCs
<1>1. TypeOK'
  BY <1>b, <1>c, Nobody DEF IInv, TypeOK, PCs
<1>2. InDoubt'
  BY <1>b, <1>c, Nobody DEF IInv, InDoubt, NonePending, Kin, Live, Backed
<1>3. LeadersBacked'
  <2>1. ASSUME NEW c \in Bids, Live(listing, c)'
        PROVE  holds'[c] = [status |-> "RESERVED", amount |-> listing'.bids[c].amount]
    BY <2>1, <1>b, <1>c, Nobody DEF IInv, LeadersBacked, Live, Backed
  <2> QED BY <2>1 DEF LeadersBacked, Backed
<1>4. Calls'
  <2>1. ASSUME NEW v \in Callers
        PROVE  CallTells(v)'
    <3>1. CASE v = w
      BY <2>1, <3>1, <1>b, <1>c, Nobody DEF IInv, Calls, CallTells, Unwritten, Backed, Idle
    <3>2. CASE v # w
      BY <2>1, <3>2, <1>b, <1>c, Nobody DEF IInv, Calls, CallTells, Unwritten, Backed, Idle
    <3> QED BY <3>1, <3>2
  <2> QED BY <2>1 DEF Calls
<1>5. Alone'
  BY <1>b, <1>c, Nobody DEF IInv, Alone, IsPlacing
<1>6. Fresh'
  BY <1>b, <1>c, Nobody DEF IInv, Fresh, Unwritten
<1>7. Aged'
  <2>1. \A v \in Callers, c \in Bids : IsPlacing(v, c)' => IsPlacing(v, c)
    BY <1>b, <1>c DEF IsPlacing
  <2>2. aged \subseteq Bids
    BY DEF IInv, TypeOK
  <2> QED BY <2>1, <2>2 DEF IInv, Aged, Live
<1>8. Releasing'
  <2>1. ASSUME NEW c \in Bids
        PROVE  (runs'[c] # "none" => holds'[c] # NoHold) /\ (runs'[c] = "done" => holds'[c].status = "RELEASED")
    BY <2>1, <1>b, <1>c, Nobody DEF IInv, Releasing
  <2>2. ASSUME NEW c \in Bids, runs'[c] = "running"
        PROVE  ~Live(listing, c)' /\ tx'.bid # c
    BY <2>2, <1>b, <1>c, Nobody DEF IInv, Releasing, Live
  <2>3. ASSUME NEW c \in Bids, runs'[c] = "running", NEW v \in Callers, MayWrite(v, c)'
        PROVE  listing'.bids[c] # NoBid
    <3>1. CASE v = w
      BY <2>3, <3>1, <1>b, <1>c, Nobody DEF IInv, Releasing, MayWrite
    <3>2. CASE v # w
      BY <2>3, <3>2, <1>b, <1>c, Nobody DEF IInv, Releasing, MayWrite
    <3> QED BY <3>1, <3>2
  <2>4. ASSUME NEW c \in Bids, runs'[c] = "running", c \in Keyed, listing'.bids[c] = NoBid
        PROVE  \E v \in Callers : call'[v].bid = c /\ call'[v].pc = "wait"
    BY <2>4, <1>b, <1>c, Nobody DEF IInv, Releasing
  <2> QED BY <2>1, <2>2, <2>3, <2>4, PlacementConstants DEF Releasing
<1>9. Told'
  <2>1. ASSUME NEW c \in Bids, <<"recorded", c>> \in told'
        PROVE  listing'.bids[c] # NoBid
    BY <2>1, <1>b, <1>c, Nobody DEF IInv, Told
  <2>2. ASSUME NEW c \in Bids, <<"refused", c>> \in told'
        PROVE  Unwritten(c)'
    BY <2>2, <1>b, <1>c, Nobody DEF IInv, Told, Unwritten
  <2>3. ASSUME NEW c \in Bids, <<"refused", c>> \in told', c \notin Buyouts \cup Troubled
        PROVE  holds'[c].status = "RELEASED"
    BY <2>3, <1>b, <1>c, Nobody DEF IInv, Told
  <2>4. ASSUME NEW c \in Bids, <<"refused", c>> \in told', NEW v \in Callers, call'[v].bid = c
        PROVE  call'[v].pc # "write" /\ (call'[v].pc = "hold" => c \in Keyed)
    <3>1. CASE v = w
      BY <2>4, <3>1, <1>b, <1>c, Nobody DEF IInv, Told
    <3>2. CASE v # w
      BY <2>4, <3>2, <1>b, <1>c, Nobody DEF IInv, Told
    <3> QED BY <3>1, <3>2
  <2> QED BY <2>1, <2>2, <2>3, <2>4 DEF Told
<1> QED BY <1>1, <1>2, <1>3, <1>4, <1>5, <1>6, <1>7, <1>8, <1>9 DEF IInv

(* What an accepted bid makes of the listing. *)
LEMMA LandsAs ==
    ASSUME IInv, NEW b \in Bids, NEW n \in Amounts \cup {BuyoutPrice},
           b \notin Recorded(listing), Accepts(b, n)
    PROVE  /\ Confirmed(b, n) \in Listing /\ NonePending(Confirmed(b, n))
           /\ Live(Confirmed(b, n), b) /\ Confirmed(b, n).bids[b].amount = n
           /\ Kin(listing, Confirmed(b, n), b)
<1>1. listing \in Listing /\ NonePending(listing) /\ listing.bids[b] = NoBid
  BY DEF IInv, TypeOK, InDoubt, Recorded
<1>2. n \in Nat
  BY ListingConstants
<1>3. b \in Buyouts => n = BuyoutPrice
  BY DEF Accepts, CanBuyout
<1>4. n # 0
  <2>1. CASE b \in Buyouts
    BY <2>1 DEF Accepts, CanBuyout
  <2>2. CASE b \notin Buyouts
    <3>1. AcceptsBidAmount(listing, n)
      BY <2>2 DEF Accepts, MayPlaceBid
    <3>2. CASE Contending(listing) = {}
      BY <1>2, <3>1, <3>2, ListingConstants DEF AcceptsBidAmount
    <3>3. ASSUME NEW c \in Contending(listing) PROVE n # 0
      <4>1. c \in Bids /\ listing.bids[c].status \in {"WINNING", "PENDING"}
        BY DEF Contending, Highest, Having
      <4>2. listing.bids[c] \in Bid
        BY <1>1, <4>1 DEF Listing
      <4>3. listing.bids[c].amount \in Nat
        BY <4>2 DEF Bid, NoBid
      <4> QED BY <1>2, <3>1, <4>3 DEF AcceptsBidAmount
    <3> QED BY <3>2, <3>3
  <2> QED BY <2>1, <2>2
<1>5. Confirmed(b, n) = Recording(listing, b, n)
  BY DEF Confirmed, Recording
<1> QED BY <1>1, <1>2, <1>3, <1>4, <1>5, RecordingEffect

(* A bid is recorded while its caller alone knows of it, over a hold nobody
   is releasing. *)
LEMMA StepLands ==
    ASSUME IInv, NEW w \in Callers, call[w].pc = "write", Unlocked, call[w].bid \notin Recorded(listing),
           Accepts(call[w].bid, call[w].amount), listing' = Confirmed(call[w].bid, call[w].amount),
           told' = told \cup {<<"recorded", call[w].bid>>}, Return(w),
           UNCHANGED <<tx, holds, calls, runs, aged, judged, crashes>>
    PROVE  IInv'
<1>0. PICK b \in Bids, n \in Amounts \cup {BuyoutPrice} : b = call[w].bid /\ n = call[w].amount
  BY CallOf DEF CallTells
<1>b. /\ b # NobodysBid /\ listing.bids[b] = NoBid /\ call[w].pc = "write" /\ call[w].bid = b
      /\ \A v \in Callers : IsPlacing(v, b) => v = w
      /\ Backed(b, n) /\ calls[b] # 0 /\ b \notin aged /\ runs[b] # "running"
      /\ <<"refused", b>> \notin told
  <2>1. /\ b # NobodysBid /\ listing.bids[b] = NoBid /\ CallTells(w) /\ calls[b] # 0
        /\ IsPlacing(w, b) /\ MayWrite(w, b)
    BY <1>0, BidOf, CallOf DEF IInv, IsPlacing, MayWrite
  <2>2. Backed(b, n)
    BY <1>0, <2>1 DEF CallTells
  <2>3. b \notin aged /\ runs[b] # "running" /\ <<"refused", b>> \notin told
    BY <1>0, <2>1 DEF IInv, Aged, Releasing, Told
  <2> QED BY <1>0, <2>1, <2>2, <2>3 DEF IInv, Alone
<1>n. told' = told \cup {<<"recorded", b>>} /\ tx = NoTx /\ tx' = NoTx
  BY <1>0 DEF Unlocked
<1>k. /\ listing' \in Listing /\ NonePending(listing')
      /\ Live(listing', b) /\ listing'.bids[b].amount = n /\ Kin(listing, listing', b)
  BY <1>0, LandsAs
<1>m. /\ \A c \in Bids : listing.bids[c] # NoBid => listing'.bids[c] # NoBid
      /\ \A c \in Bids \ {b} : listing.bids[c] = NoBid => listing'.bids[c] = NoBid
      /\ \A c \in Bids \ {b} : listing.bids[c].status = "CANCELLED" => listing'.bids[c].status = "CANCELLED"
      /\ \A c \in Bids \ {b} : Live(listing', c) => Live(listing, c) /\ listing'.bids[c].amount = listing.bids[c].amount
      /\ listing'.bids[b] # NoBid
  <2>1. listing'.bids[b].status # NoBid.status
    BY <1>k DEF Live, NoBid
  <2>2. listing'.bids[b] # NoBid
    BY <2>1
  <2>3. ASSUME NEW c \in Bids \ {b}, listing.bids[c] = NoBid \/ listing.bids[c].status = "CANCELLED"
        PROVE  listing'.bids[c] = listing.bids[c]
    BY <1>k, <2>3 DEF Kin, Live, NoBid
  <2>4. ASSUME NEW c \in Bids \ {b}, listing.bids[c] # NoBid
        PROVE  listing'.bids[c] # NoBid
    <3>1. CASE Live(listing, c)
      <4>1. listing'.bids[c].status # NoBid.status
        BY <1>k, <3>1 DEF Kin, Live, NoBid
      <4> QED BY <4>1
    <3>2. CASE ~Live(listing, c)
      BY <1>k, <2>4, <3>2 DEF Kin
    <3> QED BY <3>1, <3>2
  <2>5. \A c \in Bids \ {b} : Live(listing', c) => Live(listing, c) /\ listing'.bids[c].amount = listing.bids[c].amount
    BY <1>k DEF Kin
  <2> QED BY <2>2, <2>3, <2>4, <2>5
<1>o. \A v \in Callers \ {w} : call[v].bid # b
  <2>1. ASSUME NEW v \in Callers \ {w}, call[v].bid = b PROVE FALSE
    <3>1. call[v].pc = "withdrawn" \/ call[v].pc = "idle"
      BY <1>b, <2>1 DEF IsPlacing
    <3>2. call[v].pc # "idle"
      BY <1>b, <2>1, Nobody DEF IInv, Calls, CallTells
    <3>3. listing.bids[b].status = "CANCELLED"
      BY <2>1, <3>1, <3>2 DEF IInv, Calls, CallTells
    <3> QED BY <1>b, <3>3 DEF NoBid
  <2> QED BY <2>1
<1>c. /\ call' \in [Callers -> [pc : PCs, bid : Bids \cup {NobodysBid},
                                amount : Amounts \cup {0, BuyoutPrice}, tries : 0..(MaxWrites - 1)]]
      /\ call'[w] = Idle /\ \A v \in Callers \ {w} : call'[v] = call[v]
  BY Returning DEF IInv
<1>1. TypeOK'
  BY <1>b, <1>n, <1>k, <1>m, <1>c, Nobody DEF IInv, TypeOK, PCs
<1>2. InDoubt'
  BY <1>b, <1>n, <1>k, <1>m, <1>c, Nobody DEF IInv, InDoubt, NonePending, Kin, Live, Backed
<1>3. LeadersBacked'
  <2>1. ASSUME NEW c \in Bids, Live(listing, c)'
        PROVE  holds'[c] = [status |-> "RESERVED", amount |-> listing'.bids[c].amount]
    BY <2>1, <1>b, <1>n, <1>k, <1>m, <1>c, Nobody DEF IInv, LeadersBacked, Live, Backed
  <2> QED BY <2>1 DEF LeadersBacked, Backed
<1>4. Calls'
  <2>1. ASSUME NEW v \in Callers
        PROVE  CallTells(v)'
    <3>1. CASE v = w
      BY <2>1, <3>1, <1>b, <1>n, <1>k, <1>m, <1>c, Nobody, <1>o DEF IInv, Calls, CallTells, Unwritten, Backed, Idle
    <3>2. CASE v # w
      <4>1. call'[v] = call[v] /\ CallTells(v) /\ call[v].bid # b
        BY <2>1, <3>2, <1>c, <1>o DEF IInv, Calls
      <4>2. CASE call[v].pc = "idle"
        BY <4>1, <4>2 DEF CallTells
      <4>3. CASE call[v].pc # "idle"
        <5>1. call[v].bid \in Bids \ {b}
          BY <4>1, <4>3 DEF CallTells
        <5>2. /\ listing.bids[call[v].bid] # NoBid => listing'.bids[call[v].bid] # NoBid
              /\ Unwritten(call[v].bid) => Unwritten(call[v].bid)'
              /\ listing.bids[call[v].bid].status = "CANCELLED" => listing'.bids[call[v].bid].status = "CANCELLED"
          BY <1>m, <1>n, <4>1, <5>1 DEF Unwritten
        <5> QED BY <4>1, <4>3, <5>2 DEF CallTells, Backed
      <4> QED BY <4>2, <4>3
    <3> QED BY <3>1, <3>2
  <2> QED BY <2>1 DEF Calls
<1>5. Alone'
  BY <1>b, <1>n, <1>k, <1>m, <1>c, Nobody DEF IInv, Alone, IsPlacing
<1>6. Fresh'
  BY <1>b, <1>n, <1>k, <1>m, <1>c, Nobody DEF IInv, Fresh, Unwritten
<1>7. Aged'
  BY <1>b, <1>n, <1>k, <1>m, <1>c, Nobody DEF IInv, Aged, IsPlacing, TypeOK
<1>8. Releasing'
  <2>1. ASSUME NEW c \in Bids
        PROVE  (runs'[c] # "none" => holds'[c] # NoHold) /\ (runs'[c] = "done" => holds'[c].status = "RELEASED")
    BY <2>1, <1>b, <1>n, <1>k, <1>m, <1>c, Nobody DEF IInv, Releasing
  <2>2. ASSUME NEW c \in Bids, runs'[c] = "running"
        PROVE  ~Live(listing, c)' /\ tx'.bid # c
    BY <2>2, <1>b, <1>n, <1>k, <1>m, <1>c, Nobody DEF IInv, Releasing, Live
  <2>3. ASSUME NEW c \in Bids, runs'[c] = "running", NEW v \in Callers, MayWrite(v, c)'
        PROVE  listing'.bids[c] # NoBid
    <3>1. CASE v = w
      BY <2>3, <3>1, <1>b, <1>n, <1>k, <1>m, <1>c, Nobody DEF IInv, Releasing, MayWrite
    <3>2. CASE v # w
      BY <2>3, <3>2, <1>b, <1>n, <1>k, <1>m, <1>c, Nobody DEF IInv, Releasing, MayWrite
    <3> QED BY <3>1, <3>2
  <2>4. ASSUME NEW c \in Bids, runs'[c] = "running", c \in Keyed, listing'.bids[c] = NoBid
        PROVE  \E v \in Callers : call'[v].bid = c /\ call'[v].pc = "wait"
    BY <2>4, <1>b, <1>n, <1>k, <1>m, <1>c, Nobody DEF IInv, Releasing
  <2> QED BY <2>1, <2>2, <2>3, <2>4, PlacementConstants DEF Releasing
<1>9. Told'
  <2>1. ASSUME NEW c \in Bids, <<"recorded", c>> \in told'
        PROVE  listing'.bids[c] # NoBid
    BY <2>1, <1>b, <1>n, <1>k, <1>m, <1>c, Nobody DEF IInv, Told
  <2>2. ASSUME NEW c \in Bids, <<"refused", c>> \in told'
        PROVE  Unwritten(c)'
    BY <2>2, <1>b, <1>n, <1>k, <1>m, <1>c, Nobody DEF IInv, Told, Unwritten
  <2>3. ASSUME NEW c \in Bids, <<"refused", c>> \in told', c \notin Buyouts \cup Troubled
        PROVE  holds'[c].status = "RELEASED"
    BY <2>3, <1>b, <1>n, <1>k, <1>m, <1>c, Nobody DEF IInv, Told
  <2>4. ASSUME NEW c \in Bids, <<"refused", c>> \in told', NEW v \in Callers, call'[v].bid = c
        PROVE  call'[v].pc # "write" /\ (call'[v].pc = "hold" => c \in Keyed)
    <3>1. CASE v = w
      BY <2>4, <3>1, <1>b, <1>n, <1>k, <1>m, <1>c, Nobody DEF IInv, Told
    <3>2. CASE v # w
      BY <2>4, <3>2, <1>b, <1>n, <1>k, <1>m, <1>c, Nobody DEF IInv, Told
    <3> QED BY <3>1, <3>2
  <2> QED BY <2>1, <2>2, <2>3, <2>4 DEF Told
<1> QED BY <1>1, <1>2, <1>3, <1>4, <1>5, <1>6, <1>7, <1>8, <1>9 DEF IInv

LEMMA CallKept ==
    ASSUME NEW v \in Callers, CallTells(v), call'[v] = call[v], UNCHANGED <<listing, holds, runs>>,
           call[v].pc \notin {"withdrawn", "idle"} /\ Unwritten(call[v].bid) => Unwritten(call[v].bid)'
    PROVE  CallTells(v)'
BY DEF CallTells, Backed

(* A COMMIT in doubt is of a bid whose gold is held and whom no other call is
   placing. *)
LEMMA StepUnanswered ==
    ASSUME IInv, NEW w \in Callers, WriteUnanswered(w)
    PROVE  IInv'
<1>0. PICK b \in Bids, n \in Amounts \cup {BuyoutPrice} : b = call[w].bid /\ n = call[w].amount
  BY CallOf DEF WriteUnanswered, CallTells
<1>b. /\ b # NobodysBid /\ call[w].pc = "write" /\ call[w].bid = b /\ call[w].amount = n
      /\ CallTells(w) /\ \A v \in Callers : IsPlacing(v, b) => v = w
      /\ calls[b] # 0 /\ b \notin aged /\ <<"refused", b>> \notin told
      /\ runs[b] = "running" => listing.bids[b] # NoBid
  <2>1. b # NobodysBid /\ call[w].pc = "write" /\ CallTells(w) /\ calls[b] # 0
        /\ IsPlacing(w, b) /\ MayWrite(w, b)
    BY <1>0, BidOf, CallOf DEF IInv, IsPlacing, MayWrite, WriteUnanswered
  <2>2. b \notin aged /\ (runs[b] = "running" => listing.bids[b] # NoBid) /\ <<"refused", b>> \notin told
    BY <1>0, <2>1 DEF IInv, Aged, Releasing, Told
  <2> QED BY <1>0, <2>1, <2>2 DEF IInv, Alone
<1>n. UNCHANGED <<listing, holds, calls, runs, aged, judged, told, crashes>>
  BY DEF WriteUnanswered, UnchangedReconciler
<1>t. \/ tx' = tx
      \/ /\ tx = NoTx /\ tx' \in [bid : Bids, after : Listing] /\ tx'.bid = b
         /\ listing.bids[b] = NoBid /\ NonePending(tx'.after)
         /\ Live(tx'.after, b) /\ Backed(b, tx'.after.bids[b].amount) /\ Kin(listing, tx'.after, b)
  <2>1. CASE Unlocked /\ b \notin Recorded(listing) /\ Accepts(b, n) /\ tx' = [bid |-> b, after |-> Confirmed(b, n)]
    <3>1. /\ Confirmed(b, n) \in Listing /\ NonePending(Confirmed(b, n))
          /\ Live(Confirmed(b, n), b) /\ Confirmed(b, n).bids[b].amount = n
          /\ Kin(listing, Confirmed(b, n), b)
      BY <2>1, LandsAs
    <3>2. listing.bids[b] = NoBid /\ Backed(b, n)
      BY <1>b, <2>1, BidOf DEF IInv, CallTells
    <3>3. tx = NoTx /\ tx'.bid = b /\ tx'.after = Confirmed(b, n) /\ tx' \in [bid : Bids, after : Listing]
      BY <2>1, <3>1 DEF Unlocked
    <3> QED BY <3>1, <3>2, <3>3
  <2> QED BY <1>0, <2>1 DEF WriteUnanswered
<1>c. /\ call' \in [Callers -> [pc : PCs, bid : Bids \cup {NobodysBid},
                                amount : Amounts \cup {0, BuyoutPrice}, tries : 0..(MaxWrites - 1)]]
      /\ \A v \in Callers \ {w} : call'[v] = call[v]
      /\ \/ call'[w] = Idle
         \/ /\ call'[w].pc = "write" /\ call'[w].bid = b /\ call'[w].amount = n /\ call'[w].tries # 0
  <2>1. CASE Return(w)
    BY <2>1, Returning DEF IInv
  <2>2. CASE call[w].tries + 1 < MaxWrites /\ call' = [call EXCEPT ![w].tries = @ + 1]
    BY <1>b, <2>2, Retrying DEF IInv
  <2> QED BY <2>1, <2>2 DEF WriteUnanswered, Unsettled
<1>o. \A v \in Callers \ {w} : call[v].bid = b => call[v].pc = "withdrawn"
  BY <1>b DEF IsPlacing
<1>x. tx' # tx => tx' # NoTx /\ tx'.bid = b
  BY <1>t, Nobody DEF NoTx
<1>1. TypeOK'
  BY <1>b, <1>n, <1>t, <1>x, <1>c, Nobody DEF IInv, TypeOK, PCs
<1>2. InDoubt'
  <2>1. NonePending(listing')
    BY <1>n DEF IInv, InDoubt
  <2>2. CASE tx' = tx
    BY <1>n, <2>1, <2>2 DEF IInv, InDoubt, NonePending, Kin, Live, Backed
  <2>3. CASE tx' # tx
    BY <1>n, <1>t, <2>1, <2>3 DEF InDoubt, NonePending, Kin, Live, Backed
  <2> QED BY <2>2, <2>3
<1>3. LeadersBacked'
  <2>1. ASSUME NEW c \in Bids, Live(listing, c)'
        PROVE  holds'[c] = [status |-> "RESERVED", amount |-> listing'.bids[c].amount]
    BY <2>1, <1>b, <1>n, <1>t, <1>x, <1>c, Nobody DEF IInv, LeadersBacked, Live, Backed
  <2> QED BY <2>1 DEF LeadersBacked, Backed
<1>4. Calls'
  <2>1. ASSUME NEW v \in Callers PROVE CallTells(v)'
    <3>1. CASE v = w
      BY <2>1, <3>1, <1>b, <1>n, <1>c, Nobody DEF CallTells, Backed, Idle
    <3>2. CASE v # w
      <4>1. call[v].pc \notin {"withdrawn", "idle"} => call[v].bid # b
        BY <1>o, <2>1, <3>2
      <4>2. call[v].pc \notin {"withdrawn", "idle"} /\ Unwritten(call[v].bid) => Unwritten(call[v].bid)'
        BY <1>n, <1>x, <1>c, <2>1, <3>2, <4>1 DEF Unwritten
      <4>3. CallTells(v) /\ call'[v] = call[v]
        BY <1>c, <2>1, <3>2 DEF IInv, Calls
      <4> QED BY <1>n, <4>2, <4>3, CallKept
    <3> QED BY <3>1, <3>2
  <2> QED BY <2>1 DEF Calls
<1>5. Alone'
  BY <1>b, <1>n, <1>t, <1>x, <1>c, Nobody DEF IInv, Alone, IsPlacing
<1>6. Fresh'
  BY <1>b, <1>n, <1>t, <1>x, <1>c, Nobody DEF IInv, Fresh, Unwritten
<1>7. Aged'
  BY <1>b, <1>n, <1>t, <1>x, <1>c, Nobody DEF IInv, Aged, IsPlacing, TypeOK
<1>8. Releasing'
  <2>1. ASSUME NEW c \in Bids
        PROVE  (runs'[c] # "none" => holds'[c] # NoHold) /\ (runs'[c] = "done" => holds'[c].status = "RELEASED")
    BY <2>1, <1>b, <1>n, <1>t, <1>x, <1>c, Nobody DEF IInv, Releasing
  <2>2. ASSUME NEW c \in Bids, runs'[c] = "running"
        PROVE  ~Live(listing, c)' /\ tx'.bid # c
    BY <2>2, <1>b, <1>n, <1>t, <1>x, <1>c, Nobody DEF IInv, Releasing, Live
  <2>3. ASSUME NEW c \in Bids, runs'[c] = "running", NEW v \in Callers, MayWrite(v, c)'
        PROVE  listing'.bids[c] # NoBid
    <3>1. CASE v = w
      BY <2>3, <3>1, <1>b, <1>n, <1>t, <1>x, <1>c, Nobody DEF IInv, Releasing, MayWrite
    <3>2. CASE v # w
      BY <2>3, <3>2, <1>b, <1>n, <1>t, <1>x, <1>c, Nobody DEF IInv, Releasing, MayWrite
    <3> QED BY <3>1, <3>2
  <2>4. ASSUME NEW c \in Bids, runs'[c] = "running", c \in Keyed, listing'.bids[c] = NoBid
        PROVE  \E v \in Callers : call'[v].bid = c /\ call'[v].pc = "wait"
    BY <2>4, <1>b, <1>n, <1>t, <1>x, <1>c, Nobody DEF IInv, Releasing
  <2> QED BY <2>1, <2>2, <2>3, <2>4, PlacementConstants DEF Releasing
<1>9. Told'
  <2>1. ASSUME NEW c \in Bids, <<"recorded", c>> \in told'
        PROVE  listing'.bids[c] # NoBid
    BY <2>1, <1>b, <1>n, <1>t, <1>x, <1>c, Nobody DEF IInv, Told
  <2>2. ASSUME NEW c \in Bids, <<"refused", c>> \in told'
        PROVE  Unwritten(c)'
    BY <2>2, <1>b, <1>n, <1>t, <1>x, <1>c, Nobody DEF IInv, Told, Unwritten
  <2>3. ASSUME NEW c \in Bids, <<"refused", c>> \in told', c \notin Buyouts \cup Troubled
        PROVE  holds'[c].status = "RELEASED"
    BY <2>3, <1>b, <1>n, <1>t, <1>x, <1>c, Nobody DEF IInv, Told
  <2>4. ASSUME NEW c \in Bids, <<"refused", c>> \in told', NEW v \in Callers, call'[v].bid = c
        PROVE  call'[v].pc # "write" /\ (call'[v].pc = "hold" => c \in Keyed)
    <3>1. CASE v = w
      BY <2>4, <3>1, <1>b, <1>n, <1>t, <1>x, <1>c, Nobody DEF IInv, Told
    <3>2. CASE v # w
      BY <2>4, <3>2, <1>b, <1>n, <1>t, <1>x, <1>c, Nobody DEF IInv, Told
    <3> QED BY <3>1, <3>2
  <2> QED BY <2>1, <2>2, <2>3, <2>4 DEF Told
<1> QED BY <1>1, <1>2, <1>3, <1>4, <1>5, <1>6, <1>7, <1>8, <1>9 DEF IInv

(* A lock that timed out proves something only of a first attempt without a key. *)
LEMMA StepBusy ==
    ASSUME IInv, NEW w \in Callers, WriteBusy(w)
    PROVE  IInv'
<1>0. PICK b \in Bids : b = call[w].bid
  BY CallOf DEF WriteBusy
<1>b. /\ b # NobodysBid /\ call[w].pc = "write" /\ call[w].bid = b
      /\ CallTells(w) /\ \A v \in Callers : IsPlacing(v, b) => v = w
  BY <1>0, BidOf, CallOf DEF IInv, WriteBusy, Alone, IsPlacing
<1>n. UNCHANGED <<listing, tx, holds, calls, runs, aged, judged, told, crashes>>
  BY DEF WriteBusy, UnchangedReconciler
<1>c. /\ call' \in [Callers -> [pc : PCs, bid : Bids \cup {NobodysBid},
                                amount : Amounts \cup {0, BuyoutPrice}, tries : 0..(MaxWrites - 1)]]
      /\ \A v \in Callers \ {w} : call'[v] = call[v]
      /\ \/ call'[w] = Idle
         \/ /\ call'[w].pc = "write" /\ call'[w].bid = b /\ call'[w].amount = call[w].amount
            /\ call'[w].tries # 0
         \/ call'[w].pc = "refused" /\ call'[w].bid = b /\ Unwritten(b)
  <2>1. CASE Return(w)
    BY <2>1, Returning DEF IInv
  <2>2. CASE call[w].tries + 1 < MaxWrites /\ call' = [call EXCEPT ![w].tries = @ + 1]
    BY <1>b, <2>2, Retrying DEF IInv
  <2>3. CASE b \notin Keyed /\ ~(call[w].tries > 0) /\ Goto(w, "refused")
    <3>1. call[w].tries = 0
      BY <2>3, PlacementConstants DEF IInv, TypeOK
    <3>2. Unwritten(b)
      BY <1>b, <2>3, <3>1 DEF CallTells
    <3> QED BY <1>b, <2>3, <3>2, Going DEF IInv, PCs
  <2> QED BY <1>0, <2>1, <2>2, <2>3 DEF WriteBusy, Busy, Unsettled
<1>1. TypeOK'
  BY <1>b, <1>n, <1>c, Nobody DEF IInv, TypeOK, PCs
<1>2. InDoubt'
  BY <1>b, <1>n, <1>c, Nobody DEF IInv, InDoubt, NonePending, Kin, Live, Backed
<1>3. LeadersBacked'
  <2>1. ASSUME NEW c \in Bids, Live(listing, c)'
        PROVE  holds'[c] = [status |-> "RESERVED", amount |-> listing'.bids[c].amount]
    BY <2>1, <1>b, <1>n, <1>c, Nobody DEF IInv, LeadersBacked, Live, Backed
  <2> QED BY <2>1 DEF LeadersBacked, Backed
<1>4. Calls'
  <2>1. ASSUME NEW v \in Callers
        PROVE  CallTells(v)'
    <3>1. CASE v = w
      BY <2>1, <3>1, <1>b, <1>n, <1>c, Nobody DEF IInv, Calls, CallTells, Unwritten, Backed, Idle
    <3>2. CASE v # w
      BY ZenonT(40), <2>1, <3>2, <1>b, <1>n, <1>c, Nobody DEF IInv, Calls, CallTells, Unwritten, Backed, Idle
    <3> QED BY <3>1, <3>2
  <2> QED BY <2>1 DEF Calls
<1>5. Alone'
  BY <1>b, <1>n, <1>c, Nobody DEF IInv, Alone, IsPlacing
<1>6. Fresh'
  BY <1>b, <1>n, <1>c, Nobody DEF IInv, Fresh, Unwritten
<1>7. Aged'
  BY <1>b, <1>n, <1>c, Nobody DEF IInv, Aged, IsPlacing, TypeOK
<1>8. Releasing'
  <2>1. ASSUME NEW c \in Bids
        PROVE  (runs'[c] # "none" => holds'[c] # NoHold) /\ (runs'[c] = "done" => holds'[c].status = "RELEASED")
    BY <2>1, <1>b, <1>n, <1>c, Nobody DEF IInv, Releasing
  <2>2. ASSUME NEW c \in Bids, runs'[c] = "running"
        PROVE  ~Live(listing, c)' /\ tx'.bid # c
    BY <2>2, <1>b, <1>n, <1>c, Nobody DEF IInv, Releasing, Live
  <2>3. ASSUME NEW c \in Bids, runs'[c] = "running", NEW v \in Callers, MayWrite(v, c)'
        PROVE  listing'.bids[c] # NoBid
    <3>1. CASE v = w
      BY <2>3, <3>1, <1>b, <1>n, <1>c, Nobody DEF IInv, Releasing, MayWrite
    <3>2. CASE v # w
      BY <2>3, <3>2, <1>b, <1>n, <1>c, Nobody DEF IInv, Releasing, MayWrite
    <3> QED BY <3>1, <3>2
  <2>4. ASSUME NEW c \in Bids, runs'[c] = "running", c \in Keyed, listing'.bids[c] = NoBid
        PROVE  \E v \in Callers : call'[v].bid = c /\ call'[v].pc = "wait"
    BY <2>4, <1>b, <1>n, <1>c, Nobody DEF IInv, Releasing
  <2> QED BY <2>1, <2>2, <2>3, <2>4, PlacementConstants DEF Releasing
<1>9. Told'
  <2>1. ASSUME NEW c \in Bids, <<"recorded", c>> \in told'
        PROVE  listing'.bids[c] # NoBid
    BY <2>1, <1>b, <1>n, <1>c, Nobody DEF IInv, Told
  <2>2. ASSUME NEW c \in Bids, <<"refused", c>> \in told'
        PROVE  Unwritten(c)'
    BY <2>2, <1>b, <1>n, <1>c, Nobody DEF IInv, Told, Unwritten
  <2>3. ASSUME NEW c \in Bids, <<"refused", c>> \in told', c \notin Buyouts \cup Troubled
        PROVE  holds'[c].status = "RELEASED"
    BY <2>3, <1>b, <1>n, <1>c, Nobody DEF IInv, Told
  <2>4. ASSUME NEW c \in Bids, <<"refused", c>> \in told', NEW v \in Callers, call'[v].bid = c
        PROVE  call'[v].pc # "write" /\ (call'[v].pc = "hold" => c \in Keyed)
    <3>1. CASE v = w
      BY <2>4, <3>1, <1>b, <1>n, <1>c, Nobody DEF IInv, Told
    <3>2. CASE v # w
      BY <2>4, <3>2, <1>b, <1>n, <1>c, Nobody DEF IInv, Told
    <3> QED BY <3>1, <3>2
  <2> QED BY <2>1, <2>2, <2>3, <2>4 DEF Told
<1> QED BY <1>1, <1>2, <1>3, <1>4, <1>5, <1>6, <1>7, <1>8, <1>9 DEF IInv

LEMMA StepWrite ==
    ASSUME IInv, NEW w \in Callers, Write(w)
    PROVE  IInv'
<1> DEFINE b == call[w].bid
           n == call[w].amount
<1>0. /\ call[w].pc = "write" /\ Unlocked
      /\ UNCHANGED <<tx, holds, calls, runs, aged, judged, crashes>>
  BY DEF Write, UnchangedReconciler
<1>1. CASE b \in Recorded(listing)
  <2>1. UNCHANGED listing /\ told' = told \cup {<<"recorded", b>>} /\ Return(w)
    BY <1>1 DEF Write
  <2> QED BY <1>0, <1>1, <2>1, StepRecorded
<1>2. CASE b \notin Recorded(listing) /\ Replayed(b)
  <2>1. UNCHANGED <<listing, told>> /\ Goto(w, "replayed") /\ b \in Buyouts
    BY <1>2 DEF Write, Replayed
  <2> QED BY <1>0, <1>2, <2>1, StepGivesWay
<1>3. CASE b \notin Recorded(listing) /\ ~Replayed(b) /\ Accepts(b, n)
  <2>1. listing' = Confirmed(b, n) /\ told' = told \cup {<<"recorded", b>>} /\ Return(w)
    BY <1>3 DEF Write
  <2> QED BY <1>0, <1>3, <2>1, StepLands
<1>4. CASE b \notin Recorded(listing) /\ ~Replayed(b) /\ ~Accepts(b, n)
  <2>1. UNCHANGED <<listing, told>> /\ Goto(w, "refused")
    BY <1>4 DEF Write
  <2> QED BY <1>0, <1>4, <2>1, StepGivesWay
<1> QED BY <1>1, <1>2, <1>3, <1>4

LEMMA CallCarried ==
    ASSUME NEW v \in Callers, CallTells(v), call'[v] = call[v], UNCHANGED <<holds, runs>>,
           \A c \in Bids : listing.bids[c] # NoBid => listing'.bids[c] # NoBid,
           \A c \in Bids : call[v].bid = c =>
               IF call[v].pc = "withdrawn"
               THEN listing.bids[c].status = "CANCELLED" => listing'.bids[c].status = "CANCELLED"
               ELSE Unwritten(c) => Unwritten(c)'
    PROVE  CallTells(v)'
<1>1. CASE call[v].pc = "idle"
  BY <1>1 DEF CallTells, Idle
<1>2. CASE call[v].pc # "idle"
  <2>1. PICK c \in Bids : call[v].bid = c
    BY <1>2 DEF CallTells
  <2>2. CASE call[v].pc = "withdrawn"
    BY <2>1, <2>2 DEF CallTells
  <2>3. CASE call[v].pc # "withdrawn"
    <3>1. Unwritten(c) => Unwritten(c)'
      BY <2>1, <2>3
    <3>2. Unwritten(call[v].bid) <=> Unwritten(c)
      BY <2>1
    <3>3. Unwritten(call[v].bid)' <=> Unwritten(c)'
      BY <2>1 DEF Unwritten
    <3>4. Backed(call[v].bid, call[v].amount) => Backed(call[v].bid, call[v].amount)'
      BY DEF Backed
    <3> QED BY <1>2, <2>1, <2>3, <3>1, <3>2, <3>3, <3>4 DEF CallTells
  <2> QED BY <2>2, <2>3
<1> QED BY <1>1, <1>2

(* The COMMIT in doubt went through. *)
LEMMA StepCommits ==
    ASSUME IInv, tx # NoTx, listing' = tx.after, tx' = NoTx,
           UNCHANGED <<holds, call, calls, runs, aged, judged, told, crashes>>
    PROVE  IInv'
<1>0. PICK b \in Bids : b = tx.bid
  BY DEF IInv, InDoubt
<1>b. /\ b # NobodysBid /\ tx.bid = b /\ listing.bids[b] = NoBid
      /\ Backed(b, listing'.bids[b].amount) /\ runs[b] # "running" /\ ~(<<"refused", b>> \in told)
      /\ calls[b] # 0 /\ b \notin aged
  BY <1>0, BidOf DEF IInv, InDoubt, Releasing, Told, Fresh, Aged, Unwritten
<1>k. /\ listing' \in Listing /\ NonePending(listing') /\ Live(listing', b) /\ Kin(listing, listing', b)
  BY <1>0 DEF IInv, TypeOK, InDoubt, NoTx
<1>n. tx' = NoTx /\ tx'.bid = NobodysBid
  BY DEF NoTx
<1>m. /\ \A c \in Bids : listing.bids[c] # NoBid => listing'.bids[c] # NoBid
      /\ \A c \in Bids \ {b} : listing.bids[c] = NoBid => listing'.bids[c] = NoBid
      /\ \A c \in Bids \ {b} : listing.bids[c].status = "CANCELLED" => listing'.bids[c].status = "CANCELLED"
      /\ \A c \in Bids \ {b} : Live(listing', c) => Live(listing, c) /\ listing'.bids[c].amount = listing.bids[c].amount
      /\ listing'.bids[b] # NoBid
  BY <1>k DEF Kin, Live, NoBid
<1>o. \A v \in Callers : call[v].bid = b => call[v].pc # "withdrawn"
  BY <1>b DEF IInv, Calls, CallTells, NoBid
<1>j. b \notin judged /\ aged' = aged /\ judged' = judged
  BY <1>b DEF IInv, TypeOK
<1>1. TypeOK'
  BY <1>b, <1>n, <1>k, <1>m, <1>j, Nobody DEF IInv, TypeOK, PCs
<1>2. InDoubt'
  BY <1>b, <1>n, <1>k, <1>m, <1>j, Nobody DEF IInv, InDoubt, NonePending, Kin, Live, Backed
<1>3. LeadersBacked'
  <2>1. ASSUME NEW c \in Bids, Live(listing, c)'
        PROVE  holds'[c] = [status |-> "RESERVED", amount |-> listing'.bids[c].amount]
    BY <2>1, <1>b, <1>n, <1>k, <1>m, <1>j, Nobody DEF IInv, LeadersBacked, Live, Backed
  <2> QED BY <2>1 DEF LeadersBacked, Backed
<1>4. Calls'
  <2>1. ASSUME NEW v \in Callers PROVE CallTells(v)'
    <3>1. CallTells(v) /\ call'[v] = call[v]
      BY <2>1 DEF IInv, Calls
    <3>2. \A c \in Bids : call[v].bid = c =>
              IF call[v].pc = "withdrawn"
              THEN listing.bids[c].status = "CANCELLED" => listing'.bids[c].status = "CANCELLED"
              ELSE Unwritten(c) => Unwritten(c)'
      BY <1>b, <1>n, <1>m, <1>o, <2>1, Nobody DEF Unwritten
    <3> QED BY <1>m, <3>1, <3>2, CallCarried
  <2> QED BY <2>1 DEF Calls
<1>5. Alone'
  BY <1>b, <1>n, <1>k, <1>m, <1>j, Nobody DEF IInv, Alone, IsPlacing
<1>6. Fresh'
  BY <1>b, <1>n, <1>k, <1>m, <1>j, Nobody DEF IInv, Fresh, Unwritten
<1>7. Aged'
  BY <1>b, <1>n, <1>k, <1>m, <1>j, Nobody DEF IInv, Aged, IsPlacing, TypeOK
<1>8. Releasing'
  <2>1. ASSUME NEW c \in Bids
        PROVE  (runs'[c] # "none" => holds'[c] # NoHold) /\ (runs'[c] = "done" => holds'[c].status = "RELEASED")
    BY <2>1, <1>b, <1>n, <1>k, <1>m, <1>j, Nobody DEF IInv, Releasing
  <2>2. ASSUME NEW c \in Bids, runs'[c] = "running"
        PROVE  ~Live(listing, c)' /\ tx'.bid # c
    BY <2>2, <1>b, <1>n, <1>k, <1>m, <1>j, Nobody DEF IInv, Releasing, Live
  <2>3. ASSUME NEW c \in Bids, runs'[c] = "running", NEW v \in Callers, MayWrite(v, c)'
        PROVE  listing'.bids[c] # NoBid
    BY <2>3, <1>b, <1>n, <1>k, <1>m, <1>j, Nobody DEF IInv, Releasing, MayWrite
  <2>4. ASSUME NEW c \in Bids, runs'[c] = "running", c \in Keyed, listing'.bids[c] = NoBid
        PROVE  \E v \in Callers : call'[v].bid = c /\ call'[v].pc = "wait"
    BY <2>4, <1>b, <1>n, <1>k, <1>m, <1>j, Nobody DEF IInv, Releasing
  <2> QED BY <2>1, <2>2, <2>3, <2>4, PlacementConstants DEF Releasing
<1>9. Told'
  <2>1. ASSUME NEW c \in Bids, <<"recorded", c>> \in told'
        PROVE  listing'.bids[c] # NoBid
    BY <2>1, <1>b, <1>n, <1>k, <1>m, <1>j, Nobody DEF IInv, Told
  <2>2. ASSUME NEW c \in Bids, <<"refused", c>> \in told'
        PROVE  Unwritten(c)'
    BY <2>2, <1>b, <1>n, <1>k, <1>m, <1>j, Nobody DEF IInv, Told, Unwritten
  <2>3. ASSUME NEW c \in Bids, <<"refused", c>> \in told', c \notin Buyouts \cup Troubled
        PROVE  holds'[c].status = "RELEASED"
    BY <2>3, <1>b, <1>n, <1>k, <1>m, <1>j, Nobody DEF IInv, Told
  <2>4. ASSUME NEW c \in Bids, <<"refused", c>> \in told', NEW v \in Callers, call'[v].bid = c
        PROVE  call'[v].pc # "write" /\ (call'[v].pc = "hold" => c \in Keyed)
    BY <2>4, <1>b, <1>n, <1>k, <1>m, <1>j, Nobody DEF IInv, Told
  <2> QED BY <2>1, <2>2, <2>3, <2>4 DEF Told
<1> QED BY <1>1, <1>2, <1>3, <1>4, <1>5, <1>6, <1>7, <1>8, <1>9 DEF IInv

(* The COMMIT in doubt did not go through. *)
LEMMA StepRollsBack ==
    ASSUME IInv, tx # NoTx, UNCHANGED listing, tx' = NoTx,
           UNCHANGED <<holds, call, calls, runs, aged, judged, told, crashes>>
    PROVE  IInv'
<1>n. tx' = NoTx /\ tx'.bid = NobodysBid
  BY DEF NoTx
<1>1. TypeOK'
  BY <1>n, Nobody DEF IInv, TypeOK, PCs
<1>2. InDoubt'
  BY <1>n, Nobody DEF IInv, InDoubt, NonePending, Kin, Live, Backed
<1>3. LeadersBacked'
  <2>1. ASSUME NEW c \in Bids, Live(listing, c)'
        PROVE  holds'[c] = [status |-> "RESERVED", amount |-> listing'.bids[c].amount]
    BY <2>1, <1>n, Nobody DEF IInv, LeadersBacked, Live, Backed
  <2> QED BY <2>1 DEF LeadersBacked, Backed
<1>4. Calls'
  <2>1. ASSUME NEW v \in Callers
        PROVE  CallTells(v)'
    BY <2>1, <1>n, Nobody DEF IInv, Calls, CallTells, Unwritten, Backed, Idle
  <2> QED BY <2>1 DEF Calls
<1>5. Alone'
  BY <1>n, Nobody DEF IInv, Alone, IsPlacing
<1>6. Fresh'
  BY <1>n, Nobody DEF IInv, Fresh, Unwritten
<1>7. Aged'
  BY <1>n, Nobody DEF IInv, Aged, IsPlacing, TypeOK
<1>8. Releasing'
  <2>1. ASSUME NEW c \in Bids
        PROVE  (runs'[c] # "none" => holds'[c] # NoHold) /\ (runs'[c] = "done" => holds'[c].status = "RELEASED")
    BY <2>1, <1>n, Nobody DEF IInv, Releasing
  <2>2. ASSUME NEW c \in Bids, runs'[c] = "running"
        PROVE  ~Live(listing, c)' /\ tx'.bid # c
    BY <2>2, <1>n, Nobody DEF IInv, Releasing, Live
  <2>3. ASSUME NEW c \in Bids, runs'[c] = "running", NEW v \in Callers, MayWrite(v, c)'
        PROVE  listing'.bids[c] # NoBid
    BY <2>3, <1>n, Nobody DEF IInv, Releasing, MayWrite
  <2>4. ASSUME NEW c \in Bids, runs'[c] = "running", c \in Keyed, listing'.bids[c] = NoBid
        PROVE  \E v \in Callers : call'[v].bid = c /\ call'[v].pc = "wait"
    BY <2>4, <1>n, Nobody DEF IInv, Releasing
  <2> QED BY <2>1, <2>2, <2>3, <2>4, PlacementConstants DEF Releasing
<1>9. Told'
  <2>1. ASSUME NEW c \in Bids, <<"recorded", c>> \in told'
        PROVE  listing'.bids[c] # NoBid
    BY <2>1, <1>n, Nobody DEF IInv, Told
  <2>2. ASSUME NEW c \in Bids, <<"refused", c>> \in told'
        PROVE  Unwritten(c)'
    BY <2>2, <1>n, Nobody DEF IInv, Told, Unwritten
  <2>3. ASSUME NEW c \in Bids, <<"refused", c>> \in told', c \notin Buyouts \cup Troubled
        PROVE  holds'[c].status = "RELEASED"
    BY <2>3, <1>n, Nobody DEF IInv, Told
  <2>4. ASSUME NEW c \in Bids, <<"refused", c>> \in told', NEW v \in Callers, call'[v].bid = c
        PROVE  call'[v].pc # "write" /\ (call'[v].pc = "hold" => c \in Keyed)
    BY <2>4, <1>n, Nobody DEF IInv, Told
  <2> QED BY <2>1, <2>2, <2>3, <2>4 DEF Told
<1> QED BY <1>1, <1>2, <1>3, <1>4, <1>5, <1>6, <1>7, <1>8, <1>9 DEF IInv

(* Only a live bid is withdrawn, so its gold is held. *)
LEMMA StepWithdrawn ==
    ASSUME IInv, NEW w \in Callers, NEW b \in Bids, Withdrawn(w, b)
    PROVE  IInv'
<1>n. UNCHANGED <<tx, holds, calls, runs, aged, judged, told, crashes>> /\ tx = NoTx
  BY DEF Withdrawn, UnchangedReconciler, Unlocked
<1>b. /\ b # NobodysBid /\ call[w] = Idle /\ Live(listing, b) /\ listing.bids[b] # NoBid
      /\ holds[b] # NoHold /\ runs[b] # "running" /\ b \notin judged
      /\ <<"refused", b>> \notin told /\ calls[b] # 0
  <2>1. Live(listing, b)
    BY DEF IInv, Withdrawn, MayWithdrawBid, CanBidTransition, Live, InDoubt, NonePending
  <2>2. listing.bids[b] # NoBid
    BY <2>1 DEF Live, NoBid
  <2> QED BY <2>1, <2>2, LiveHeld, BidOf DEF IInv, Withdrawn, Releasing, Aged, Told, Fresh, Unwritten
<1>k. /\ listing' \in Listing /\ NonePending(listing') /\ Kin(listing, listing', b)
      /\ listing'.bids[b].status = "CANCELLED"
  BY <1>b, WithdrawEffect DEF IInv, TypeOK, InDoubt, Withdrawn
<1>l. listing'.bids[b] # NoBid /\ ~Live(listing', b)
  BY <1>k DEF NoBid, Live
<1>m. /\ \A c \in Bids : listing.bids[c] # NoBid => listing'.bids[c] # NoBid
      /\ \A c \in Bids \ {b} : listing.bids[c] = NoBid => listing'.bids[c] = NoBid
      /\ \A c \in Bids \ {b} : listing.bids[c].status = "CANCELLED" => listing'.bids[c].status = "CANCELLED"
      /\ \A c \in Bids \ {b} : Live(listing', c) => Live(listing, c) /\ listing'.bids[c].amount = listing.bids[c].amount
  BY <1>k, <1>l DEF Kin, Live, NoBid
<1>c. /\ call' \in [Callers -> [pc : PCs, bid : Bids \cup {NobodysBid},
                                amount : Amounts \cup {0, BuyoutPrice}, tries : 0..(MaxWrites - 1)]]
      /\ call'[w].pc = "withdrawn" /\ call'[w].bid = b
      /\ \A v \in Callers \ {w} : call'[v] = call[v]
  BY PlacementConstants DEF IInv, TypeOK, Withdrawn, PCs, Idle
<1>o. \A v \in Callers : call[v].bid = b => call[v].pc # "withdrawn"
  BY <1>b DEF IInv, Calls, CallTells, Live
<1>1. TypeOK'
  BY <1>b, <1>n, <1>k, <1>l, <1>m, <1>c, Nobody DEF IInv, TypeOK, PCs
<1>2. InDoubt'
  BY <1>b, <1>n, <1>k, <1>l, <1>m, <1>c, Nobody DEF IInv, InDoubt, NonePending, Kin, Live, Backed
<1>3. LeadersBacked'
  <2>1. ASSUME NEW c \in Bids, Live(listing, c)'
        PROVE  holds'[c] = [status |-> "RESERVED", amount |-> listing'.bids[c].amount]
    BY <2>1, <1>b, <1>n, <1>k, <1>l, <1>m, <1>c, Nobody DEF IInv, LeadersBacked, Live, Backed
  <2> QED BY <2>1 DEF LeadersBacked, Backed
<1>4. Calls'
  <2>1. ASSUME NEW v \in Callers PROVE CallTells(v)'
    <3>1. CASE v = w
      BY <2>1, <3>1, <1>b, <1>n, <1>k, <1>c, Nobody DEF CallTells, Backed, Idle, Unwritten
    <3>2. CASE v # w
      <4>1. CallTells(v) /\ call'[v] = call[v]
        BY <2>1, <3>2, <1>b, <1>n, <1>k, <1>m, <1>c, <1>o DEF IInv, Calls
      <4>2. \A c \in Bids : call[v].bid = c =>
                IF call[v].pc = "withdrawn"
                THEN listing.bids[c].status = "CANCELLED" => listing'.bids[c].status = "CANCELLED"
                ELSE Unwritten(c) => Unwritten(c)'
        BY <2>1, <3>2, <1>b, <1>n, <1>k, <1>m, <1>c, <1>o DEF Unwritten
      <4> QED BY <2>1, <4>1, <4>2, <1>b, <1>n, <1>k, <1>m, <1>c, <1>o, CallCarried
    <3> QED BY <3>1, <3>2
  <2> QED BY <2>1 DEF Calls
<1>5. Alone'
  BY <1>b, <1>n, <1>k, <1>l, <1>m, <1>c, Nobody DEF IInv, Alone, IsPlacing
<1>6. Fresh'
  BY <1>b, <1>n, <1>k, <1>l, <1>m, <1>c, Nobody DEF IInv, Fresh, Unwritten
<1>7. Aged'
  <2>1. ASSUME NEW c \in aged' PROVE tx'.bid # c /\ \A v \in Callers : ~IsPlacing(v, c)'
    BY <1>n, <1>c, <2>1 DEF IInv, Aged, IsPlacing
  <2>2. ASSUME NEW c \in judged' PROVE ~Live(listing', c)
    BY <1>b, <1>n, <1>m, <2>2 DEF IInv, Aged, TypeOK
  <2> QED BY <2>1, <2>2 DEF Aged
<1>8. Releasing'
  <2>1. ASSUME NEW c \in Bids
        PROVE  (runs'[c] # "none" => holds'[c] # NoHold) /\ (runs'[c] = "done" => holds'[c].status = "RELEASED")
    BY <2>1, <1>b, <1>n, <1>k, <1>l, <1>m, <1>c, Nobody DEF IInv, Releasing
  <2>2. ASSUME NEW c \in Bids, runs'[c] = "running"
        PROVE  ~Live(listing, c)' /\ tx'.bid # c
    BY <2>2, <1>b, <1>n, <1>k, <1>l, <1>m, <1>c, Nobody DEF IInv, Releasing, Live
  <2>3. ASSUME NEW c \in Bids, runs'[c] = "running", NEW v \in Callers, MayWrite(v, c)'
        PROVE  listing'.bids[c] # NoBid
    <3>1. CASE v = w
      BY <2>3, <3>1, <1>b, <1>n, <1>k, <1>l, <1>m, <1>c, Nobody DEF IInv, Releasing, MayWrite
    <3>2. CASE v # w
      BY <2>3, <3>2, <1>b, <1>n, <1>k, <1>l, <1>m, <1>c, Nobody DEF IInv, Releasing, MayWrite
    <3> QED BY <3>1, <3>2
  <2>4. ASSUME NEW c \in Bids, runs'[c] = "running", c \in Keyed, listing'.bids[c] = NoBid
        PROVE  \E v \in Callers : call'[v].bid = c /\ call'[v].pc = "wait"
    BY <2>4, <1>b, <1>n, <1>k, <1>l, <1>m, <1>c, Nobody DEF IInv, Releasing
  <2> QED BY <2>1, <2>2, <2>3, <2>4, PlacementConstants DEF Releasing
<1>9. Told'
  <2>1. ASSUME NEW c \in Bids, <<"recorded", c>> \in told'
        PROVE  listing'.bids[c] # NoBid
    BY <2>1, <1>b, <1>n, <1>k, <1>l, <1>m, <1>c, Nobody DEF IInv, Told
  <2>2. ASSUME NEW c \in Bids, <<"refused", c>> \in told'
        PROVE  Unwritten(c)'
    BY <2>2, <1>b, <1>n, <1>k, <1>l, <1>m, <1>c, Nobody DEF IInv, Told, Unwritten
  <2>3. ASSUME NEW c \in Bids, <<"refused", c>> \in told', c \notin Buyouts \cup Troubled
        PROVE  holds'[c].status = "RELEASED"
    BY <2>3, <1>b, <1>n, <1>k, <1>l, <1>m, <1>c, Nobody DEF IInv, Told
  <2>4. ASSUME NEW c \in Bids, <<"refused", c>> \in told', NEW v \in Callers, call'[v].bid = c
        PROVE  call'[v].pc # "write" /\ (call'[v].pc = "hold" => c \in Keyed)
    <3>1. CASE v = w
      BY <2>4, <3>1, <1>b, <1>n, <1>k, <1>l, <1>m, <1>c, Nobody DEF IInv, Told
    <3>2. CASE v # w
      BY <2>4, <3>2, <1>b, <1>n, <1>k, <1>l, <1>m, <1>c, Nobody DEF IInv, Told
    <3> QED BY <3>1, <3>2
  <2> QED BY <2>1, <2>2, <2>3, <2>4 DEF Told
<1> QED BY <1>1, <1>2, <1>3, <1>4, <1>5, <1>6, <1>7, <1>8, <1>9 DEF IInv

(* Settlement's freeze changes no bid. *)
LEMMA StepFreeze ==
    ASSUME IInv, FreezeListing
    PROVE  IInv'
<1>n. UNCHANGED <<tx, holds, call, calls, runs, aged, judged, told, crashes>> /\ tx = NoTx
  BY DEF FreezeListing, UnchangedReconciler, Unlocked
<1>k. listing' \in Listing /\ listing'.bids = listing.bids
  BY DEF IInv, TypeOK, FreezeListing, Freeze, Listing, ListingStatuses
<1>l. \A c \in Bids : Live(listing', c) <=> Live(listing, c)
  BY <1>k DEF Live
<1>1. TypeOK'
  BY <1>n, <1>k, <1>l, Nobody DEF IInv, TypeOK, PCs
<1>2. InDoubt'
  BY <1>n, <1>k, <1>l, Nobody DEF IInv, InDoubt, NonePending, Kin, Live, Backed
<1>3. LeadersBacked'
  <2>1. ASSUME NEW c \in Bids, Live(listing, c)'
        PROVE  holds'[c] = [status |-> "RESERVED", amount |-> listing'.bids[c].amount]
    BY <2>1, <1>n, <1>k, <1>l, Nobody DEF IInv, LeadersBacked, Live, Backed
  <2> QED BY <2>1 DEF LeadersBacked, Backed
<1>4. Calls'
  <2>1. ASSUME NEW v \in Callers
        PROVE  CallTells(v)'
    BY <2>1, <1>n, <1>k, <1>l, Nobody DEF IInv, Calls, CallTells, Unwritten, Backed, Idle
  <2> QED BY <2>1 DEF Calls
<1>5. Alone'
  BY <1>n, <1>k, <1>l, Nobody DEF IInv, Alone, IsPlacing
<1>6. Fresh'
  BY <1>n, <1>k, <1>l, Nobody DEF IInv, Fresh, Unwritten
<1>7. Aged'
  BY <1>n, <1>k, <1>l, Nobody DEF IInv, Aged, IsPlacing, TypeOK
<1>8. Releasing'
  <2>1. ASSUME NEW c \in Bids
        PROVE  (runs'[c] # "none" => holds'[c] # NoHold) /\ (runs'[c] = "done" => holds'[c].status = "RELEASED")
    BY <2>1, <1>n, <1>k, <1>l, Nobody DEF IInv, Releasing
  <2>2. ASSUME NEW c \in Bids, runs'[c] = "running"
        PROVE  ~Live(listing, c)' /\ tx'.bid # c
    BY <2>2, <1>n, <1>k, <1>l, Nobody DEF IInv, Releasing, Live
  <2>3. ASSUME NEW c \in Bids, runs'[c] = "running", NEW v \in Callers, MayWrite(v, c)'
        PROVE  listing'.bids[c] # NoBid
    BY <2>3, <1>n, <1>k, <1>l, Nobody DEF IInv, Releasing, MayWrite
  <2>4. ASSUME NEW c \in Bids, runs'[c] = "running", c \in Keyed, listing'.bids[c] = NoBid
        PROVE  \E v \in Callers : call'[v].bid = c /\ call'[v].pc = "wait"
    BY <2>4, <1>n, <1>k, <1>l, Nobody DEF IInv, Releasing
  <2> QED BY <2>1, <2>2, <2>3, <2>4, PlacementConstants DEF Releasing
<1>9. Told'
  <2>1. ASSUME NEW c \in Bids, <<"recorded", c>> \in told'
        PROVE  listing'.bids[c] # NoBid
    BY <2>1, <1>n, <1>k, <1>l, Nobody DEF IInv, Told
  <2>2. ASSUME NEW c \in Bids, <<"refused", c>> \in told'
        PROVE  Unwritten(c)'
    BY <2>2, <1>n, <1>k, <1>l, Nobody DEF IInv, Told, Unwritten
  <2>3. ASSUME NEW c \in Bids, <<"refused", c>> \in told', c \notin Buyouts \cup Troubled
        PROVE  holds'[c].status = "RELEASED"
    BY <2>3, <1>n, <1>k, <1>l, Nobody DEF IInv, Told
  <2>4. ASSUME NEW c \in Bids, <<"refused", c>> \in told', NEW v \in Callers, call'[v].bid = c
        PROVE  call'[v].pc # "write" /\ (call'[v].pc = "hold" => c \in Keyed)
    BY <2>4, <1>n, <1>k, <1>l, Nobody DEF IInv, Told
  <2> QED BY <2>1, <2>2, <2>3, <2>4 DEF Told
<1> QED BY <1>1, <1>2, <1>3, <1>4, <1>5, <1>6, <1>7, <1>8, <1>9 DEF IInv

(* Only calls for troubled bids die, so no keyed bid's wait is cut short. *)
LEMMA StepCrash ==
    ASSUME IInv, ServedWell, NEW w \in Callers, Crash(w)
    PROVE  IInv'
<1>n. UNCHANGED <<listing, tx, holds, calls, runs, aged, judged, told>>
  BY DEF Crash, UnchangedReconciler
<1>b. call[w].bid \in Troubled /\ call[w].bid \notin Keyed /\ Return(w) /\ crashes' \in 0..MaxCrashes
  BY PlacementConstants DEF ServedWell, Crash, IInv, TypeOK
<1>c. /\ call' \in [Callers -> [pc : PCs, bid : Bids \cup {NobodysBid},
                                amount : Amounts \cup {0, BuyoutPrice}, tries : 0..(MaxWrites - 1)]]
      /\ call'[w] = Idle /\ \A v \in Callers \ {w} : call'[v] = call[v]
  BY <1>b, Returning DEF IInv
<1>1. TypeOK'
  BY <1>b, <1>n, <1>c, Nobody DEF IInv, TypeOK, PCs
<1>2. InDoubt'
  BY <1>b, <1>n, <1>c, Nobody DEF IInv, InDoubt, NonePending, Kin, Live, Backed
<1>3. LeadersBacked'
  <2>1. ASSUME NEW c \in Bids, Live(listing, c)'
        PROVE  holds'[c] = [status |-> "RESERVED", amount |-> listing'.bids[c].amount]
    BY <2>1, <1>b, <1>n, <1>c, Nobody DEF IInv, LeadersBacked, Live, Backed
  <2> QED BY <2>1 DEF LeadersBacked, Backed
<1>4. Calls'
  <2>1. ASSUME NEW v \in Callers
        PROVE  CallTells(v)'
    <3>1. CASE v = w
      BY <2>1, <3>1, <1>b, <1>n, <1>c, Nobody DEF IInv, Calls, CallTells, Unwritten, Backed, Idle
    <3>2. CASE v # w
      BY <2>1, <3>2, <1>b, <1>n, <1>c, Nobody DEF IInv, Calls, CallTells, Unwritten, Backed, Idle
    <3> QED BY <3>1, <3>2
  <2> QED BY <2>1 DEF Calls
<1>5. Alone'
  BY <1>b, <1>n, <1>c, Nobody DEF IInv, Alone, IsPlacing
<1>6. Fresh'
  BY <1>b, <1>n, <1>c, Nobody DEF IInv, Fresh, Unwritten
<1>7. Aged'
  BY <1>b, <1>n, <1>c, Nobody DEF IInv, Aged, IsPlacing, TypeOK
<1>8. Releasing'
  <2>1. ASSUME NEW c \in Bids
        PROVE  (runs'[c] # "none" => holds'[c] # NoHold) /\ (runs'[c] = "done" => holds'[c].status = "RELEASED")
    BY <2>1, <1>b, <1>n, <1>c, Nobody DEF IInv, Releasing
  <2>2. ASSUME NEW c \in Bids, runs'[c] = "running"
        PROVE  ~Live(listing, c)' /\ tx'.bid # c
    BY <2>2, <1>b, <1>n, <1>c, Nobody DEF IInv, Releasing, Live
  <2>3. ASSUME NEW c \in Bids, runs'[c] = "running", NEW v \in Callers, MayWrite(v, c)'
        PROVE  listing'.bids[c] # NoBid
    <3>1. CASE v = w
      BY <2>3, <3>1, <1>b, <1>n, <1>c, Nobody DEF IInv, Releasing, MayWrite
    <3>2. CASE v # w
      BY <2>3, <3>2, <1>b, <1>n, <1>c, Nobody DEF IInv, Releasing, MayWrite
    <3> QED BY <3>1, <3>2
  <2>4. ASSUME NEW c \in Bids, runs'[c] = "running", c \in Keyed, listing'.bids[c] = NoBid
        PROVE  \E v \in Callers : call'[v].bid = c /\ call'[v].pc = "wait"
    BY <2>4, <1>b, <1>n, <1>c, Nobody DEF IInv, Releasing
  <2> QED BY <2>1, <2>2, <2>3, <2>4, PlacementConstants DEF Releasing
<1>9. Told'
  <2>1. ASSUME NEW c \in Bids, <<"recorded", c>> \in told'
        PROVE  listing'.bids[c] # NoBid
    BY <2>1, <1>b, <1>n, <1>c, Nobody DEF IInv, Told
  <2>2. ASSUME NEW c \in Bids, <<"refused", c>> \in told'
        PROVE  Unwritten(c)'
    BY <2>2, <1>b, <1>n, <1>c, Nobody DEF IInv, Told, Unwritten
  <2>3. ASSUME NEW c \in Bids, <<"refused", c>> \in told', c \notin Buyouts \cup Troubled
        PROVE  holds'[c].status = "RELEASED"
    BY <2>3, <1>b, <1>n, <1>c, Nobody DEF IInv, Told
  <2>4. ASSUME NEW c \in Bids, <<"refused", c>> \in told', NEW v \in Callers, call'[v].bid = c
        PROVE  call'[v].pc # "write" /\ (call'[v].pc = "hold" => c \in Keyed)
    <3>1. CASE v = w
      BY <2>4, <3>1, <1>b, <1>n, <1>c, Nobody DEF IInv, Told
    <3>2. CASE v # w
      BY <2>4, <3>2, <1>b, <1>n, <1>c, Nobody DEF IInv, Told
    <3> QED BY <3>1, <3>2
  <2> QED BY <2>1, <2>2, <2>3, <2>4 DEF Told
<1> QED BY <1>1, <1>2, <1>3, <1>4, <1>5, <1>6, <1>7, <1>8, <1>9 DEF IInv

(* A release starts for a bid that is out for good; who asked for it waits, or
   the bid is one that nobody resends. *)
LEMMA StepStartRelease ==
    ASSUME IInv, ServedWell, NEW w \in Callers, StartRelease(w)
    PROVE  IInv'
<1>0. PICK b \in Bids : b = call[w].bid
  BY CallOf DEF StartRelease
<1>n. UNCHANGED <<listing, tx, holds, calls, aged, judged, crashes>>
  BY DEF StartRelease, UnchangedReconciler
<1>b. /\ b # NobodysBid /\ call[w].pc \in {"refused", "replayed", "withdrawn"} /\ call[w].bid = b
      /\ calls[b] # 0 /\ holds[b] # NoHold
      /\ call[w].pc = "replayed" => b \in Buyouts
  BY <1>0, BidOf, CallOf DEF IInv, StartRelease, CallTells
<1>u. /\ call[w].pc # "withdrawn" => Unwritten(b)
      /\ call[w].pc = "withdrawn" => listing.bids[b] # NoBid
      /\ ~Live(listing, b) /\ tx.bid # b
  <2>1. CASE call[w].pc = "withdrawn"
    <3>1. listing.bids[b].status = "CANCELLED"
      BY <1>b, <2>1, CallOf DEF CallTells
    <3> QED BY <1>b, <2>1, <3>1, Nobody DEF Live, NoBid, IInv, InDoubt, NoTx
  <2>2. CASE call[w].pc # "withdrawn"
    <3>1. Unwritten(b)
      BY <1>b, <2>2, CallOf DEF CallTells
    <3> QED BY <2>2, <3>1 DEF Unwritten, Live, NoBid
  <2> QED BY <2>1, <2>2
<1>s. /\ \A v \in Callers \ {w} : call[v].bid = b /\ call[w].pc # "withdrawn" => call[v].pc \in {"withdrawn", "idle"}
      /\ \A v \in Callers : MayWrite(v, b) => listing.bids[b] # NoBid
  <2>1. call[w].pc # "withdrawn" => \A v \in Callers : IsPlacing(v, b) => v = w
    BY <1>b DEF IInv, Alone, IsPlacing
  <2> QED BY <1>b, <1>u, <2>1 DEF IsPlacing, MayWrite
<1>r. /\ runs' \in [Bids -> {"none", "running", "done"}]
      /\ \A c \in Bids \ {b} : runs'[c] = runs[c]
      /\ runs[b] # "none" => runs'[b] = runs[b]
      /\ runs[b] = "none" => runs'[b] \in {"none", "running"}
  BY <1>0 DEF StartRelease, IInv, TypeOK
<1>d. \/ /\ Goto(w, "wait") /\ told' = told
         /\ call[w].pc = "refused" /\ b \notin Buyouts /\ runs'[b] # "none"
      \/ /\ Return(w)
         /\ told' = told \/ (told' = told \cup {<<"refused", b>>} /\ call[w].pc = "refused")
         /\ call[w].pc = "refused" => b \in Buyouts \cup Troubled
  BY <1>0, <1>b DEF StartRelease, Waits, Answer, IInv, TypeOK
<1>c. /\ call' \in [Callers -> [pc : PCs, bid : Bids \cup {NobodysBid},
                                amount : Amounts \cup {0, BuyoutPrice}, tries : 0..(MaxWrites - 1)]]
      /\ \A v \in Callers \ {w} : call'[v] = call[v]
      /\ \/ /\ call'[w].pc = "wait" /\ call'[w].bid = b /\ told' = told
            /\ call[w].pc = "refused" /\ b \notin Buyouts /\ runs'[b] # "none"
         \/ /\ call'[w] = Idle
            /\ \/ told' = told
               \/ told' = told \cup {<<"refused", b>>} /\ call[w].pc = "refused"
            /\ call[w].pc = "refused" => b \in Buyouts \cup Troubled
  <2>1. CASE Goto(w, "wait")
    BY <1>b, <1>d, <2>1, Going, Returning DEF IInv, PCs
  <2>2. CASE Return(w)
    <3>1. call'[w] = Idle /\ ~Goto(w, "wait")
      BY <2>2, Going, Returning, Nobody DEF IInv, PCs
    <3> QED BY <1>d, <2>2, <3>1, Returning DEF IInv, PCs
  <2> QED BY <1>d, <2>1, <2>2
<1>k. call'[w] = Idle /\ b \in Keyed => listing.bids[b] # NoBid
  BY <1>b, <1>u, <1>c, Nobody DEF ServedWell
<1>1. TypeOK'
  BY <1>b, <1>n, <1>u, <1>s, <1>r, <1>c, <1>k, Nobody DEF IInv, TypeOK, PCs
<1>2. InDoubt'
  BY <1>b, <1>n, <1>u, <1>s, <1>r, <1>c, <1>k, Nobody DEF IInv, InDoubt, NonePending, Kin, Live, Backed
<1>3. LeadersBacked'
  <2>1. ASSUME NEW c \in Bids, Live(listing, c)'
        PROVE  holds'[c] = [status |-> "RESERVED", amount |-> listing'.bids[c].amount]
    BY <2>1, <1>b, <1>n, <1>u, <1>s, <1>r, <1>c, <1>k, Nobody DEF IInv, LeadersBacked, Live, Backed
  <2> QED BY <2>1 DEF LeadersBacked, Backed
<1>4. Calls'
  <2>1. ASSUME NEW v \in Callers PROVE CallTells(v)'
    <3>1. CASE v = w
      BY <2>1, <3>1, <1>b, <1>n, <1>u, <1>c, Nobody DEF CallTells, Idle, Unwritten
    <3>2. CASE v # w
      <4>1. CallTells(v) /\ call'[v] = call[v] /\ UNCHANGED <<listing, holds, tx>>
        BY <1>c, <1>n, <2>1, <3>2 DEF IInv, Calls
      <4>2. runs[call[v].bid] # "none" => runs'[call[v].bid] # "none" \/ call[v].bid \notin Bids
        BY <1>r
      <4> QED BY <4>1, <4>2, Nobody DEF CallTells, Backed, Unwritten, Idle
    <3> QED BY <3>1, <3>2
  <2> QED BY <2>1 DEF Calls
<1>5. Alone'
  BY <1>b, <1>n, <1>u, <1>s, <1>r, <1>c, <1>k, Nobody DEF IInv, Alone, IsPlacing
<1>6. Fresh'
  BY <1>b, <1>n, <1>u, <1>s, <1>r, <1>c, <1>k, Nobody DEF IInv, Fresh, Unwritten
<1>7. Aged'
  BY <1>b, <1>n, <1>u, <1>s, <1>r, <1>c, <1>k, Nobody DEF IInv, Aged, IsPlacing, TypeOK
<1>8. Releasing'
  <2>1. ASSUME NEW c \in Bids
        PROVE  (runs'[c] # "none" => holds'[c] # NoHold) /\ (runs'[c] = "done" => holds'[c].status = "RELEASED")
    BY <2>1, <1>b, <1>n, <1>u, <1>s, <1>r, <1>c, <1>k, Nobody DEF IInv, Releasing
  <2>2. ASSUME NEW c \in Bids, runs'[c] = "running"
        PROVE  ~Live(listing, c)' /\ tx'.bid # c
    BY <2>2, <1>b, <1>n, <1>u, <1>s, <1>r, <1>c, <1>k, Nobody DEF IInv, Releasing, Live
  <2>3. ASSUME NEW c \in Bids, runs'[c] = "running", NEW v \in Callers, MayWrite(v, c)'
        PROVE  listing'.bids[c] # NoBid
    <3>1. CASE v = w
      BY <2>3, <3>1, <1>b, <1>n, <1>u, <1>s, <1>r, <1>c, <1>k, Nobody DEF IInv, Releasing, MayWrite
    <3>2. CASE v # w
      BY <2>3, <3>2, <1>b, <1>n, <1>u, <1>s, <1>r, <1>c, <1>k, Nobody DEF IInv, Releasing, MayWrite
    <3> QED BY <3>1, <3>2
  <2>4. ASSUME NEW c \in Bids, runs'[c] = "running", c \in Keyed, listing'.bids[c] = NoBid
        PROVE  \E v \in Callers : call'[v].bid = c /\ call'[v].pc = "wait"
    BY <2>4, <1>b, <1>n, <1>u, <1>s, <1>r, <1>c, <1>k, Nobody DEF IInv, Releasing
  <2> QED BY <2>1, <2>2, <2>3, <2>4, PlacementConstants DEF Releasing
<1>9. Told'
  <2>1. ASSUME NEW c \in Bids, <<"recorded", c>> \in told'
        PROVE  listing'.bids[c] # NoBid
    BY <2>1, <1>b, <1>n, <1>u, <1>s, <1>r, <1>c, <1>k, Nobody DEF IInv, Told
  <2>2. ASSUME NEW c \in Bids, <<"refused", c>> \in told'
        PROVE  Unwritten(c)'
    BY <2>2, <1>b, <1>n, <1>u, <1>s, <1>r, <1>c, <1>k, Nobody DEF IInv, Told, Unwritten
  <2>3. ASSUME NEW c \in Bids, <<"refused", c>> \in told', c \notin Buyouts \cup Troubled
        PROVE  holds'[c].status = "RELEASED"
    BY <2>3, <1>b, <1>n, <1>u, <1>s, <1>r, <1>c, <1>k, Nobody DEF IInv, Told
  <2>4. ASSUME NEW c \in Bids, <<"refused", c>> \in told', NEW v \in Callers, call'[v].bid = c
        PROVE  call'[v].pc # "write" /\ (call'[v].pc = "hold" => c \in Keyed)
    <3>1. CASE v = w
      BY <2>4, <3>1, <1>b, <1>n, <1>u, <1>s, <1>r, <1>c, <1>k, Nobody DEF IInv, Told
    <3>2. CASE v # w
      BY <2>4, <3>2, <1>b, <1>n, <1>u, <1>s, <1>r, <1>c, <1>k, Nobody DEF IInv, Told
    <3> QED BY <3>1, <3>2
  <2> QED BY <2>1, <2>2, <2>3, <2>4 DEF Told
<1> QED BY <1>1, <1>2, <1>3, <1>4, <1>5, <1>6, <1>7, <1>8, <1>9 DEF IInv

(* Who waited for a release answers once it is over, or is of a bid that is
   troubled. *)
LEMMA StepWaited ==
    ASSUME IInv, ServedWell, NEW w \in Callers, Waited(w)
    PROVE  IInv'
<1>0. PICK b \in Bids : b = call[w].bid
  BY CallOf DEF Waited
<1>n. UNCHANGED <<listing, tx, holds, calls, runs, aged, judged, crashes>>
  BY DEF Waited, UnchangedReconciler
<1>b. /\ b # NobodysBid /\ call[w].pc = "wait" /\ call[w].bid = b
      /\ calls[b] # 0 /\ Unwritten(b) /\ (runs[b] = "done" \/ b \in Troubled)
      /\ \A v \in Callers : IsPlacing(v, b) => v = w
      /\ told' = told \cup {<<"refused", b>>}
  BY <1>0, BidOf, CallOf DEF IInv, Waited, Answer, CallTells, Alone, IsPlacing
<1>k. runs[b] = "running" => b \notin Keyed
  BY <1>b DEF ServedWell
<1>d. b \notin Buyouts \cup Troubled => holds[b].status = "RELEASED"
  BY <1>b DEF IInv, Releasing
<1>s. \A v \in Callers \ {w} : call[v].bid = b => call[v].pc \in {"withdrawn", "idle"}
  BY <1>b DEF IsPlacing
<1>c. /\ call' \in [Callers -> [pc : PCs, bid : Bids \cup {NobodysBid},
                                amount : Amounts \cup {0, BuyoutPrice}, tries : 0..(MaxWrites - 1)]]
      /\ call'[w] = Idle /\ \A v \in Callers \ {w} : call'[v] = call[v]
  <2>1. Return(w)
    BY DEF Waited, Answer
  <2> QED BY <2>1, Returning DEF IInv
<1>1. TypeOK'
  BY <1>b, <1>n, <1>d, <1>s, <1>k, <1>c, Nobody DEF IInv, TypeOK, PCs
<1>2. InDoubt'
  BY <1>b, <1>n, <1>d, <1>s, <1>k, <1>c, Nobody DEF IInv, InDoubt, NonePending, Kin, Live, Backed
<1>3. LeadersBacked'
  <2>1. ASSUME NEW c \in Bids, Live(listing, c)'
        PROVE  holds'[c] = [status |-> "RESERVED", amount |-> listing'.bids[c].amount]
    BY <2>1, <1>b, <1>n, <1>d, <1>s, <1>k, <1>c, Nobody DEF IInv, LeadersBacked, Live, Backed
  <2> QED BY <2>1 DEF LeadersBacked, Backed
<1>4. Calls'
  <2>1. ASSUME NEW v \in Callers
        PROVE  CallTells(v)'
    <3>1. CASE v = w
      BY <2>1, <3>1, <1>b, <1>n, <1>d, <1>s, <1>k, <1>c, Nobody DEF IInv, Calls, CallTells, Unwritten, Backed, Idle
    <3>2. CASE v # w
      BY <2>1, <3>2, <1>b, <1>n, <1>d, <1>s, <1>k, <1>c, Nobody DEF IInv, Calls, CallTells, Unwritten, Backed, Idle
    <3> QED BY <3>1, <3>2
  <2> QED BY <2>1 DEF Calls
<1>5. Alone'
  BY <1>b, <1>n, <1>d, <1>s, <1>k, <1>c, Nobody DEF IInv, Alone, IsPlacing
<1>6. Fresh'
  BY <1>b, <1>n, <1>d, <1>s, <1>k, <1>c, Nobody DEF IInv, Fresh, Unwritten
<1>7. Aged'
  BY <1>b, <1>n, <1>d, <1>s, <1>k, <1>c, Nobody DEF IInv, Aged, IsPlacing, TypeOK
<1>8. Releasing'
  <2>1. ASSUME NEW c \in Bids
        PROVE  (runs'[c] # "none" => holds'[c] # NoHold) /\ (runs'[c] = "done" => holds'[c].status = "RELEASED")
    BY <2>1, <1>b, <1>n, <1>d, <1>s, <1>k, <1>c, Nobody DEF IInv, Releasing
  <2>2. ASSUME NEW c \in Bids, runs'[c] = "running"
        PROVE  ~Live(listing, c)' /\ tx'.bid # c
    BY <2>2, <1>b, <1>n, <1>d, <1>s, <1>k, <1>c, Nobody DEF IInv, Releasing, Live
  <2>3. ASSUME NEW c \in Bids, runs'[c] = "running", NEW v \in Callers, MayWrite(v, c)'
        PROVE  listing'.bids[c] # NoBid
    <3>1. CASE v = w
      BY <2>3, <3>1, <1>b, <1>n, <1>d, <1>s, <1>k, <1>c, Nobody DEF IInv, Releasing, MayWrite
    <3>2. CASE v # w
      BY <2>3, <3>2, <1>b, <1>n, <1>d, <1>s, <1>k, <1>c, Nobody DEF IInv, Releasing, MayWrite
    <3> QED BY <3>1, <3>2
  <2>4. ASSUME NEW c \in Bids, runs'[c] = "running", c \in Keyed, listing'.bids[c] = NoBid
        PROVE  \E v \in Callers : call'[v].bid = c /\ call'[v].pc = "wait"
    BY <2>4, <1>b, <1>n, <1>d, <1>s, <1>k, <1>c, Nobody DEF IInv, Releasing
  <2> QED BY <2>1, <2>2, <2>3, <2>4, PlacementConstants DEF Releasing
<1>9. Told'
  <2>1. ASSUME NEW c \in Bids, <<"recorded", c>> \in told'
        PROVE  listing'.bids[c] # NoBid
    BY <2>1, <1>b, <1>n, <1>d, <1>s, <1>k, <1>c, Nobody DEF IInv, Told
  <2>2. ASSUME NEW c \in Bids, <<"refused", c>> \in told'
        PROVE  Unwritten(c)'
    BY <2>2, <1>b, <1>n, <1>d, <1>s, <1>k, <1>c, Nobody DEF IInv, Told, Unwritten
  <2>3. ASSUME NEW c \in Bids, <<"refused", c>> \in told', c \notin Buyouts \cup Troubled
        PROVE  holds'[c].status = "RELEASED"
    BY <2>3, <1>b, <1>n, <1>d, <1>s, <1>k, <1>c, Nobody DEF IInv, Told
  <2>4. ASSUME NEW c \in Bids, <<"refused", c>> \in told', NEW v \in Callers, call'[v].bid = c
        PROVE  call'[v].pc # "write" /\ (call'[v].pc = "hold" => c \in Keyed)
    <3>1. CASE v = w
      BY <2>4, <3>1, <1>b, <1>n, <1>d, <1>s, <1>k, <1>c, Nobody DEF IInv, Told
    <3>2. CASE v # w
      BY <2>4, <3>2, <1>b, <1>n, <1>d, <1>s, <1>k, <1>c, Nobody DEF IInv, Told
    <3> QED BY <3>1, <3>2
  <2> QED BY <2>1, <2>2, <2>3, <2>4 DEF Told
<1> QED BY <1>1, <1>2, <1>3, <1>4, <1>5, <1>6, <1>7, <1>8, <1>9 DEF IInv

LEMMA ReleaseEffect ==
    ASSUME TypeOK, NEW b \in Bids, Released(b)
    PROVE  /\ holds' \in [Bids -> Holds]
           /\ \A c \in Bids \ {b} : holds'[c] = holds[c]
           /\ holds[b] = NoHold => holds'[b] = NoHold
           /\ holds[b] # NoHold => holds'[b] # NoHold /\ holds'[b].status = "RELEASED"
           /\ \A c \in Bids : holds[c].status = "RELEASED" => holds'[c].status = "RELEASED"
<1>1. holds[b] \in Holds /\ holds \in [Bids -> Holds]
  BY DEF TypeOK
<1> DEFINE to == IF holds[b].status = "RESERVED" THEN [holds[b] EXCEPT !.status = "RELEASED"] ELSE holds[b]
<1>2. to \in Holds
  <2>1. CASE holds[b].status = "RESERVED"
    <3>1. holds[b] \in [status : {"RESERVED", "RELEASED"}, amount : Amounts \cup {BuyoutPrice}]
      BY <1>1, <2>1 DEF Holds, NoHold
    <3>2. to = [status |-> "RELEASED", amount |-> holds[b].amount]
      BY <2>1, <3>1
    <3> HIDE DEF to
    <3> QED BY <3>1, <3>2 DEF Holds
  <2>2. CASE holds[b].status # "RESERVED"
    BY <1>1, <2>2
  <2> QED BY <2>1, <2>2
<1>3. holds[b] = NoHold => to = NoHold
  BY DEF NoHold
<1>4. holds[b] # NoHold => to # NoHold /\ to.status = "RELEASED"
  BY <1>1 DEF Holds, NoHold
<1>5. holds[b].status = "RELEASED" => to.status = "RELEASED"
  BY <1>1
<1>6. holds' = [holds EXCEPT ![b] = to]
  BY DEF Released
<1> HIDE DEF to
<1> QED BY <1>1, <1>2, <1>3, <1>4, <1>5, <1>6

(* The release lands on a hold that backs nothing and never will. *)
LEMMA StepRunRelease ==
    ASSUME IInv, NEW b \in Bids, RunRelease(b)
    PROVE  IInv'
<1>n. UNCHANGED <<listing, tx, call, calls, aged, judged, told, crashes>>
  BY DEF RunRelease, UnchangedReconciler
<1>b. /\ runs[b] = "running" /\ ~Live(listing, b) /\ tx.bid # b /\ holds[b] # NoHold
      /\ \A w \in Callers : call[w].bid = b /\ call[w].pc = "write" => listing.bids[b] # NoBid
  BY DEF RunRelease, IInv, Releasing, MayWrite
<1>r. /\ runs' \in [Bids -> {"none", "running", "done"}]
      /\ runs'[b] = "done" /\ \A c \in Bids \ {b} : runs'[c] = runs[c]
  BY DEF RunRelease, IInv, TypeOK
<1>h. /\ holds' \in [Bids -> Holds] /\ \A c \in Bids \ {b} : holds'[c] = holds[c]
      /\ holds'[b] # NoHold /\ holds'[b].status = "RELEASED"
      /\ \A c \in Bids : holds[c].status = "RELEASED" => holds'[c].status = "RELEASED"
  BY <1>b, ReleaseEffect DEF RunRelease, IInv
<1>f. calls[b] # 0
  BY <1>b DEF IInv, Fresh
<1>1. TypeOK'
  BY <1>n, <1>b, <1>r, <1>h, Nobody DEF IInv, TypeOK, PCs
<1>2. InDoubt'
  BY <1>n, <1>b, <1>r, <1>h, Nobody DEF IInv, InDoubt, NonePending, Kin, Live, Backed
<1>3. LeadersBacked'
  <2>1. ASSUME NEW c \in Bids, Live(listing, c)'
        PROVE  holds'[c] = [status |-> "RESERVED", amount |-> listing'.bids[c].amount]
    BY <2>1, <1>n, <1>b, <1>r, <1>h, Nobody DEF IInv, LeadersBacked, Live, Backed
  <2> QED BY <2>1 DEF LeadersBacked, Backed
<1>4. Calls'
  <2>1. ASSUME NEW v \in Callers
        PROVE  CallTells(v)'
    BY <2>1, <1>n, <1>b, <1>r, <1>h, Nobody DEF IInv, Calls, CallTells, Unwritten, Backed, Idle
  <2> QED BY <2>1 DEF Calls
<1>5. Alone'
  BY <1>n, <1>b, <1>r, <1>h, Nobody DEF IInv, Alone, IsPlacing
<1>6. Fresh'
  BY <1>n, <1>b, <1>r, <1>h, Nobody, <1>f DEF IInv, Fresh, Unwritten
<1>7. Aged'
  BY <1>n, <1>b, <1>r, <1>h, Nobody DEF IInv, Aged, IsPlacing, TypeOK
<1>8. Releasing'
  <2>1. ASSUME NEW c \in Bids
        PROVE  (runs'[c] # "none" => holds'[c] # NoHold) /\ (runs'[c] = "done" => holds'[c].status = "RELEASED")
    BY <2>1, <1>n, <1>b, <1>r, <1>h, Nobody DEF IInv, Releasing
  <2>2. ASSUME NEW c \in Bids, runs'[c] = "running"
        PROVE  ~Live(listing, c)' /\ tx'.bid # c
    BY <2>2, <1>n, <1>b, <1>r, <1>h, Nobody DEF IInv, Releasing, Live
  <2>3. ASSUME NEW c \in Bids, runs'[c] = "running", NEW v \in Callers, MayWrite(v, c)'
        PROVE  listing'.bids[c] # NoBid
    BY <2>3, <1>n, <1>b, <1>r, <1>h, Nobody DEF IInv, Releasing, MayWrite
  <2>4. ASSUME NEW c \in Bids, runs'[c] = "running", c \in Keyed, listing'.bids[c] = NoBid
        PROVE  \E v \in Callers : call'[v].bid = c /\ call'[v].pc = "wait"
    BY <2>4, <1>n, <1>b, <1>r, <1>h, Nobody DEF IInv, Releasing
  <2> QED BY <2>1, <2>2, <2>3, <2>4, PlacementConstants DEF Releasing
<1>9. Told'
  <2>1. ASSUME NEW c \in Bids, <<"recorded", c>> \in told'
        PROVE  listing'.bids[c] # NoBid
    BY <2>1, <1>n, <1>b, <1>r, <1>h, Nobody DEF IInv, Told
  <2>2. ASSUME NEW c \in Bids, <<"refused", c>> \in told'
        PROVE  Unwritten(c)'
    BY <2>2, <1>n, <1>b, <1>r, <1>h, Nobody DEF IInv, Told, Unwritten
  <2>3. ASSUME NEW c \in Bids, <<"refused", c>> \in told', c \notin Buyouts \cup Troubled
        PROVE  holds'[c].status = "RELEASED"
    BY <2>3, <1>n, <1>b, <1>r, <1>h, Nobody DEF IInv, Told
  <2>4. ASSUME NEW c \in Bids, <<"refused", c>> \in told', NEW v \in Callers, call'[v].bid = c
        PROVE  call'[v].pc # "write" /\ (call'[v].pc = "hold" => c \in Keyed)
    BY <2>4, <1>n, <1>b, <1>r, <1>h, Nobody DEF IInv, Told
  <2> QED BY <2>1, <2>2, <2>3, <2>4 DEF Told
<1> QED BY <1>1, <1>2, <1>3, <1>4, <1>5, <1>6, <1>7, <1>8, <1>9 DEF IInv

(* A hold grows old once nobody is placing its bid. *)
LEMMA StepAge ==
    ASSUME IInv, NEW b \in Bids, Age(b)
    PROVE  IInv'
<1>n. UNCHANGED <<listing, tx, holds, call, calls, runs, judged, told, crashes>> /\ aged' = aged \cup {b}
  BY DEF Age
<1>b. tx.bid # b /\ (\A w \in Callers : ~IsPlacing(w, b)) /\ calls[b] # 0
  <2>1. holds[b] # NoHold
    BY DEF Age, NoHold
  <2> QED BY <2>1 DEF Age, Settled, Placing, IsPlacing, IInv, Fresh
<1>1. TypeOK'
  BY <1>n, <1>b, Nobody DEF IInv, TypeOK, PCs
<1>2. InDoubt'
  BY <1>n, <1>b, Nobody DEF IInv, InDoubt, NonePending, Kin, Live, Backed
<1>3. LeadersBacked'
  <2>1. ASSUME NEW c \in Bids, Live(listing, c)'
        PROVE  holds'[c] = [status |-> "RESERVED", amount |-> listing'.bids[c].amount]
    BY <2>1, <1>n, <1>b, Nobody DEF IInv, LeadersBacked, Live, Backed
  <2> QED BY <2>1 DEF LeadersBacked, Backed
<1>4. Calls'
  <2>1. ASSUME NEW v \in Callers
        PROVE  CallTells(v)'
    BY <2>1, <1>n, <1>b, Nobody DEF IInv, Calls, CallTells, Unwritten, Backed, Idle
  <2> QED BY <2>1 DEF Calls
<1>5. Alone'
  BY <1>n, <1>b, Nobody DEF IInv, Alone, IsPlacing
<1>6. Fresh'
  BY <1>n, <1>b, Nobody DEF IInv, Fresh, Unwritten
<1>7. Aged'
  BY <1>n, <1>b, Nobody DEF IInv, Aged, IsPlacing, TypeOK
<1>8. Releasing'
  <2>1. ASSUME NEW c \in Bids
        PROVE  (runs'[c] # "none" => holds'[c] # NoHold) /\ (runs'[c] = "done" => holds'[c].status = "RELEASED")
    BY <2>1, <1>n, <1>b, Nobody DEF IInv, Releasing
  <2>2. ASSUME NEW c \in Bids, runs'[c] = "running"
        PROVE  ~Live(listing, c)' /\ tx'.bid # c
    BY <2>2, <1>n, <1>b, Nobody DEF IInv, Releasing, Live
  <2>3. ASSUME NEW c \in Bids, runs'[c] = "running", NEW v \in Callers, MayWrite(v, c)'
        PROVE  listing'.bids[c] # NoBid
    BY <2>3, <1>n, <1>b, Nobody DEF IInv, Releasing, MayWrite
  <2>4. ASSUME NEW c \in Bids, runs'[c] = "running", c \in Keyed, listing'.bids[c] = NoBid
        PROVE  \E v \in Callers : call'[v].bid = c /\ call'[v].pc = "wait"
    BY <2>4, <1>n, <1>b, Nobody DEF IInv, Releasing
  <2> QED BY <2>1, <2>2, <2>3, <2>4, PlacementConstants DEF Releasing
<1>9. Told'
  <2>1. ASSUME NEW c \in Bids, <<"recorded", c>> \in told'
        PROVE  listing'.bids[c] # NoBid
    BY <2>1, <1>n, <1>b, Nobody DEF IInv, Told
  <2>2. ASSUME NEW c \in Bids, <<"refused", c>> \in told'
        PROVE  Unwritten(c)'
    BY <2>2, <1>n, <1>b, Nobody DEF IInv, Told, Unwritten
  <2>3. ASSUME NEW c \in Bids, <<"refused", c>> \in told', c \notin Buyouts \cup Troubled
        PROVE  holds'[c].status = "RELEASED"
    BY <2>3, <1>n, <1>b, Nobody DEF IInv, Told
  <2>4. ASSUME NEW c \in Bids, <<"refused", c>> \in told', NEW v \in Callers, call'[v].bid = c
        PROVE  call'[v].pc # "write" /\ (call'[v].pc = "hold" => c \in Keyed)
    BY <2>4, <1>n, <1>b, Nobody DEF IInv, Told
  <2> QED BY <2>1, <2>2, <2>3, <2>4 DEF Told
<1> QED BY <1>1, <1>2, <1>3, <1>4, <1>5, <1>6, <1>7, <1>8, <1>9 DEF IInv

(* An aged hold is judged by a bid that is out of the auction. *)
LEMMA StepJudge ==
    ASSUME IInv, NEW b \in Bids, Judge(b)
    PROVE  IInv'
<1>n. /\ UNCHANGED <<listing, tx, holds, call, calls, runs, aged, told, crashes>>
      /\ judged' = judged \cup {b} /\ b \in aged
  BY DEF Judge
<1>b. ~Live(listing, b)
  BY DEF Judge, Claimed, Recorded, Having, Live, NoBid
<1>1. TypeOK'
  BY <1>n, <1>b, Nobody DEF IInv, TypeOK, PCs
<1>2. InDoubt'
  BY <1>n, <1>b, Nobody DEF IInv, InDoubt, NonePending, Kin, Live, Backed
<1>3. LeadersBacked'
  <2>1. ASSUME NEW c \in Bids, Live(listing, c)'
        PROVE  holds'[c] = [status |-> "RESERVED", amount |-> listing'.bids[c].amount]
    BY <2>1, <1>n, <1>b, Nobody DEF IInv, LeadersBacked, Live, Backed
  <2> QED BY <2>1 DEF LeadersBacked, Backed
<1>4. Calls'
  <2>1. ASSUME NEW v \in Callers
        PROVE  CallTells(v)'
    BY <2>1, <1>n, <1>b, Nobody DEF IInv, Calls, CallTells, Unwritten, Backed, Idle
  <2> QED BY <2>1 DEF Calls
<1>5. Alone'
  BY <1>n, <1>b, Nobody DEF IInv, Alone, IsPlacing
<1>6. Fresh'
  BY <1>n, <1>b, Nobody DEF IInv, Fresh, Unwritten
<1>7. Aged'
  BY <1>n, <1>b, Nobody DEF IInv, Aged, IsPlacing, TypeOK
<1>8. Releasing'
  <2>1. ASSUME NEW c \in Bids
        PROVE  (runs'[c] # "none" => holds'[c] # NoHold) /\ (runs'[c] = "done" => holds'[c].status = "RELEASED")
    BY <2>1, <1>n, <1>b, Nobody DEF IInv, Releasing
  <2>2. ASSUME NEW c \in Bids, runs'[c] = "running"
        PROVE  ~Live(listing, c)' /\ tx'.bid # c
    BY <2>2, <1>n, <1>b, Nobody DEF IInv, Releasing, Live
  <2>3. ASSUME NEW c \in Bids, runs'[c] = "running", NEW v \in Callers, MayWrite(v, c)'
        PROVE  listing'.bids[c] # NoBid
    BY <2>3, <1>n, <1>b, Nobody DEF IInv, Releasing, MayWrite
  <2>4. ASSUME NEW c \in Bids, runs'[c] = "running", c \in Keyed, listing'.bids[c] = NoBid
        PROVE  \E v \in Callers : call'[v].bid = c /\ call'[v].pc = "wait"
    BY <2>4, <1>n, <1>b, Nobody DEF IInv, Releasing
  <2> QED BY <2>1, <2>2, <2>3, <2>4, PlacementConstants DEF Releasing
<1>9. Told'
  <2>1. ASSUME NEW c \in Bids, <<"recorded", c>> \in told'
        PROVE  listing'.bids[c] # NoBid
    BY <2>1, <1>n, <1>b, Nobody DEF IInv, Told
  <2>2. ASSUME NEW c \in Bids, <<"refused", c>> \in told'
        PROVE  Unwritten(c)'
    BY <2>2, <1>n, <1>b, Nobody DEF IInv, Told, Unwritten
  <2>3. ASSUME NEW c \in Bids, <<"refused", c>> \in told', c \notin Buyouts \cup Troubled
        PROVE  holds'[c].status = "RELEASED"
    BY <2>3, <1>n, <1>b, Nobody DEF IInv, Told
  <2>4. ASSUME NEW c \in Bids, <<"refused", c>> \in told', NEW v \in Callers, call'[v].bid = c
        PROVE  call'[v].pc # "write" /\ (call'[v].pc = "hold" => c \in Keyed)
    BY <2>4, <1>n, <1>b, Nobody DEF IInv, Told
  <2> QED BY <2>1, <2>2, <2>3, <2>4 DEF Told
<1> QED BY <1>1, <1>2, <1>3, <1>4, <1>5, <1>6, <1>7, <1>8, <1>9 DEF IInv

(* The reconciler releases a hold that backs nothing and never will. *)
LEMMA StepReclaim ==
    ASSUME IInv, NEW b \in Bids, Reclaim(b)
    PROVE  IInv'
<1>n. UNCHANGED <<listing, tx, call, calls, runs, aged, told, crashes>> /\ judged' = judged \ {b}
  BY DEF Reclaim
<1>b. /\ b \in aged /\ ~Live(listing, b) /\ tx.bid # b
      /\ \A w \in Callers : call[w].bid = b => call[w].pc = "withdrawn"
  BY DEF Reclaim, IInv, TypeOK, Aged, IsPlacing
<1>h. /\ holds' \in [Bids -> Holds] /\ \A c \in Bids \ {b} : holds'[c] = holds[c]
      /\ holds[b] = NoHold => holds'[b] = NoHold
      /\ holds[b] # NoHold => holds'[b] # NoHold /\ holds'[b].status = "RELEASED"
      /\ \A c \in Bids : holds[c].status = "RELEASED" => holds'[c].status = "RELEASED"
  BY ReleaseEffect DEF Reclaim, IInv
<1>1. TypeOK'
  BY <1>n, <1>b, <1>h, Nobody DEF IInv, TypeOK, PCs
<1>2. InDoubt'
  BY <1>n, <1>b, <1>h, Nobody DEF IInv, InDoubt, NonePending, Kin, Live, Backed
<1>3. LeadersBacked'
  <2>1. ASSUME NEW c \in Bids, Live(listing, c)'
        PROVE  holds'[c] = [status |-> "RESERVED", amount |-> listing'.bids[c].amount]
    BY <2>1, <1>n, <1>b, <1>h, Nobody DEF IInv, LeadersBacked, Live, Backed
  <2> QED BY <2>1 DEF LeadersBacked, Backed
<1>4. Calls'
  <2>1. ASSUME NEW v \in Callers
        PROVE  CallTells(v)'
    BY <2>1, <1>n, <1>b, <1>h, Nobody DEF IInv, Calls, CallTells, Unwritten, Backed, Idle
  <2> QED BY <2>1 DEF Calls
<1>5. Alone'
  BY <1>n, <1>b, <1>h, Nobody DEF IInv, Alone, IsPlacing
<1>6. Fresh'
  BY <1>n, <1>b, <1>h, Nobody DEF IInv, Fresh, Unwritten
<1>7. Aged'
  BY <1>n, <1>b, <1>h, Nobody DEF IInv, Aged, IsPlacing, TypeOK
<1>8. Releasing'
  <2>1. ASSUME NEW c \in Bids
        PROVE  (runs'[c] # "none" => holds'[c] # NoHold) /\ (runs'[c] = "done" => holds'[c].status = "RELEASED")
    BY <2>1, <1>n, <1>b, <1>h, Nobody DEF IInv, Releasing
  <2>2. ASSUME NEW c \in Bids, runs'[c] = "running"
        PROVE  ~Live(listing, c)' /\ tx'.bid # c
    BY <2>2, <1>n, <1>b, <1>h, Nobody DEF IInv, Releasing, Live
  <2>3. ASSUME NEW c \in Bids, runs'[c] = "running", NEW v \in Callers, MayWrite(v, c)'
        PROVE  listing'.bids[c] # NoBid
    BY <2>3, <1>n, <1>b, <1>h, Nobody DEF IInv, Releasing, MayWrite
  <2>4. ASSUME NEW c \in Bids, runs'[c] = "running", c \in Keyed, listing'.bids[c] = NoBid
        PROVE  \E v \in Callers : call'[v].bid = c /\ call'[v].pc = "wait"
    BY <2>4, <1>n, <1>b, <1>h, Nobody DEF IInv, Releasing
  <2> QED BY <2>1, <2>2, <2>3, <2>4, PlacementConstants DEF Releasing
<1>9. Told'
  <2>1. ASSUME NEW c \in Bids, <<"recorded", c>> \in told'
        PROVE  listing'.bids[c] # NoBid
    BY <2>1, <1>n, <1>b, <1>h, Nobody DEF IInv, Told
  <2>2. ASSUME NEW c \in Bids, <<"refused", c>> \in told'
        PROVE  Unwritten(c)'
    BY <2>2, <1>n, <1>b, <1>h, Nobody DEF IInv, Told, Unwritten
  <2>3. ASSUME NEW c \in Bids, <<"refused", c>> \in told', c \notin Buyouts \cup Troubled
        PROVE  holds'[c].status = "RELEASED"
    BY <2>3, <1>n, <1>b, <1>h, Nobody DEF IInv, Told
  <2>4. ASSUME NEW c \in Bids, <<"refused", c>> \in told', NEW v \in Callers, call'[v].bid = c
        PROVE  call'[v].pc # "write" /\ (call'[v].pc = "hold" => c \in Keyed)
    BY <2>4, <1>n, <1>b, <1>h, Nobody DEF IInv, Told
  <2> QED BY <2>1, <2>2, <2>3, <2>4 DEF Told
<1> QED BY <1>1, <1>2, <1>3, <1>4, <1>5, <1>6, <1>7, <1>8, <1>9 DEF IInv

(* A step that changes nothing. *)
LEMMA StepStutter ==
    ASSUME IInv, UNCHANGED vars
    PROVE  IInv'
<1>n. UNCHANGED <<listing, tx, holds, call, calls, runs, aged, judged, told, crashes>>
  BY DEF vars
<1>1. TypeOK'
  BY <1>n, Nobody DEF IInv, TypeOK, PCs
<1>2. InDoubt'
  BY <1>n, Nobody DEF IInv, InDoubt, NonePending, Kin, Live, Backed
<1>3. LeadersBacked'
  <2>1. ASSUME NEW c \in Bids, Live(listing, c)'
        PROVE  holds'[c] = [status |-> "RESERVED", amount |-> listing'.bids[c].amount]
    BY <2>1, <1>n, Nobody DEF IInv, LeadersBacked, Live, Backed
  <2> QED BY <2>1 DEF LeadersBacked, Backed
<1>4. Calls'
  <2>1. ASSUME NEW v \in Callers
        PROVE  CallTells(v)'
    BY <2>1, <1>n, Nobody DEF IInv, Calls, CallTells, Unwritten, Backed, Idle
  <2> QED BY <2>1 DEF Calls
<1>5. Alone'
  BY <1>n, Nobody DEF IInv, Alone, IsPlacing
<1>6. Fresh'
  BY <1>n, Nobody DEF IInv, Fresh, Unwritten
<1>7. Aged'
  BY <1>n, Nobody DEF IInv, Aged, IsPlacing, TypeOK
<1>8. Releasing'
  <2>1. ASSUME NEW c \in Bids
        PROVE  (runs'[c] # "none" => holds'[c] # NoHold) /\ (runs'[c] = "done" => holds'[c].status = "RELEASED")
    BY <2>1, <1>n, Nobody DEF IInv, Releasing
  <2>2. ASSUME NEW c \in Bids, runs'[c] = "running"
        PROVE  ~Live(listing, c)' /\ tx'.bid # c
    BY <2>2, <1>n, Nobody DEF IInv, Releasing, Live
  <2>3. ASSUME NEW c \in Bids, runs'[c] = "running", NEW v \in Callers, MayWrite(v, c)'
        PROVE  listing'.bids[c] # NoBid
    BY <2>3, <1>n, Nobody DEF IInv, Releasing, MayWrite
  <2>4. ASSUME NEW c \in Bids, runs'[c] = "running", c \in Keyed, listing'.bids[c] = NoBid
        PROVE  \E v \in Callers : call'[v].bid = c /\ call'[v].pc = "wait"
    BY <2>4, <1>n, Nobody DEF IInv, Releasing
  <2> QED BY <2>1, <2>2, <2>3, <2>4, PlacementConstants DEF Releasing
<1>9. Told'
  <2>1. ASSUME NEW c \in Bids, <<"recorded", c>> \in told'
        PROVE  listing'.bids[c] # NoBid
    BY <2>1, <1>n, Nobody DEF IInv, Told
  <2>2. ASSUME NEW c \in Bids, <<"refused", c>> \in told'
        PROVE  Unwritten(c)'
    BY <2>2, <1>n, Nobody DEF IInv, Told, Unwritten
  <2>3. ASSUME NEW c \in Bids, <<"refused", c>> \in told', c \notin Buyouts \cup Troubled
        PROVE  holds'[c].status = "RELEASED"
    BY <2>3, <1>n, Nobody DEF IInv, Told
  <2>4. ASSUME NEW c \in Bids, <<"refused", c>> \in told', NEW v \in Callers, call'[v].bid = c
        PROVE  call'[v].pc # "write" /\ (call'[v].pc = "hold" => c \in Keyed)
    BY <2>4, <1>n, Nobody DEF IInv, Told
  <2> QED BY <2>1, <2>2, <2>3, <2>4 DEF Told
<1> QED BY <1>1, <1>2, <1>3, <1>4, <1>5, <1>6, <1>7, <1>8, <1>9 DEF IInv

-----------------------------------------------------------------------------
(* The theorems.                                                           *)

LEMMA AtFirst == Init => IInv
<1> SUFFICES ASSUME Init PROVE IInv
  OBVIOUS
<1>1. listing \in Listing /\ \A b \in Bids : listing.bids[b] = NoBid
  BY DEF Init, NewListing, Listing, ListingStatuses, Bid, Sale
<1>2. tx = NoTx /\ tx.bid = NobodysBid /\ NoBid.status = "NONE"
  BY DEF Init, NoTx, NoBid
<1>3. TypeOK
  BY <1>1, PlacementConstants DEF Init, TypeOK, Holds, Idle
<1>4. InDoubt /\ LeadersBacked
  BY <1>1, <1>2 DEF InDoubt, NonePending, LeadersBacked, Live
<1>5. Calls /\ Alone
  BY <1>1, Nobody DEF Init, Calls, CallTells, Alone, IsPlacing
<1>6. Fresh /\ Aged
  BY <1>1, <1>2, Nobody DEF Init, Fresh, Unwritten, Aged
<1>7. Releasing /\ Told
  BY PlacementConstants DEF Init, Releasing, Told
<1> QED BY <1>3, <1>4, <1>5, <1>6, <1>7 DEF IInv

LEMMA EveryStep == ServedWell /\ IInv /\ [Next]_vars => IInv'
<1> SUFFICES ASSUME ServedWell, IInv, [Next]_vars PROVE IInv'
  OBVIOUS
<1>1. ASSUME NEW w \in Callers, NEW b \in Bids, NEW n \in Amounts, Begin(w, b, n) PROVE IInv'
  BY <1>1, StepBegin
<1>2. ASSUME NEW w \in Callers, NEW b \in Bids, Begin(w, b, BuyoutPrice) PROVE IInv'
  BY <1>2, StepBegin
<1>3. ASSUME NEW w \in Callers, NEW b \in Bids, Withdrawn(w, b) PROVE IInv'
  BY <1>3, StepWithdrawn
<1>4. ASSUME NEW w \in Callers, Proceed(w) PROVE IInv'
  BY <1>4, StepHold, StepWrite, StepUnanswered, StepBusy, StepStartRelease, StepWaited DEF Proceed
<1>5. ASSUME NEW w \in Callers, Crash(w) PROVE IInv'
  BY <1>5, StepCrash
<1>6. ASSUME Resolve PROVE IInv'
  BY <1>6, StepCommits, StepRollsBack DEF Resolve, Unlocked, UnchangedReconciler
<1>7. ASSUME FreezeListing PROVE IInv'
  BY <1>7, StepFreeze
<1>8. ASSUME NEW b \in Bids, RunRelease(b) \/ Reconcile(b) PROVE IInv'
  BY <1>8, StepRunRelease, StepAge, StepJudge, StepReclaim DEF Reconcile
<1>9. ASSUME UNCHANGED vars PROVE IInv'
  BY <1>9, StepStutter
<1> QED BY <1>1, <1>2, <1>3, <1>4, <1>5, <1>6, <1>7, <1>8, <1>9 DEF Next

LEMMA Inductive == ServedWell => (Spec => []IInv)
<1> SUFFICES ASSUME ServedWell PROVE Spec => []IInv
  OBVIOUS
<1>1. IInv /\ [Next]_vars => IInv'
  BY EveryStep
<1> QED BY AtFirst, <1>1, PTL DEF Spec

(* The state stays within its types, and a listing's bids within theirs. *)
THEOREM TypeCorrect == ServedWell => (Spec => []TypeOK)
<1>1. IInv => TypeOK
  BY DEF IInv
<1> QED BY Inductive, <1>1, PTL

(* Whatever is retried, released late, reconciled or lost: every bid that leads
   or may lead again has its gold reserved, to the coin. *)
THEOREM LeaderBackedCorrect == ServedWell => (Spec => []LeaderBacked)
<1>1. IInv => LeaderBacked
  BY DEF IInv, LeadersBacked, LeaderBacked, Having, Live, Backed
<1> QED BY Inductive, <1>1, PTL

(* What a bidder was told of a bid, refused or recorded, stays true. *)
THEOREM RefusalsFinalCorrect == ServedWell => (Spec => []RefusalsFinal)
<1>1. IInv => RefusalsFinal
  BY DEF IInv, Told, Unwritten, RefusalsFinal, Recorded
<1> QED BY Inductive, <1>1, PTL

(* Where nothing outlasts the wait, a refusal is heard of once the gold is back. *)
THEOREM RefusedGoldBackCorrect == ServedWell => (Spec => []RefusedGoldBack)
<1>1. IInv => RefusedGoldBack
  BY DEF IInv, Told, RefusedGoldBack
<1> QED BY Inductive, <1>1, PTL
=============================================================================
