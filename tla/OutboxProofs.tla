---------------------------- MODULE OutboxProofs ----------------------------
(***************************************************************************)
(* Proofs about module Outbox, for any events, services, relays, handlers, *)
(* batch sizes, bounds on the retries and number of failures: an event     *)
(* marked published is not lost, if a publish that returns no error has    *)
(* reached the broker (AtLeastOnce); while nothing fails there is one copy *)
(* of it at most (OneCopy); it is parked for its own fault only            *)
(* (ParkedIsEarned); and each step is one of Delivery's or leaves what     *)
(* Delivery speaks of alone.                                               *)
(*                                                                         *)
(* The argument: a row in an open batch is pending and nobody else's       *)
(* (Locks), so it is published once unless a step fails (Single); what a   *)
(* relay has sent is alive before the row is marked (SentAlive), and a     *)
(* copy leaves the handlers only for work done, a queue or the parked      *)
(* (AliveStep); a copy's attempts are misses and failures there were       *)
(* (Tries); and the mark of an event stands for its work (Marked).         *)
(***************************************************************************)
EXTENDS Outbox, FiniteSetTheorems, TLAPS

Alive(e) ==
    \/ done[e] > 0 \/ e \in parked
    \/ \E c \in BagToSet(queue) : c.ev = e
    \/ \E h \in Handlers : hand[h].copy.ev = e

\* a copy of e is in a queue or in a handler's hands
Has(q, hd, e) ==
    \/ \E c \in BagToSet(q) : c.ev = e
    \/ \E h \in Handlers : hd[h].copy.ev = e

\* of each event there is one copy at most
Lone(q, hd) ==
    /\ \A c \in BagToSet(q) : q[c] = 1
    /\ \A c, d \in BagToSet(q) : c.ev = d.ev => c = d
    /\ \A g, h \in Handlers : hd[g] # Empty /\ hd[g].copy.ev = hd[h].copy.ev => g = h
    /\ \A h \in Handlers : \A c \in BagToSet(q) : hd[h].copy.ev # c.ev

\* whatever goes about is of a row that was written
Written(e) == row[e] # "none"

Recorded ==
    /\ \A c \in BagToSet(queue) : Written(c.ev)
    /\ \A h \in Handlers : hand[h] # Empty => Written(hand[h].copy.ev)
    /\ \A w \in Relays : \A e \in relay[w].left \cup relay[w].sent : Written(e)
    /\ \A e \in Events : done[e] > 0 \/ e \in parked => Written(e)

\* the mark and the work go together, but for the work a wallet's call did
Marked ==
    /\ \A e \in Events : done[e] \in 0..1
    /\ \A e \in inbox : done[e] = 1
    /\ \A e \in Events : Policy[e] # "wallet" /\ e \notin inbox => done[e] = 0
    /\ \A h \in Handlers :
          /\ hand[h].res = "ack" => done[hand[h].copy.ev] = 1
          /\ hand[h].res = "bad" => hand[h].copy.ev \in Bad

\* an attempt that counted was a row missed or a failure
Earned(e, n) ==
    /\ Policy[e] = "items" => n <= misses[e]
    /\ Policy[e] = "wallet" => n <= trouble + misses[e]

Tries ==
    /\ \A c \in BagToSet(queue) : Earned(c.ev, c.tries)
    /\ \A h \in Handlers : hand[h] # Empty =>
          /\ Earned(hand[h].copy.ev, hand[h].copy.tries)
          /\ hand[h].res \in {"missing", "outage"} => Earned(hand[h].copy.ev, Again(h).tries)

\* an open batch is of pending rows, and nobody else's
Locks ==
    /\ \A w \in Relays :
          /\ relay[w].left \cup relay[w].sent \subseteq relay[w].locked
          /\ relay[w].left \cap relay[w].sent = {}
          /\ relay[w].open => \A e \in relay[w].locked : row[e] = "pending"
    /\ \A v, w \in Relays : relay[v].open /\ relay[w].open /\ v # w =>
          relay[v].locked \cap relay[w].locked = {}

\* while nothing fails, what has gone out is marked or about to be, and is one copy
Single ==
    trouble = 0 =>
        /\ \A w \in Relays : relay[w].open \/ relay[w] = IdleRelay
        /\ \A e \in Events : Has(queue, hand, e) =>
              row[e] = "sent" \/ \E w \in Relays : relay[w].open /\ e \in relay[w].sent
        /\ Lone(queue, hand)

SentAlive == Confirmed => \A w \in Relays : \A e \in relay[w].sent : Alive(e)

MarkedAlive == Confirmed => AtLeastOnce

IInv ==
    /\ TypeOK /\ Recorded /\ Marked /\ Tries /\ Locks /\ Single
    /\ SentAlive /\ MarkedAlive /\ ParkedIsEarned

-----------------------------------------------------------------------------
(* One copy more in a bag, and one copy less.                              *)

LEMMA OneIs == ASSUME NEW c PROVE DOMAIN One(c) = {c} /\ One(c)[c] = 1
BY DEF One, SetToBag

LEMMA PutCopy ==
    ASSUME NEW Q, IsABag(Q), NEW c
    PROVE  /\ IsABag(Q (+) One(c))
           /\ BagToSet(Q (+) One(c)) = BagToSet(Q) \cup {c}
           /\ \A d \in BagToSet(Q) : d # c => (Q (+) One(c))[d] = Q[d]
           /\ c \notin BagToSet(Q) => (Q (+) One(c))[c] = 1
<1> DEFINE n(d) == (IF d \in DOMAIN Q THEN Q[d] ELSE 0) + (IF d \in DOMAIN One(c) THEN One(c)[d] ELSE 0)
<1> DEFINE R == [d \in (DOMAIN Q) \cup (DOMAIN One(c)) |-> n(d)]
<1>1. DOMAIN One(c) = {c} /\ One(c)[c] = 1
  BY OneIs
<1>2. Q \in [DOMAIN Q -> {k \in Nat : k > 0}]
  BY DEF IsABag
<1>3. Q (+) One(c) = R
  BY DEF (+)
<1>4. DOMAIN R = DOMAIN Q \cup {c}
  BY <1>1
<1>5. \A d \in DOMAIN Q : Q[d] \in Nat /\ Q[d] > 0
  BY <1>2
<1>6. \A d \in DOMAIN R : n(d) \in {k \in Nat : k > 0}
  BY <1>1, <1>4, <1>5
<1>7. R \in [DOMAIN R -> {k \in Nat : k > 0}]
  BY <1>6
<1>8. \A d \in DOMAIN Q : d # c => R[d] = Q[d]
  BY <1>1, <1>5
<1>9. c \notin DOMAIN Q => R[c] = 1
  BY <1>1
<1> HIDE DEF R
<1> QED BY <1>3, <1>4, <1>7, <1>8, <1>9 DEF IsABag, BagToSet

LEMMA TakeCopy ==
    ASSUME NEW Q, IsABag(Q), NEW c \in BagToSet(Q)
    PROVE  /\ IsABag(Q (-) One(c))
           /\ BagToSet(Q (-) One(c)) \subseteq BagToSet(Q)
           /\ BagToSet(Q) \ {c} \subseteq BagToSet(Q (-) One(c))
           /\ \A d \in BagToSet(Q (-) One(c)) : d # c => (Q (-) One(c))[d] = Q[d]
           /\ Q[c] = 1 => c \notin BagToSet(Q (-) One(c))
<1> DEFINE B == [d \in DOMAIN Q |-> IF d \in DOMAIN One(c) THEN Q[d] - One(c)[d] ELSE Q[d]]
<1> DEFINE R == [d \in {e \in DOMAIN B : B[e] > 0} |-> B[d]]
<1>1. DOMAIN One(c) = {c} /\ One(c)[c] = 1
  BY OneIs
<1>2. Q \in [DOMAIN Q -> {k \in Nat : k > 0}] /\ c \in DOMAIN Q
  BY DEF IsABag, BagToSet
<1>3. Q (-) One(c) = R
  BY DEF (-)
<1>4. \A d \in DOMAIN Q : Q[d] \in Nat /\ Q[d] > 0
  BY <1>2
<1>5. DOMAIN B = DOMAIN Q /\ \A d \in DOMAIN Q : B[d] = IF d = c THEN Q[d] - 1 ELSE Q[d]
  BY <1>1
<1> HIDE DEF B
<1>6. \A d \in DOMAIN Q : B[d] \in Int /\ (B[d] > 0 => B[d] \in Nat)
  BY <1>4, <1>5
<1>7. DOMAIN R \subseteq DOMAIN Q /\ (\A d \in DOMAIN R : R[d] = B[d] /\ B[d] > 0)
      /\ (\A d \in DOMAIN Q : B[d] > 0 => d \in DOMAIN R)
  BY <1>5
<1>7a. IsABag(R)
  <2>1. \A d \in DOMAIN R : R[d] \in {k \in Nat : k > 0}
    BY <1>6, <1>7
  <2>2. R = [d \in DOMAIN R |-> R[d]]
    OBVIOUS
  <2> HIDE DEF R
  <2> QED BY <2>1, <2>2 DEF IsABag
<1> HIDE DEF R
<1>8. \A d \in DOMAIN Q : d # c => d \in DOMAIN R /\ R[d] = Q[d]
  BY <1>4, <1>5, <1>7
<1>9. Q[c] = 1 => c \notin DOMAIN R
  BY <1>2, <1>4, <1>5, <1>7
<1> QED BY <1>3, <1>7, <1>7a, <1>8, <1>9 DEF BagToSet

-----------------------------------------------------------------------------
(* Parts of the steps.                                                     *)

LEMMA CopyType == \A e \in Events : Copy(e) \in Copies /\ Copy(e).ev = e /\ Copy(e).tries = 0
BY DEF Copy, Copies

LEMMA EmptyHand == Empty.res = "none" /\ Empty.copy.ev \notin Events
BY OutboxConstants DEF Empty, Copy

\* A hand that has a copy has one of an event, and what became of it.
LEMMA FullHand ==
    ASSUME TypeOK, NEW h \in Handlers
    PROVE  /\ hand[h] = Empty <=> hand[h].res = "none"
           /\ hand[h] # Empty => /\ hand[h].copy \in Copies /\ hand[h].copy.ev \in Events
                                 /\ hand[h].res \in {"ack", "bad", "missing", "outage"}
           /\ hand[h] = Empty => hand[h].copy.ev \notin Events
BY EmptyHand DEF TypeOK, Copies

\* Another attempt is the same event's, and one more or as many.
LEMMA AgainIs ==
    ASSUME TypeOK, NEW h \in Handlers, hand[h] # Empty
    PROVE  /\ Again(h) \in Copies /\ Again(h).ev = hand[h].copy.ev
           /\ Again(h).tries = IF Counts(Policy[hand[h].copy.ev], hand[h].res)
                               THEN hand[h].copy.tries + 1 ELSE hand[h].copy.tries
<1>1. hand[h].copy \in [ev : Events, tries : Nat]
  BY FullHand DEF Copies
<1> QED BY <1>1 DEF Again, Copies

LEMMA EarliestAreOf == \A S, n : Earliest(S, n) \subseteq S
BY DEF Earliest

\* Rows are added and marked, and none goes.
LEMMA InsertEffect ==
    ASSUME TypeOK, NEW e, e \in Events \cup {NoEvent}, Insert(e)
    PROVE  /\ row' \in [Events -> {"none", "pending", "sent"}] /\ created' \in [Events -> Nat]
           /\ \A f \in Events : /\ row[f] # "none" => row'[f] = row[f]
                                /\ f # e => row'[f] = row[f]
                                /\ row'[f] # row[f] => row'[f] = "pending"
           /\ e \in Events => row'[e] # "none"
<1>1. CASE e = NoEvent \/ row[e] # "none"
  BY <1>1, OutboxConstants DEF Insert, table, TypeOK
<1>2. CASE ~(e = NoEvent \/ row[e] # "none")
  <2>1. /\ row' = [row EXCEPT ![e] = "pending"]
        /\ created' = [created EXCEPT ![e] = Cardinality({f \in Events : row[f] # "none"})]
    BY <1>2 DEF Insert
  <2>2. {f \in Events : row[f] # "none"} \subseteq Events /\ IsFiniteSet(Events)
    BY OutboxConstants
  <2>3. Cardinality({f \in Events : row[f] # "none"}) \in Nat
    BY <2>2, FS_Subset, FS_CardinalityType
  <2> QED BY <1>2, <2>1, <2>3 DEF TypeOK
<1> QED BY <1>1, <1>2

\* The work marks its event, or did before, and counts once.
LEMMA WorkEffect ==
    ASSUME TypeOK, NEW e \in Events, Work(e)
    PROVE  /\ row' \in [Events -> {"none", "pending", "sent"}] /\ created' \in [Events -> Nat]
           /\ \A f \in Events : /\ row[f] # "none" => row'[f] = row[f]
                                /\ f # Follows[e] => row'[f] = row[f]
                                /\ row'[f] # row[f] => row'[f] = "pending"
           /\ inbox' = inbox \cup {e}
           /\ e \in inbox => row' = row /\ done' = done
           /\ e \notin inbox => done' = [done EXCEPT ![e] = @ + 1] /\ Insert(Follows[e])
           /\ done' \in [Events -> Nat]
<1>1. CASE e \in inbox
  BY <1>1 DEF Work, work, table, TypeOK
<1>2. CASE e \notin inbox
  <2>1. Insert(Follows[e]) /\ inbox' = inbox \cup {e} /\ done' = [done EXCEPT ![e] = @ + 1]
    BY <1>2 DEF Work
  <2>2. Follows[e] \in Events \cup {NoEvent}
    BY OutboxConstants
  <2> QED BY <1>2, <2>1, <2>2, InsertEffect DEF TypeOK
<1> QED BY <1>1, <1>2

\* A handler takes a copy.
LEMMA TakenEffect ==
    ASSUME TypeOK, NEW h \in Handlers, NEW c \in BagToSet(queue),
           NEW res \in {"ack", "bad", "missing", "outage"}, Taken(h, c, res)
    PROVE  /\ IsABag(queue') /\ BagToSet(queue') \subseteq BagToSet(queue)
           /\ BagToSet(queue) \ {c} \subseteq BagToSet(queue')
           /\ \A d \in BagToSet(queue') : d # c => queue'[d] = queue[d]
           /\ queue[c] = 1 => c \notin BagToSet(queue')
           /\ hand[h] = Empty /\ c \in Copies
           /\ hand' = [hand EXCEPT ![h] = [copy |-> c, res |-> res]]
           /\ hand' \in [Handlers -> {Empty} \cup [copy : Copies, res : {"ack", "bad", "missing", "outage"}]]
BY TakeCopy DEF TypeOK, Taken

\* A handler lets its copy go.
LEMMA ReleaseEffect ==
    ASSUME TypeOK, NEW h \in Handlers, Release(h)
    PROVE  /\ hand' = [hand EXCEPT ![h] = Empty]
           /\ hand' \in [Handlers -> {Empty} \cup [copy : Copies, res : {"ack", "bad", "missing", "outage"}]]
BY DEF TypeOK, Release

LEMMA FreeEffect ==
    ASSUME TypeOK, NEW w \in Relays, Free(w)
    PROVE  relay' = [relay EXCEPT ![w] = IdleRelay] /\ relay' \in [Relays -> Batch]
BY DEF TypeOK, Free, IdleRelay, Batch

LEMMA SentEffect ==
    ASSUME TypeOK, NEW w \in Relays
    PROVE  /\ Sent(w) \in [Events -> {"none", "pending", "sent"}]
           /\ \A e \in Events : Sent(w)[e] = IF e \in relay[w].sent THEN "sent" ELSE row[e]
BY DEF TypeOK, Sent

\* A copy of e joins the queue.
LEMMA SendEffect ==
    ASSUME TypeOK, NEW c \in Copies
    PROVE  /\ IsABag(queue (+) One(c)) /\ BagToSet(queue (+) One(c)) \subseteq Copies
           /\ BagToSet(queue (+) One(c)) = BagToSet(queue) \cup {c}
BY PutCopy DEF TypeOK

-----------------------------------------------------------------------------
(* The kinds of steps: a row is added; a handler takes a copy up; a relay  *)
(* publishes.                                                              *)

Adds(e) ==
    /\ Insert(e) /\ UNCHANGED <<relay, broker, work, missing, misses>>
    /\ UNCHANGED trouble \/ Fails

TakesUp(h, c, res) ==
    /\ Taken(h, c, res) /\ UNCHANGED <<relay, parked, missing>>
    /\ IF res = "missing" THEN misses' = [misses EXCEPT ![c.ev] = @ + 1] ELSE UNCHANGED misses
    /\ IF res = "outage" THEN Fails ELSE UNCHANGED trouble
    /\ UNCHANGED <<work, table>> \/ (~Refused(c.ev) /\ Work(c.ev))
    /\ res = "ack" => Refused(c.ev) \/ Work(c.ev)
    /\ res = "bad" => c.ev \in Bad

Publishes(w) ==
    \/ \E e \in relay[w].left : queue' = queue (+) One(Copy(e))
    \/ UNCHANGED queue

Step(e) == Adds(e) \/ DirectWork(e) \/ ReferenceAppears(e)

Results == {"ack", "bad", "missing", "outage"}

Handles(h) ==
    \/ \E c \in BagToSet(queue), res \in Results : TakesUp(h, c, res)
    \/ Ack(h) \/ Settle(h) \/ SettleFails(h) \/ Die(h)

LEMMA ProcessTakesUp ==
    ASSUME NEW h \in Handlers, Process(h) \/ ProcessFails(h)
    PROVE  \E c \in BagToSet(queue), res \in Results : TakesUp(h, c, res)
<1>1. CASE Process(h)
  <2>1. PICK c \in BagToSet(queue) :
          /\ IF c.ev \in Bad
             THEN Taken(h, c, "bad") /\ UNCHANGED <<work, table, misses>>
             ELSE IF c.ev \in missing \ inbox
             THEN /\ Taken(h, c, "missing")
                  /\ misses' = [misses EXCEPT ![c.ev] = @ + 1]
                  /\ UNCHANGED <<work, table>>
             ELSE /\ Taken(h, c, "ack") /\ UNCHANGED misses
                  /\ IF Refused(c.ev) THEN UNCHANGED <<work, table>> ELSE Work(c.ev)
          /\ UNCHANGED <<relay, parked, missing, trouble>>
    BY <1>1 DEF Process
  <2>2. CASE c.ev \in Bad
    <3>1. TakesUp(h, c, "bad")
      BY <2>1, <2>2 DEF TakesUp
    <3> QED BY <3>1 DEF Results
  <2>3. CASE c.ev \notin Bad /\ c.ev \in missing \ inbox
    <3>1. TakesUp(h, c, "missing")
      BY <2>1, <2>3 DEF TakesUp
    <3> QED BY <3>1 DEF Results
  <2>4. CASE c.ev \notin Bad /\ c.ev \notin missing \ inbox
    <3>1. TakesUp(h, c, "ack")
      BY <2>1, <2>4 DEF TakesUp
    <3> QED BY <3>1 DEF Results
  <2> QED BY <2>2, <2>3, <2>4
<1>2. CASE ProcessFails(h)
  <2>1. PICK c \in BagToSet(queue) :
          /\ Fails /\ Taken(h, c, "outage")
          /\ \/ UNCHANGED <<work, table>>
             \/ ~Refused(c.ev) /\ Work(c.ev)
          /\ UNCHANGED <<relay, parked, missing, misses>>
    BY <1>2 DEF ProcessFails
  <2>2. TakesUp(h, c, "outage")
    BY <2>1 DEF TakesUp
  <2> QED BY <2>2 DEF Results
<1> QED BY <1>1, <1>2

LEMMA NextIs ==
    ASSUME Next
    PROVE  \/ \E e \in Events : Step(e)
           \/ \E w \in Relays : Relaying(w)
           \/ \E h \in Handlers : Handles(h)
<1>1. ASSUME NEW e \in Events, Record(e) \/ RecordAgain(e) \/ DirectWork(e) \/ ReferenceAppears(e)
      PROVE  Step(e)
  BY <1>1 DEF Record, RecordAgain, Step, Adds, broker, work
<1>2. ASSUME NEW h \in Handlers, Handling(h)
      PROVE  Handles(h)
  BY <1>2, ProcessTakesUp DEF Handling, Handles
<1> QED BY <1>1, <1>2 DEF Next

\* What TakesUp does to the tables and the counts.
LEMMA TakesUpEffect ==
    ASSUME TypeOK, NEW h \in Handlers, NEW c \in BagToSet(queue), NEW res \in Results, TakesUp(h, c, res)
    PROVE  /\ row' \in [Events -> {"none", "pending", "sent"}] /\ created' \in [Events -> Nat]
           /\ \A f \in Events : /\ row[f] # "none" => row'[f] = row[f]
                                /\ row'[f] # row[f] => row'[f] = "pending"
           /\ inbox \subseteq inbox' /\ inbox' \subseteq inbox \cup {c.ev}
           /\ done' \in [Events -> Nat] /\ misses' \in [Events -> Nat]
           /\ \A f \in Events : /\ done[f] =< done'[f] /\ misses[f] =< misses'[f]
                                /\ f # c.ev => done'[f] = done[f]
           /\ c.ev \in Events
<1>1. c \in Copies /\ c.ev \in Events
  BY DEF TypeOK, Copies
<1>2. CASE UNCHANGED <<work, table>>
  BY <1>1, <1>2 DEF TakesUp, TypeOK, work, table
<1>3. CASE Work(c.ev)
  <2>1. /\ row' \in [Events -> {"none", "pending", "sent"}] /\ created' \in [Events -> Nat]
        /\ \A f \in Events : /\ row[f] # "none" => row'[f] = row[f]
                             /\ row'[f] # row[f] => row'[f] = "pending"
        /\ inbox' = inbox \cup {c.ev} /\ done' \in [Events -> Nat]
    BY <1>1, <1>3, WorkEffect
  <2>2. \A f \in Events : done[f] =< done'[f] /\ (f # c.ev => done'[f] = done[f])
    BY <1>1, <1>3, WorkEffect DEF TypeOK
  <2>3. misses' \in [Events -> Nat] /\ \A f \in Events : misses[f] =< misses'[f]
    BY <1>1 DEF TakesUp, TypeOK
  <2> QED BY <1>1, <2>1, <2>2, <2>3
<1> QED BY <1>2, <1>3 DEF TakesUp

-----------------------------------------------------------------------------
(* Types.                                                                  *)

LEMMA FailsEffect == ASSUME TypeOK, Fails PROVE trouble' \in 0..MaxTrouble /\ trouble' = trouble + 1
BY OutboxConstants DEF TypeOK, Fails

\* What a relay publishes, if anything, is a copy of a row it has.
LEMMA PublishesEffect ==
    ASSUME TypeOK, NEW w \in Relays, Publishes(w)
    PROVE  IsABag(queue') /\ BagToSet(queue') \subseteq Copies
<1>1. ASSUME NEW e \in relay[w].left, queue' = queue (+) One(Copy(e))
      PROVE  IsABag(queue') /\ BagToSet(queue') \subseteq Copies
  <2>1. e \in Events
    BY DEF TypeOK, Batch
  <2> QED BY <1>1, <2>1, CopyType, SendEffect
<1>2. CASE UNCHANGED queue
  BY <1>2 DEF TypeOK
<1> QED BY <1>1, <1>2 DEF Publishes

LEMMA RelaysPublish ==
    ASSUME NEW w \in Relays
    PROVE  Publish(w) \/ PublishFails(w) \/ HungPublish(w) => Publishes(w)
BY EarliestAreOf DEF Publish, PublishFails, HungPublish, Publishes

LEMMA TypeStepEvent ==
    ASSUME TypeOK, NEW e \in Events, Step(e)
    PROVE  TypeOK'
<1>1. CASE Adds(e)
  <2>1. /\ row' \in [Events -> {"none", "pending", "sent"}] /\ created' \in [Events -> Nat]
        /\ trouble' \in 0..MaxTrouble
    BY <1>1, InsertEffect, FailsEffect DEF Adds, TypeOK
  <2> QED BY <1>1, <2>1 DEF Adds, TypeOK, broker, work
<1>2. CASE DirectWork(e)
  <2>1. CASE Policy[e] = "wallet"
    BY <1>2, <2>1 DEF DirectWork, TypeOK, table, broker
  <2>2. CASE Policy[e] # "wallet"
    <3>1. Work(e) /\ UNCHANGED <<relay, broker, missing, misses, trouble>>
      BY <1>2, <2>2 DEF DirectWork
    <3> QED BY <3>1, WorkEffect DEF TypeOK, broker
  <2> QED BY <2>1, <2>2
<1>3. CASE ReferenceAppears(e)
  BY <1>3 DEF ReferenceAppears, TypeOK, table, broker, work
<1> QED BY <1>1, <1>2, <1>3 DEF Step

LEMMA TypeStepRelay ==
    ASSUME TypeOK, NEW w \in Relays, Relaying(w)
    PROVE  TypeOK'
<1>1. CASE Lock(w)
  <2>1. \A S \in SUBSET Events : \A n : Earliest(S, n) \in SUBSET Events
    BY EarliestAreOf
  <2>2. relay' \in [Relays -> Batch]
    BY <1>1, <2>1 DEF Lock, TypeOK, Batch
  <2> QED BY <1>1, <2>2 DEF Lock, TypeOK, table, broker, work
<1>2. CASE Publish(w)
  <2>1. IsABag(queue') /\ BagToSet(queue') \subseteq Copies
    BY <1>2, RelaysPublish, PublishesEffect
  <2>2. PICK e \in relay[w].left :
            relay' = [relay EXCEPT ![w].left = @ \ {e}, ![w].sent = @ \cup {e}]
    BY <1>2, EarliestAreOf DEF Publish
  <2>3. relay' \in [Relays -> Batch]
    <3>1. /\ relay[w].left \ {e} \in SUBSET Events /\ relay[w].sent \cup {e} \in SUBSET Events
          /\ relay \in [Relays -> Batch]
      BY DEF TypeOK, Batch
    <3> QED BY <2>2, <3>1 DEF Batch
  <2>4. trouble' \in 0..MaxTrouble
    BY <1>2, FailsEffect DEF Publish, TypeOK
  <2> QED BY <1>2, <2>1, <2>3, <2>4 DEF Publish, TypeOK, table, work
<1>3. CASE PublishFails(w)
  <2>1. IsABag(queue') /\ BagToSet(queue') \subseteq Copies
    BY <1>3, RelaysPublish, PublishesEffect
  <2>2. relay' \in [Relays -> Batch] /\ trouble' \in 0..MaxTrouble
    BY <1>3, FailsEffect DEF PublishFails, EndBatch, TypeOK, Batch
  <2> QED BY <1>3, <2>1, <2>2 DEF PublishFails, TypeOK, table, work
<1>4. CASE OutOfTime(w)
  BY <1>4 DEF OutOfTime, EndBatch, TypeOK, Batch, table, broker, work
<1>5. CASE Mark(w)
  BY <1>5, FreeEffect, SentEffect DEF Mark, TypeOK, broker, work
<1>6. CASE MarkFails(w)
  BY <1>6, FreeEffect, SentEffect, FailsEffect DEF MarkFails, TypeOK, broker, work
<1>7. CASE Expire(w)
  <2>1. relay' \in [Relays -> Batch] /\ trouble' \in 0..MaxTrouble
    <3>1. [relay EXCEPT ![w].open = FALSE] \in [Relays -> Batch]
      BY DEF TypeOK, Batch
    <3>2. trouble' \in 0..MaxTrouble
      BY <1>7, FailsEffect DEF Expire
    <3> QED BY <1>7, <3>1, <3>2, FreeEffect DEF Expire
  <2> QED BY <1>7, <2>1 DEF Expire, TypeOK, table, broker, work
<1>8. CASE HungPublish(w)
  <2>1. IsABag(queue') /\ BagToSet(queue') \subseteq Copies
    BY <1>8, RelaysPublish, PublishesEffect
  <2> QED BY <1>8, <2>1, FreeEffect DEF HungPublish, TypeOK, table, work
<1> QED BY <1>1, <1>2, <1>3, <1>4, <1>5, <1>6, <1>7, <1>8 DEF Relaying

\* A handled copy that goes back to a queue is a copy of the same event.
LEMMA BackEffect ==
    ASSUME TypeOK, NEW h \in Handlers, hand[h] # Empty
    PROVE  /\ IsABag(queue (+) One(hand[h].copy)) /\ BagToSet(queue (+) One(hand[h].copy)) \subseteq Copies
           /\ IsABag(queue (+) One(Again(h))) /\ BagToSet(queue (+) One(Again(h))) \subseteq Copies
           /\ IsABag(queue (+) One(hand[h].copy) (+) One(Again(h)))
           /\ BagToSet(queue (+) One(hand[h].copy) (+) One(Again(h)))
                = BagToSet(queue) \cup {hand[h].copy, Again(h)}
           /\ BagToSet(queue) \cup {hand[h].copy, Again(h)} \subseteq Copies
<1>1. hand[h].copy \in Copies /\ Again(h) \in Copies
  BY FullHand, AgainIs
<1>2. IsABag(queue (+) One(hand[h].copy))
      /\ BagToSet(queue (+) One(hand[h].copy)) = BagToSet(queue) \cup {hand[h].copy}
  BY <1>1, SendEffect
<1>3. IsABag(queue (+) One(hand[h].copy) (+) One(Again(h)))
      /\ BagToSet(queue (+) One(hand[h].copy) (+) One(Again(h)))
           = BagToSet(queue (+) One(hand[h].copy)) \cup {Again(h)}
  BY <1>2, PutCopy
<1>4. BagToSet(queue) \subseteq Copies
  BY DEF TypeOK
<1> QED BY <1>1, <1>2, <1>3, <1>4, SendEffect

LEMMA TypeStepHandler ==
    ASSUME TypeOK, NEW h \in Handlers, Handles(h)
    PROVE  TypeOK'
<1>1. ASSUME NEW c \in BagToSet(queue), NEW res \in Results, TakesUp(h, c, res)
      PROVE  TypeOK'
  <2>1. Taken(h, c, res) /\ UNCHANGED <<relay, parked, missing>>
    BY <1>1 DEF TakesUp
  <2>2. /\ IsABag(queue') /\ BagToSet(queue') \subseteq Copies
        /\ hand' \in [Handlers -> {Empty} \cup [copy : Copies, res : {"ack", "bad", "missing", "outage"}]]
    BY <2>1, TakenEffect DEF Results, TypeOK
  <2>3. trouble' \in 0..MaxTrouble
    BY <1>1, FailsEffect DEF TakesUp, TypeOK
  <2>4. inbox' \subseteq Events
    BY <1>1, TakesUpEffect DEF TypeOK
  <2> QED BY <1>1, <2>1, <2>2, <2>3, <2>4, TakesUpEffect DEF TypeOK
<1>2. CASE Ack(h)
  BY <1>2, ReleaseEffect DEF Ack, TypeOK, table, work
<1>3. CASE Settle(h)
  <2>1. hand[h] # Empty
    BY <1>3, FullHand DEF Settle, Handled
  <2>2. /\ IsABag(queue') /\ BagToSet(queue') \subseteq Copies /\ parked' \subseteq Events
        /\ UNCHANGED <<table, relay, work, missing, misses, trouble>> /\ Release(h)
    BY <1>3, <2>1, BackEffect, FullHand DEF Settle, TypeOK
  <2> QED BY <2>2, ReleaseEffect DEF TypeOK, table, work
<1>4. CASE SettleFails(h)
  <2>1. hand[h] # Empty
    BY <1>4, FullHand DEF SettleFails, Handled
  <2>2. IsABag(queue') /\ BagToSet(queue') \subseteq Copies
    BY <1>4, <2>1, BackEffect DEF SettleFails
  <2>3. Release(h) /\ trouble' \in 0..MaxTrouble /\ UNCHANGED <<table, relay, parked, work, missing, misses>>
    BY <1>4, FailsEffect DEF SettleFails
  <2> QED BY <2>2, <2>3, ReleaseEffect DEF TypeOK, table, work
<1>5. CASE Die(h)
  <2>1. IsABag(queue') /\ BagToSet(queue') \subseteq Copies
    BY <1>5, BackEffect DEF Die
  <2>2. Release(h) /\ trouble' \in 0..MaxTrouble /\ UNCHANGED <<table, relay, parked, work, missing, misses>>
    BY <1>5, FailsEffect DEF Die
  <2> QED BY <2>1, <2>2, ReleaseEffect DEF TypeOK, table, work
<1> QED BY <1>1, <1>2, <1>3, <1>4, <1>5 DEF Handles

LEMMA TypeStep == ASSUME TypeOK, [Next]_vars PROVE TypeOK'
<1>1. CASE Next
  BY <1>1, NextIs, TypeStepEvent, TypeStepRelay, TypeStepHandler
<1>2. CASE UNCHANGED vars
  BY <1>2 DEF vars, table, work, broker, TypeOK
<1> QED BY <1>1, <1>2

LEMMA TypeInit == ASSUME Init PROVE TypeOK
<1>1. IsABag(EmptyBag) /\ BagToSet(EmptyBag) = {}
  BY DEF IsABag, BagToSet, EmptyBag, SetToBag
<1>2. IdleRelay \in Batch
  BY DEF IdleRelay, Batch
<1>3. missing \subseteq Late /\ trouble \in 0..MaxTrouble
  BY OutboxConstants DEF Init
<1> QED BY <1>1, <1>2, <1>3 DEF Init, TypeOK

-----------------------------------------------------------------------------
(* What every step keeps, and where copies come from.                      *)

LEMMA EventStepKeeps ==
    ASSUME TypeOK, NEW e \in Events, Step(e)
    PROVE  /\ UNCHANGED <<relay, broker, misses>> /\ inbox \subseteq inbox'
           /\ trouble' = trouble \/ Fails
           /\ \A f \in Events : /\ row[f] # "none" => row'[f] = row[f]
                                /\ row'[f] # row[f] => row'[f] = "pending"
                                /\ done[f] =< done'[f]
           /\ \A f \in Events : done'[f] # done[f] => f = e /\ row[e] # "none" /\ done[e] = 0
<1>0. \A f \in Events : done[f] \in Nat
  BY DEF TypeOK
<1>1. CASE Adds(e)
  BY <1>0, <1>1, InsertEffect DEF Adds, work
<1>2. CASE DirectWork(e)
  <2>1. CASE Policy[e] = "wallet"
    BY <1>0, <1>2, <2>1 DEF DirectWork, TypeOK, table
  <2>2. CASE Policy[e] # "wallet"
    <3>1. Work(e) /\ UNCHANGED <<relay, broker, missing, misses, trouble>> /\ done[e] = 0 /\ row[e] # "none"
      BY <1>2, <2>2 DEF DirectWork
    <3>2. done' = done \/ done' = [done EXCEPT ![e] = @ + 1]
      BY <3>1, WorkEffect
    <3>3. \A f \in Events : done[f] =< done'[f] /\ (done'[f] # done[f] => f = e)
      BY <1>0, <3>2 DEF TypeOK
    <3> QED BY <3>1, <3>3, WorkEffect
  <2> QED BY <2>1, <2>2
<1>3. CASE ReferenceAppears(e)
  BY <1>0, <1>3 DEF ReferenceAppears, table, broker, work
<1> QED BY <1>1, <1>2, <1>3 DEF Step

LEMMA RelayStepKeeps ==
    ASSUME TypeOK, NEW w \in Relays, Relaying(w)
    PROVE  /\ UNCHANGED <<hand, parked, work, created, misses, missing>> /\ Publishes(w)
           /\ trouble' = trouble \/ Fails
           /\ \A v \in Relays \ {w} : relay'[v] = relay[v]
           /\ \A f \in Events : row'[f] # row[f] => f \in relay[w].sent /\ row'[f] = "sent"
<1> USE DEF TypeOK
<1>1. CASE Lock(w)
  BY <1>1 DEF Lock, Publishes, table, broker, work
<1>2. CASE Publish(w)
  BY <1>2, RelaysPublish DEF Publish, table, work
<1>3. CASE PublishFails(w)
  BY <1>3, RelaysPublish DEF PublishFails, EndBatch, table, work
<1>4. CASE OutOfTime(w)
  BY <1>4 DEF OutOfTime, EndBatch, Publishes, table, broker, work
<1>5. CASE Mark(w)
  BY <1>5, FreeEffect, SentEffect DEF Mark, Publishes, broker, work
<1>6. CASE MarkFails(w)
  BY <1>6, FreeEffect, SentEffect DEF MarkFails, Publishes, broker, work
<1>7. CASE Expire(w)
  BY <1>7, FreeEffect DEF Expire, Publishes, table, broker, work
<1>8. CASE HungPublish(w)
  BY <1>8, RelaysPublish, FreeEffect DEF HungPublish, table, work
<1> QED BY <1>1, <1>2, <1>3, <1>4, <1>5, <1>6, <1>7, <1>8 DEF Relaying

\* A handler that lets its copy go.
LetsGo(h) == Ack(h) \/ Settle(h) \/ SettleFails(h) \/ Die(h)

LEMMA LetsGoKeeps ==
    ASSUME TypeOK, NEW h \in Handlers, LetsGo(h)
    PROVE  /\ hand[h] # Empty
           /\ UNCHANGED <<table, relay, work, missing, misses>> /\ Release(h)
           /\ trouble' = trouble \/ Fails
           /\ BagToSet(queue) \subseteq BagToSet(queue')
           /\ BagToSet(queue') \subseteq BagToSet(queue) \cup {hand[h].copy}
                 \cup {d \in {Again(h)} : hand[h].res \in {"missing", "outage"}}
           /\ parked' = parked \/ (Parks(h) /\ Handled(h) /\ parked' = parked \cup {hand[h].copy.ev})
           /\ hand[h].res # "ack" \/ Fails =>
                 hand[h].copy.ev \in parked' \/ \E d \in BagToSet(queue') : d.ev = hand[h].copy.ev
<1>0. hand[h] # Empty
  BY FullHand DEF LetsGo, Ack, Settle, SettleFails, Die, Handled
<1>1. /\ BagToSet(queue (+) One(hand[h].copy)) = BagToSet(queue) \cup {hand[h].copy}
      /\ BagToSet(queue (+) One(Again(h))) = BagToSet(queue) \cup {Again(h)}
      /\ BagToSet(queue (+) One(hand[h].copy) (+) One(Again(h)))
           = BagToSet(queue) \cup {hand[h].copy, Again(h)}
      /\ Again(h).ev = hand[h].copy.ev
  BY <1>0, BackEffect, AgainIs, SendEffect, FullHand
<1>2. CASE Ack(h)
  BY <1>0, <1>2 DEF Ack, Fails, TypeOK
<1>3. CASE Settle(h)
  <2>1. CASE Parks(h)
    BY <1>0, <1>3, <2>1 DEF Settle
  <2>2. CASE ~Parks(h)
    <3>1. hand[h].res \in {"missing", "outage"} /\ queue' = queue (+) One(Again(h)) /\ UNCHANGED parked
      BY <1>3, <2>2 DEF Settle, Handled, Parks
    <3> QED BY <1>0, <1>1, <1>3, <3>1 DEF Settle
  <2> QED BY <2>1, <2>2
<1>4. CASE SettleFails(h)
  <2>1. hand[h].res \in {"missing", "outage"}
    BY <1>4 DEF SettleFails, Handled, Parks
  <2>2. \/ queue' = queue (+) One(hand[h].copy)
        \/ queue' = queue (+) One(hand[h].copy) (+) One(Again(h))
    BY <1>4 DEF SettleFails
  <2> QED BY <1>0, <1>1, <1>4, <2>1, <2>2 DEF SettleFails
<1>5. CASE Die(h)
  BY <1>0, <1>1, <1>5 DEF Die
<1> QED BY <1>2, <1>3, <1>4, <1>5 DEF LetsGo

LEMMA HandlesIs ==
    ASSUME NEW h \in Handlers, Handles(h)
    PROVE  \/ \E c \in BagToSet(queue), res \in Results : TakesUp(h, c, res)
           \/ LetsGo(h)
BY DEF Handles, LetsGo

-----------------------------------------------------------------------------
(* What goes about is of a row that was written (Recorded).                *)

LEMMA RowsStay ==
    ASSUME TypeOK, [Next]_vars
    PROVE  /\ \A e \in Events : Written(e) => Written(e)'
           /\ \A e \in Events : done[e] =< done'[e] /\ misses[e] =< misses'[e]
           /\ trouble =< trouble' /\ parked \subseteq parked'
<1>0. (\A e \in Events : done[e] \in Nat /\ misses[e] \in Nat) /\ trouble \in Nat
  BY OutboxConstants DEF TypeOK
<1>1. CASE Next
  <2>1. ASSUME NEW e \in Events, Step(e)
        PROVE  /\ \A f \in Events : row[f] # "none" => row'[f] # "none"
               /\ \A f \in Events : done[f] =< done'[f] /\ misses[f] =< misses'[f]
               /\ trouble =< trouble' /\ parked \subseteq parked'
    BY <1>0, <2>1, EventStepKeeps DEF broker, Fails
  <2>2. ASSUME NEW w \in Relays, Relaying(w)
        PROVE  /\ \A f \in Events : row[f] # "none" => row'[f] # "none"
               /\ \A f \in Events : done[f] =< done'[f] /\ misses[f] =< misses'[f]
               /\ trouble =< trouble' /\ parked \subseteq parked'
    BY <1>0, <2>2, RelayStepKeeps DEF work, Fails
  <2>3. ASSUME NEW h \in Handlers, Handles(h)
        PROVE  /\ \A f \in Events : row[f] # "none" => row'[f] # "none"
               /\ \A f \in Events : done[f] =< done'[f] /\ misses[f] =< misses'[f]
               /\ trouble =< trouble' /\ parked \subseteq parked'
    <3>1. ASSUME NEW c \in BagToSet(queue), NEW res \in Results, TakesUp(h, c, res)
          PROVE  /\ \A f \in Events : row[f] # "none" => row'[f] # "none"
                 /\ \A f \in Events : done[f] =< done'[f] /\ misses[f] =< misses'[f]
                 /\ trouble =< trouble' /\ parked \subseteq parked'
      BY <1>0, <3>1, TakesUpEffect DEF TakesUp, Fails
    <3>2. CASE LetsGo(h)
      BY <1>0, <3>2, LetsGoKeeps DEF work, table, Fails
    <3> QED BY <2>3, <3>1, <3>2, HandlesIs
  <2> QED BY <1>1, <2>1, <2>2, <2>3, NextIs DEF Written
<1>2. CASE UNCHANGED vars
  BY <1>0, <1>2 DEF vars, table, work, broker, Written
<1> QED BY <1>1, <1>2

LEMMA RecordedStep ==
    ASSUME TypeOK, Recorded, [Next]_vars
    PROVE  Recorded'
<1> DEFINE Wr(e) == row'[e] # "none"
<1>0. /\ \A e \in Events : row[e] # "none" => Wr(e)
      /\ \A c \in BagToSet(queue) : c.ev \in Events /\ Wr(c.ev)
      /\ \A h \in Handlers : hand[h] # Empty => hand[h].copy.ev \in Events /\ Wr(hand[h].copy.ev)
      /\ \A w \in Relays : \A e \in relay[w].left \cup relay[w].sent : e \in Events /\ Wr(e)
      /\ \A e \in Events : done[e] > 0 \/ e \in parked => Wr(e)
  <2>1. \A e \in Events : row[e] # "none" => Wr(e)
    BY RowsStay DEF Written
  <2>2. /\ \A c \in BagToSet(queue) : c.ev \in Events
        /\ \A h \in Handlers : hand[h] # Empty => hand[h].copy.ev \in Events
        /\ \A w \in Relays : \A e \in relay[w].left \cup relay[w].sent : e \in Events
    BY FullHand DEF TypeOK, Copies, Batch
  <2> HIDE DEF Wr
  <2> QED BY <2>1, <2>2 DEF Recorded, Written
<1> DEFINE Goal == /\ \A c \in BagToSet(queue') : Wr(c.ev)
                   /\ \A h \in Handlers : hand'[h] # Empty => Wr(hand'[h].copy.ev)
                   /\ \A w \in Relays : \A e \in relay'[w].left \cup relay'[w].sent : Wr(e)
                   /\ \A e \in Events : done'[e] > 0 \/ e \in parked' => Wr(e)
<1> HIDE DEF Wr
<1>1. ASSUME NEW e \in Events, Step(e)
      PROVE  Goal
  <2>1. UNCHANGED <<relay, queue, hand, parked>>
    BY <1>1, EventStepKeeps DEF broker
  <2>2. \A f \in Events : done'[f] = done[f] \/ (f = e /\ row[e] # "none")
    BY <1>1, EventStepKeeps
  <2> QED BY <1>0, <2>1, <2>2
<1>2. ASSUME NEW w \in Relays, Relaying(w)
      PROVE  Goal
  <2>1. /\ UNCHANGED <<hand, parked, done>> /\ Publishes(w)
        /\ \A v \in Relays \ {w} : relay'[v] = relay[v]
    BY <1>2, RelayStepKeeps DEF work
  <2>2. \A c \in BagToSet(queue') : Wr(c.ev)
    <3>1. ASSUME NEW e \in relay[w].left, queue' = queue (+) One(Copy(e))
          PROVE  \A c \in BagToSet(queue') : Wr(c.ev)
      <4>1. Copy(e) \in Copies /\ Copy(e).ev = e
        BY <1>0, CopyType
      <4>2. BagToSet(queue') = BagToSet(queue) \cup {Copy(e)}
        BY <3>1, <4>1, SendEffect
      <4> QED BY <1>0, <4>1, <4>2
    <3> QED BY <1>0, <2>1, <3>1 DEF Publishes
  <2>3. \A e \in relay'[w].left \cup relay'[w].sent : Wr(e)
    <3>1. CASE Lock(w)
      <4>1. PICK S \in SUBSET Events :
              /\ \A e \in S : row[e] = "pending"
              /\ relay' = [relay EXCEPT ![w] = [locked |-> S, left |-> S, sent |-> {}, open |-> TRUE]]
        BY <3>1, EarliestAreOf DEF Lock
      <4>2. relay'[w].left \cup relay'[w].sent = S
        BY <4>1 DEF TypeOK
      <4> QED BY <1>0, <4>1, <4>2
    <3>2. CASE ~Lock(w)
      <4>1. relay'[w].left \cup relay'[w].sent \subseteq relay[w].left \cup relay[w].sent
        <5>1. CASE Publish(w)
          <6>1. PICK e \in relay[w].left :
                  relay' = [relay EXCEPT ![w].left = @ \ {e}, ![w].sent = @ \cup {e}]
            BY <5>1, EarliestAreOf DEF Publish
          <6>2. relay'[w].left = relay[w].left \ {e} /\ relay'[w].sent = relay[w].sent \cup {e}
            BY <6>1 DEF TypeOK, Batch
          <6> QED BY <6>2
        <5>2. CASE PublishFails(w) \/ OutOfTime(w)
          <6>1. relay'[w].left = {} /\ relay'[w].sent = relay[w].sent
            BY <5>2 DEF PublishFails, OutOfTime, EndBatch, TypeOK, Batch
          <6> QED BY <6>1
        <5>3. CASE Mark(w) \/ MarkFails(w) \/ Expire(w) \/ HungPublish(w)
          <6>1. relay'[w] = IdleRelay \/ relay'[w] = [relay[w] EXCEPT !.open = FALSE]
            BY <5>3 DEF Mark, MarkFails, Expire, HungPublish, Free, TypeOK, Batch
          <6> QED BY <6>1 DEF IdleRelay, TypeOK, Batch
        <5> QED BY <1>2, <3>2, <5>1, <5>2, <5>3 DEF Relaying
      <4> QED BY <1>0, <4>1
    <3> QED BY <3>1, <3>2
  <2> QED BY <1>0, <2>1, <2>2, <2>3
<1>3. ASSUME NEW h \in Handlers, Handles(h)
      PROVE  Goal
  <2>1. ASSUME NEW c \in BagToSet(queue), NEW res \in Results, TakesUp(h, c, res)
        PROVE  Goal
    <3>1. Taken(h, c, res) /\ UNCHANGED <<relay, parked>>
      BY <2>1 DEF TakesUp
    <3>2. /\ BagToSet(queue') \subseteq BagToSet(queue)
          /\ hand' = [hand EXCEPT ![h] = [copy |-> c, res |-> res]]
      BY <3>1, TakenEffect DEF Results
    <3>3. \A f \in Events : f # c.ev => done'[f] = done[f]
      BY <2>1, TakesUpEffect
    <3>4. \A g \in Handlers : hand'[g] # Empty => Wr(hand'[g].copy.ev)
      BY <1>0, <3>2 DEF TypeOK
    <3> QED BY <1>0, <3>1, <3>2, <3>3, <3>4
  <2>2. CASE LetsGo(h)
    <3>1. /\ hand[h] # Empty /\ UNCHANGED <<relay, done>> /\ hand' = [hand EXCEPT ![h] = Empty]
          /\ BagToSet(queue') \subseteq BagToSet(queue) \cup {hand[h].copy, Again(h)}
          /\ parked' \subseteq parked \cup {hand[h].copy.ev}
      BY <2>2, LetsGoKeeps, ReleaseEffect DEF work
    <3>2. Again(h).ev = hand[h].copy.ev
      BY <3>1, AgainIs
    <3>3. \A g \in Handlers : hand'[g] # Empty => Wr(hand'[g].copy.ev)
      BY <1>0, <3>1 DEF TypeOK
    <3> QED BY <1>0, <3>1, <3>2, <3>3
  <2> QED BY <1>3, <2>1, <2>2, HandlesIs
<1>4. ASSUME UNCHANGED vars
      PROVE  Goal
  <2>1. UNCHANGED <<queue, hand, relay, done, parked>>
    BY <1>4 DEF vars, broker, work
  <2> QED BY <1>0, <2>1
<1> HIDE DEF Goal
<1>5. Goal
  BY <1>1, <1>2, <1>3, <1>4, NextIs
<1> QED BY <1>5 DEF Recorded, Written, Wr, Goal

-----------------------------------------------------------------------------
(* The mark of an event stands for its work (Marked).                      *)

MarkOf(i, d) ==
    /\ \A e \in Events : d[e] \in 0..1
    /\ \A e \in i : d[e] = 1
    /\ \A e \in Events : Policy[e] # "wallet" /\ e \notin i => d[e] = 0

\* The work is done where it was not, whoever does it.
LEMMA WorkMarks ==
    ASSUME TypeOK, MarkOf(inbox, done), NEW e \in Events, Work(e), ~Refused(e)
    PROVE  MarkOf(inbox', done') /\ done'[e] = 1
<1>1. CASE e \in inbox
  BY <1>1, WorkEffect DEF MarkOf
<1>2. CASE e \notin inbox
  <2>1. done[e] = 0
    BY <1>2 DEF MarkOf, Refused
  <2>2. done' = [done EXCEPT ![e] = @ + 1] /\ inbox' = inbox \cup {e}
    BY <1>2, WorkEffect
  <2>3. \A f \in Events : done'[f] = IF f = e THEN 1 ELSE done[f]
    BY <2>1, <2>2 DEF TypeOK
  <2>4. inbox \subseteq Events
    BY DEF TypeOK
  <2> QED BY <2>2, <2>3, <2>4 DEF MarkOf
<1> QED BY <1>1, <1>2

LEMMA MarkedStep ==
    ASSUME TypeOK, Recorded, Marked, [Next]_vars
    PROVE  Marked'
<1> DEFINE Hands == \A h \in Handlers :
                       /\ hand'[h].res = "ack" => done'[hand'[h].copy.ev] = 1
                       /\ hand'[h].res = "bad" => hand'[h].copy.ev \in Bad
<1>0. /\ MarkOf(inbox, done)
      /\ \A h \in Handlers : /\ hand[h].res = "ack" => hand[h].copy.ev \in Events /\ done[hand[h].copy.ev] = 1
                             /\ hand[h].res = "bad" => hand[h].copy.ev \in Bad
      /\ inbox \subseteq Events
  <2>1. \A h \in Handlers : hand[h].res = "ack" => hand[h].copy.ev \in Events
    BY FullHand
  <2> QED BY <2>1 DEF Marked, MarkOf, TypeOK
<1>1. ASSUME MarkOf(inbox', done'), UNCHANGED hand
      PROVE  Hands
  <2>1. \A e \in Events : done[e] = 1 => done'[e] = 1
    <3>1. ASSUME NEW e \in Events, done[e] = 1 PROVE done'[e] = 1
      <4>1. done'[e] \in 0..1 /\ done[e] =< done'[e]
        BY <1>1, RowsStay DEF MarkOf
      <4> QED BY <3>1, <4>1
    <3> QED BY <3>1
  <2> QED BY <1>0, <1>1, <2>1
<1>2. ASSUME NEW e \in Events, Step(e)
      PROVE  MarkOf(inbox', done') /\ Hands
  <2>1. UNCHANGED hand
    BY <1>2, EventStepKeeps DEF broker
  <2>2. CASE Adds(e) \/ ReferenceAppears(e)
    BY <1>0, <1>1, <2>1, <2>2 DEF Adds, ReferenceAppears, work
  <2>3. CASE DirectWork(e)
    <3>1. CASE Policy[e] = "wallet"
      <4>1. done' = [done EXCEPT ![e] = 1] /\ inbox' = inbox
        BY <2>3, <3>1 DEF DirectWork
      <4>2. \A f \in Events : done'[f] = IF f = e THEN 1 ELSE done[f]
        BY <4>1 DEF TypeOK
      <4>3. MarkOf(inbox', done')
        BY <1>0, <3>1, <4>1, <4>2 DEF MarkOf
      <4> QED BY <1>1, <2>1, <4>3
    <3>2. CASE Policy[e] # "wallet"
      <4>1. Work(e) /\ ~Refused(e)
        BY <2>3, <3>2 DEF DirectWork, Refused
      <4>2. MarkOf(inbox', done')
        BY <1>0, <4>1, WorkMarks
      <4> QED BY <1>1, <2>1, <4>2
    <3> QED BY <3>1, <3>2
  <2> QED BY <1>2, <2>2, <2>3 DEF Step
<1>3. ASSUME NEW w \in Relays, Relaying(w)
      PROVE  MarkOf(inbox', done') /\ Hands
  BY <1>0, <1>1, <1>3, RelayStepKeeps DEF work
<1>4. ASSUME NEW h \in Handlers, Handles(h)
      PROVE  MarkOf(inbox', done') /\ Hands
  <2>1. ASSUME NEW c \in BagToSet(queue), NEW res \in Results, TakesUp(h, c, res)
        PROVE  MarkOf(inbox', done') /\ Hands
    <3>1. c.ev \in Events /\ hand' = [hand EXCEPT ![h] = [copy |-> c, res |-> res]]
      BY <2>1, TakesUpEffect, TakenEffect DEF TakesUp, Results
    <3>2. MarkOf(inbox', done')
      <4>1. CASE UNCHANGED <<work, table>>
        BY <1>0, <4>1 DEF work
      <4>2. CASE ~Refused(c.ev) /\ Work(c.ev)
        BY <1>0, <3>1, <4>2, WorkMarks
      <4> QED BY <2>1, <4>1, <4>2 DEF TakesUp
    <3>3. res = "ack" => done'[c.ev] = 1
      <4>1. CASE Refused(c.ev)
        <5>1. done[c.ev] > 0 /\ done[c.ev] =< done'[c.ev] /\ done'[c.ev] \in 0..1 /\ done[c.ev] \in 0..1
          BY <1>0, <3>1, <3>2, <4>1, RowsStay DEF Refused, MarkOf
        <5> QED BY <5>1
      <4>2. CASE ~Refused(c.ev) /\ Work(c.ev)
        BY <1>0, <3>1, <4>2, WorkMarks
      <4> QED BY <2>1, <4>1, <4>2 DEF TakesUp
    <3>4. res = "bad" => c.ev \in Bad
      BY <2>1 DEF TakesUp
    <3>5. \A g \in Handlers : hand'[g] = IF g = h THEN [copy |-> c, res |-> res] ELSE hand[g]
      BY <3>1 DEF TypeOK
    <3>6. \A e \in Events : done[e] = 1 => done'[e] = 1
      <4>1. ASSUME NEW e \in Events, done[e] = 1 PROVE done'[e] = 1
        <5>1. done'[e] \in 0..1 /\ done[e] =< done'[e]
          BY <3>2, RowsStay DEF MarkOf
        <5> QED BY <4>1, <5>1
      <4> QED BY <4>1
    <3> QED BY <1>0, <3>1, <3>2, <3>3, <3>4, <3>5, <3>6
  <2>2. CASE LetsGo(h)
    <3>1. UNCHANGED <<inbox, done>> /\ hand' = [hand EXCEPT ![h] = Empty]
      BY <2>2, LetsGoKeeps, ReleaseEffect DEF work
    <3>2. \A g \in Handlers : hand'[g] = IF g = h THEN Empty ELSE hand[g]
      BY <3>1 DEF TypeOK
    <3> QED BY <1>0, <3>1, <3>2, EmptyHand
  <2> QED BY <1>4, <2>1, <2>2, HandlesIs
<1>5. ASSUME UNCHANGED vars
      PROVE  MarkOf(inbox', done') /\ Hands
  <2>1. UNCHANGED <<hand, inbox, done>>
    BY <1>5 DEF vars, broker, work
  <2> QED BY <1>0, <1>1, <2>1
<1> HIDE DEF Hands
<1>6. MarkOf(inbox', done') /\ Hands
  BY <1>2, <1>3, <1>4, <1>5, NextIs
<1> QED BY <1>6 DEF Marked, MarkOf, Hands

-----------------------------------------------------------------------------
(* An attempt that counted was a row missed or a failure (Tries), so an    *)
(* event is parked for its own fault (ParkedIsEarned).                     *)

\* Misses and failures are never fewer.
LEMMA EarnedStays ==
    ASSUME TypeOK, [Next]_vars, NEW e \in Events, NEW n \in Nat, Earned(e, n)
    PROVE  Earned(e, n)'
<1>1. /\ misses[e] =< misses'[e] /\ trouble =< trouble'
      /\ misses[e] \in Nat /\ trouble \in Nat /\ misses'[e] \in Nat /\ trouble' \in Nat
  BY RowsStay, TypeStep DEF TypeOK
<1> QED BY <1>1 DEF Earned

\* A missed row or a failure is what the next attempt is allowed for.
LEMMA TakesUpEarns ==
    ASSUME TypeOK, TypeOK', NEW h \in Handlers, NEW c \in BagToSet(queue), Earned(c.ev, c.tries),
           NEW res \in {"missing", "outage"}, TakesUp(h, c, res), [Next]_vars
    PROVE  Earned(c.ev, IF Counts(Policy[c.ev], res) THEN c.tries + 1 ELSE c.tries)'
<1>1. c.ev \in Events /\ c.tries \in Nat
  BY DEF TypeOK, Copies
<1>2. Earned(c.ev, c.tries)'
  BY <1>1, EarnedStays
<1>3. misses[c.ev] \in Nat /\ trouble \in Nat
  BY <1>1 DEF TypeOK
<1>4. CASE res = "missing"
  <2>1. misses'[c.ev] = misses[c.ev] + 1 /\ trouble' = trouble
    BY <1>1, <1>4 DEF TakesUp, TypeOK
  <2>2. Earned(c.ev, c.tries + 1)'
    BY <1>1, <1>3, <2>1 DEF Earned
  <2> QED BY <1>2, <2>2
<1>5. CASE res = "outage"
  <2>1. misses' = misses /\ trouble' = trouble + 1
    BY <1>5 DEF TakesUp, Fails
  <2>2. Policy[c.ev] = "wallet" => Earned(c.ev, c.tries + 1)'
    BY <1>1, <1>3, <2>1 DEF Earned
  <2>3. Policy[c.ev] # "wallet" => ~Counts(Policy[c.ev], res)
    BY <1>5 DEF Counts
  <2> QED BY <1>2, <2>2, <2>3
<1> QED BY <1>4, <1>5

LEMMA TriesStep ==
    ASSUME TypeOK, Tries, [Next]_vars
    PROVE  Tries'
<1> DEFINE Ea(e, n) == /\ Policy[e] = "items" => n =< misses'[e]
                       /\ Policy[e] = "wallet" => n =< trouble' + misses'[e]
<1>0. TypeOK'
  BY TypeStep
<1>1. /\ \A c \in BagToSet(queue) : c \in Copies /\ Ea(c.ev, c.tries)
      /\ \A h \in Handlers : hand[h] # Empty =>
            /\ hand[h].copy \in Copies /\ Ea(hand[h].copy.ev, hand[h].copy.tries)
            /\ hand[h].res \in {"missing", "outage"} =>
                  Again(h) \in Copies /\ Ea(Again(h).ev, Again(h).tries)
  <2>1. ASSUME NEW c \in Copies, Earned(c.ev, c.tries)
        PROVE  Ea(c.ev, c.tries)
    <3>1. c.ev \in Events /\ c.tries \in Nat
      BY DEF Copies
    <3>2. Earned(c.ev, c.tries)'
      BY <2>1, <3>1, EarnedStays
    <3> QED BY <3>2 DEF Earned
  <2>2. BagToSet(queue) \subseteq Copies
    BY DEF TypeOK
  <2>3. \A h \in Handlers : hand[h] # Empty =>
           hand[h].copy \in Copies /\ Again(h) \in Copies /\ Again(h).ev = hand[h].copy.ev
    BY FullHand, AgainIs
  <2> HIDE DEF Ea
  <2> QED BY <2>1, <2>2, <2>3 DEF Tries
<1> DEFINE Hand(g) == hand'[g] # Empty =>
               /\ Ea(hand'[g].copy.ev, hand'[g].copy.tries)
               /\ hand'[g].res \in {"missing", "outage"} => Ea(hand'[g].copy.ev, Again(g)'.tries)
<1> DEFINE Goal == /\ \A c \in BagToSet(queue') : Ea(c.ev, c.tries)
                   /\ \A g \in Handlers : Hand(g)
<1>2. ASSUME NEW g \in Handlers, hand'[g] = hand[g]
      PROVE  Hand(g)
  <2>1. Again(g)' = Again(g)
    BY <1>2 DEF Again
  <2>2. hand[g] # Empty => Again(g).ev = hand[g].copy.ev
    BY AgainIs
  <2> HIDE DEF Ea
  <2> QED BY <1>1, <1>2, <2>1, <2>2
<1> HIDE DEF Ea
<1>3. ASSUME UNCHANGED <<queue, hand>>
      PROVE  Goal
  BY <1>1, <1>2, <1>3
<1>4. ASSUME NEW w \in Relays, Relaying(w)
      PROVE  Goal
  <2>1. UNCHANGED hand /\ Publishes(w)
    BY <1>4, RelayStepKeeps
  <2>2. ASSUME NEW e \in relay[w].left, queue' = queue (+) One(Copy(e))
        PROVE  \A c \in BagToSet(queue') : Ea(c.ev, c.tries)
    <3>1. e \in Events
      BY DEF TypeOK, Batch
    <3>2. Copy(e) \in Copies /\ Copy(e).ev = e /\ Copy(e).tries = 0
      BY <3>1, CopyType
    <3>3. BagToSet(queue') = BagToSet(queue) \cup {Copy(e)}
      BY <2>2, <3>2, SendEffect
    <3>4. misses'[e] \in Nat /\ trouble' \in Nat
      BY <1>0, <3>1 DEF TypeOK
    <3>5. Ea(e, 0)
      BY <3>4 DEF Ea
    <3> QED BY <1>1, <3>2, <3>3, <3>5
  <2> QED BY <1>1, <1>2, <2>1, <2>2 DEF Publishes
<1>5. ASSUME NEW h \in Handlers, Handles(h)
      PROVE  Goal
  <2>1. ASSUME NEW c \in BagToSet(queue), NEW res \in Results, TakesUp(h, c, res)
        PROVE  Goal
    <3>1. /\ hand' = [hand EXCEPT ![h] = [copy |-> c, res |-> res]]
          /\ BagToSet(queue') \subseteq BagToSet(queue)
      BY <2>1, TakenEffect DEF TakesUp, Results
    <3>2. hand'[h] = [copy |-> c, res |-> res] /\ \A g \in Handlers : g # h => hand'[g] = hand[g]
      BY <3>1 DEF TypeOK
    <3>3. res \in {"missing", "outage"} => Ea(c.ev, Again(h)'.tries)
      <4>1. Again(h)'.tries = IF Counts(Policy[c.ev], res) THEN c.tries + 1 ELSE c.tries
        <5>1. c \in [ev : Events, tries : Nat]
          BY DEF TypeOK, Copies
        <5> QED BY <3>2, <5>1 DEF Again
      <4>2. Earned(c.ev, c.tries)
        BY DEF Tries
      <4>3. ASSUME res \in {"missing", "outage"}
            PROVE  Ea(c.ev, IF Counts(Policy[c.ev], res) THEN c.tries + 1 ELSE c.tries)
        BY <1>0, <2>1, <4>2, <4>3, TakesUpEarns DEF Ea, Earned
      <4> QED BY <4>1, <4>3
    <3>4. Hand(h)
      BY <1>1, <3>2, <3>3
    <3> QED BY <1>1, <1>2, <3>1, <3>2, <3>4
  <2>2. CASE LetsGo(h)
    <3>1. /\ hand[h] # Empty /\ hand' = [hand EXCEPT ![h] = Empty]
          /\ BagToSet(queue') \subseteq BagToSet(queue) \cup {hand[h].copy}
                 \cup {d \in {Again(h)} : hand[h].res \in {"missing", "outage"}}
      BY <2>2, LetsGoKeeps, ReleaseEffect
    <3>2. \A g \in Handlers : hand'[g] = Empty \/ hand'[g] = hand[g]
      BY <3>1 DEF TypeOK
    <3>3. \A c \in BagToSet(queue') : Ea(c.ev, c.tries)
      BY <1>1, <3>1
    <3> QED BY <1>2, <3>2, <3>3
  <2> QED BY <1>5, <2>1, <2>2, HandlesIs
<1>6. ASSUME NEW e \in Events, Step(e)
      PROVE  Goal
  <2>1. UNCHANGED <<queue, hand>>
    BY <1>6, EventStepKeeps DEF broker
  <2> QED BY <1>3, <2>1
<1>7. ASSUME UNCHANGED vars
      PROVE  Goal
  <2>1. UNCHANGED <<queue, hand>>
    BY <1>7 DEF vars, broker
  <2> QED BY <1>3, <2>1
<1>8. \A g \in Handlers : hand'[g] # Empty => Again(g)'.ev = hand'[g].copy.ev
  <2>1. ASSUME NEW g \in Handlers, hand'[g] # Empty
        PROVE  Again(g)'.ev = hand'[g].copy.ev
    <3>1. hand'[g].copy \in [ev : Events, tries : Nat]
      BY <1>0, <2>1 DEF TypeOK, Copies
    <3> QED BY <3>1 DEF Again
  <2> QED BY <2>1
<1> HIDE DEF Goal
<1>9. Goal
  BY <1>4, <1>5, <1>6, <1>7, NextIs
<1> QED BY <1>9 DEF Tries, Goal, Ea, Earned

LEMMA ParkedStep ==
    ASSUME TypeOK, Marked, Tries, ParkedIsEarned, [Next]_vars
    PROVE  ParkedIsEarned'
<1> DEFINE Fault(e) == \/ e \in Bad
                       \/ Policy[e] = "items" /\ misses[e] >= MaxAttempts
                       \/ Policy[e] = "wallet" /\ trouble + misses[e] > MaxRetries
<1>1. ASSUME NEW e \in Events, Fault(e)
      PROVE  Fault(e)'
  <2>1. /\ misses[e] =< misses'[e] /\ trouble =< trouble'
        /\ misses[e] \in Nat /\ trouble \in Nat /\ misses'[e] \in Nat /\ trouble' \in Nat
        /\ MaxAttempts \in Nat /\ MaxRetries \in Nat
    BY RowsStay, TypeStep, OutboxConstants DEF TypeOK
  <2> QED BY <1>1, <2>1
<1>2. \A e \in parked : e \in Events /\ Fault(e)
  BY DEF ParkedIsEarned, TypeOK
<1>3. ASSUME NEW h \in Handlers, hand[h] # Empty, Parks(h), Handled(h)
      PROVE  Fault(hand[h].copy.ev)
  <2>1. CASE hand[h].res = "bad"
    BY <2>1 DEF Marked
  <2>2. CASE hand[h].res # "bad"
    <3>1. Earned(hand[h].copy.ev, Again(h).tries) /\ Exhausted(h)
      BY <1>3, <2>2 DEF Tries, Parks, Handled
    <3>2. /\ Again(h).ev = hand[h].copy.ev /\ Again(h).tries \in Nat /\ hand[h].copy.ev \in Events
          /\ MaxAttempts \in Nat /\ MaxRetries \in Nat
      BY <1>3, AgainIs, FullHand, OutboxConstants DEF Copies
    <3>3. misses[hand[h].copy.ev] \in Nat /\ trouble \in Nat
      BY <3>2 DEF TypeOK
    <3>4. CASE Policy[hand[h].copy.ev] = "items"
      BY <3>1, <3>2, <3>3, <3>4 DEF Exhausted, Earned
    <3>5. CASE Policy[hand[h].copy.ev] = "wallet"
      BY <3>1, <3>2, <3>3, <3>5 DEF Exhausted, Earned
    <3>6. CASE Policy[hand[h].copy.ev] \notin {"items", "wallet"}
      BY <3>1, <3>2, <3>6 DEF Exhausted
    <3> QED BY <3>4, <3>5, <3>6
  <2> QED BY <2>1, <2>2
<1> HIDE DEF Fault
<1>4. \A e \in parked' : e \in parked \/ (e \in Events /\ Fault(e))
  <2>1. ASSUME NEW h \in Handlers, Handles(h)
        PROVE  \A e \in parked' : e \in parked \/ (e \in Events /\ Fault(e))
    <3>1. ASSUME NEW c \in BagToSet(queue), NEW res \in Results, TakesUp(h, c, res)
          PROVE  parked' = parked
      BY <3>1 DEF TakesUp
    <3>2. CASE LetsGo(h)
      BY <1>3, <3>2, LetsGoKeeps, FullHand
    <3> QED BY <2>1, <3>1, <3>2, HandlesIs
  <2>2. ASSUME NEW w \in Relays, Relaying(w) PROVE parked' = parked
    BY <2>2, RelayStepKeeps
  <2>3. ASSUME NEW e \in Events, Step(e) PROVE parked' = parked
    BY <2>3, EventStepKeeps DEF broker
  <2>4. ASSUME UNCHANGED vars PROVE parked' = parked
    BY <2>4 DEF vars, broker
  <2> QED BY <2>1, <2>2, <2>3, <2>4, NextIs
<1>5. \A e \in parked' : Fault(e)'
  BY <1>1, <1>2, <1>4
<1> QED BY <1>5 DEF ParkedIsEarned, Fault

-----------------------------------------------------------------------------
(* A row in an open batch is pending, and nobody else's (Locks).           *)

LEMMA LocksStep ==
    ASSUME TypeOK, Locks, [Next]_vars
    PROVE  Locks'
<1> DEFINE Own(b) == b.left \cup b.sent \subseteq b.locked /\ b.left \cap b.sent = {}
<1> DEFINE Pend(b) == b.open => \A e \in b.locked : row'[e] = "pending"
<1> DEFINE Apart(v, w) == relay'[v].open /\ relay'[w].open => relay'[v].locked \cap relay'[w].locked = {}
<1> DEFINE Goal == /\ \A w \in Relays : Own(relay'[w]) /\ Pend(relay'[w])
                   /\ \A v, w \in Relays : v # w => Apart(v, w)
<1>0. \A w \in Relays : relay[w].locked \subseteq Events
  BY DEF TypeOK, Batch
<1>1. ASSUME UNCHANGED relay, \A f \in Events : row[f] # "none" => row'[f] = row[f]
      PROVE  Goal
  BY <1>0, <1>1 DEF Locks
<1>2. ASSUME NEW e \in Events, Step(e)
      PROVE  Goal
  <2> HIDE DEF Goal
  <2> QED BY <1>1, <1>2, EventStepKeeps
<1>3. ASSUME NEW h \in Handlers, Handles(h)
      PROVE  Goal
  <2>1. ASSUME NEW c \in BagToSet(queue), NEW res \in Results, TakesUp(h, c, res)
        PROVE  UNCHANGED relay /\ \A f \in Events : row[f] # "none" => row'[f] = row[f]
    BY <2>1, TakesUpEffect DEF TakesUp
  <2>2. CASE LetsGo(h)
    <3>1. UNCHANGED <<relay, row>>
      BY <2>2, LetsGoKeeps DEF table
    <3> HIDE DEF Goal
    <3> QED BY <1>1, <3>1
  <2> HIDE DEF Goal
  <2> QED BY <1>1, <1>3, <2>1, <2>2, HandlesIs
<1>4. ASSUME UNCHANGED vars
      PROVE  Goal
  <2>1. UNCHANGED <<relay, row>>
    BY <1>4 DEF vars, table
  <2> HIDE DEF Goal
  <2> QED BY <1>1, <2>1
<1>5. ASSUME NEW w \in Relays, Relaying(w)
      PROVE  Goal
  <2>1. \A v \in Relays \ {w} : relay'[v] = relay[v]
    BY <1>5, RelayStepKeeps
  <2>2. /\ Own(relay[w]) /\ (relay[w].open => \A e \in relay[w].locked : row[e] = "pending")
        /\ \A v \in Relays \ {w} : relay[v].open /\ relay[w].open => relay[v].locked \cap relay[w].locked = {}
    BY DEF Locks
  <2>3. CASE Lock(w)
    <3>1. PICK S \in SUBSET Events :
            /\ \A e \in S : row[e] = "pending" /\ e \notin Locked
            /\ relay' = [relay EXCEPT ![w] = [locked |-> S, left |-> S, sent |-> {}, open |-> TRUE]]
      BY <2>3, EarliestAreOf DEF Lock
    <3>2. relay'[w] = [locked |-> S, left |-> S, sent |-> {}, open |-> TRUE]
      BY <3>1 DEF TypeOK
    <3>3. row' = row
      BY <2>3 DEF Lock, table
    <3>4. Own(relay'[w]) /\ Pend(relay'[w])
      BY <3>1, <3>2, <3>3
    <3>5. \A v \in Relays \ {w} : relay[v].open => relay[v].locked \cap S = {}
      BY <3>1 DEF Locked
    <3> QED BY <2>1, <3>2, <3>3, <3>4, <3>5 DEF Locks
  <2>4. CASE ~Lock(w)
    <3>1. /\ Own(relay'[w]) /\ (relay'[w].open => relay[w].open /\ relay'[w].locked = relay[w].locked /\ row' = row)
          /\ row' # row => relay[w].open
      <4>1. CASE Publish(w)
        <5>1. PICK e \in relay[w].left :
                relay' = [relay EXCEPT ![w].left = @ \ {e}, ![w].sent = @ \cup {e}]
          BY <4>1, EarliestAreOf DEF Publish
        <5>2. /\ relay'[w].left = relay[w].left \ {e} /\ relay'[w].sent = relay[w].sent \cup {e}
              /\ relay'[w].locked = relay[w].locked /\ relay'[w].open = relay[w].open
          BY <5>1 DEF TypeOK, Batch
        <5> QED BY <2>2, <4>1, <5>2 DEF Publish, table
      <4>2. CASE PublishFails(w) \/ OutOfTime(w)
        <5>1. /\ relay'[w].left = {} /\ relay'[w].sent = relay[w].sent
              /\ relay'[w].locked = relay[w].locked /\ relay'[w].open = relay[w].open
          BY <4>2 DEF PublishFails, OutOfTime, EndBatch, TypeOK, Batch
        <5> QED BY <2>2, <4>2, <5>1 DEF PublishFails, OutOfTime, table
      <4>3. CASE Mark(w) \/ MarkFails(w)
        <5>1. relay'[w] = IdleRelay /\ relay[w].open
          BY <4>3 DEF Mark, MarkFails, Free, TypeOK
        <5> QED BY <5>1 DEF IdleRelay
      <4>4. CASE Expire(w) \/ HungPublish(w)
        <5>1. relay'[w] = IdleRelay \/ relay'[w] = [relay[w] EXCEPT !.open = FALSE]
          BY <4>4 DEF Expire, HungPublish, Free, TypeOK
        <5>2. ~relay'[w].open /\ Own(relay'[w])
          BY <2>2, <5>1 DEF IdleRelay, TypeOK, Batch
        <5> QED BY <4>4, <5>2 DEF Expire, HungPublish, table
      <4> QED BY <1>5, <2>4, <4>1, <4>2, <4>3, <4>4 DEF Relaying
    <3>2. Pend(relay'[w])
      BY <2>2, <3>1
    <3>3. \A v \in Relays \ {w} : Own(relay'[v]) /\ Pend(relay'[v]) /\ Apart(v, w) /\ Apart(w, v)
      <4>1. ASSUME NEW v \in Relays \ {w}
            PROVE  Own(relay'[v]) /\ Pend(relay'[v]) /\ Apart(v, w) /\ Apart(w, v)
        <5>1. relay'[v] = relay[v] /\ Own(relay[v])
              /\ (relay[v].open => \A e \in relay[v].locked : row[e] = "pending")
          BY <2>1 DEF Locks
        <5>2. Apart(v, w) /\ Apart(w, v)
          BY <2>2, <3>1, <5>1
        <5>3. relay[v].open => \A e \in relay[v].locked : row'[e] = row[e]
          BY <1>0, <1>5, <2>2, <3>1, RelayStepKeeps
        <5> QED BY <5>1, <5>2, <5>3
      <4> QED BY <4>1
    <3>4. \A u, v \in Relays \ {w} : u # v => Apart(u, v)
      BY <2>1 DEF Locks
    <3> QED BY <3>1, <3>2, <3>3, <3>4
  <2> QED BY <2>3, <2>4
<1> HIDE DEF Goal
<1>6. Goal
  BY <1>2, <1>3, <1>4, <1>5, NextIs
<1> QED BY <1>6 DEF Locks, Goal

-----------------------------------------------------------------------------
(* While nothing fails there is one copy (Single, OneCopy).                *)

\* A copy of an event that has none.
LEMMA LonePut ==
    ASSUME TypeOK, Lone(queue, hand), NEW e \in Events, ~Has(queue, hand, e),
           queue' = queue (+) One(Copy(e)), UNCHANGED hand
    PROVE  /\ Lone(queue', hand')
           /\ \A f \in Events : Has(queue', hand', f) => f = e \/ Has(queue, hand, f)
<1>1. Copy(e) \in Copies /\ Copy(e).ev = e
  BY CopyType
<1>2. Copy(e) \notin BagToSet(queue)
  BY <1>1 DEF Has
<1>3. /\ BagToSet(queue') = BagToSet(queue) \cup {Copy(e)}
      /\ \A d \in BagToSet(queue) : d # Copy(e) => queue'[d] = queue[d]
      /\ queue'[Copy(e)] = 1
  BY <1>2, PutCopy DEF TypeOK
<1>4. \A c \in BagToSet(queue) : c.ev # e
  BY DEF Has
<1>5. \A h \in Handlers : hand[h].copy.ev # e
  BY DEF Has
<1>6. Lone(queue', hand')
  BY <1>1, <1>2, <1>3, <1>4, <1>5 DEF Lone
<1> QED BY <1>1, <1>3, <1>6 DEF Has

\* A handler takes the copy there is.
LEMMA LoneTake ==
    ASSUME TypeOK, Lone(queue, hand), NEW h \in Handlers, NEW c \in BagToSet(queue),
           NEW res \in Results, Taken(h, c, res)
    PROVE  /\ Lone(queue', hand')
           /\ \A f \in Events : Has(queue', hand', f) => Has(queue, hand, f)
<1>1. /\ BagToSet(queue') \subseteq BagToSet(queue)
      /\ \A d \in BagToSet(queue') : d # c => queue'[d] = queue[d]
      /\ queue[c] = 1 => c \notin BagToSet(queue')
      /\ hand' = [hand EXCEPT ![h] = [copy |-> c, res |-> res]]
      /\ c \in Copies
  BY TakenEffect DEF Results
<1>2. \A g \in Handlers : hand'[g] = IF g = h THEN [copy |-> c, res |-> res] ELSE hand[g]
  BY <1>1 DEF TypeOK
<1>3. c \notin BagToSet(queue')
  BY <1>1 DEF Lone
<1>4. \A d \in BagToSet(queue') : d.ev # c.ev /\ queue'[d] = 1
  BY <1>1, <1>3 DEF Lone
<1>5. \A g \in Handlers : hand[g].copy.ev # c.ev
  BY DEF Lone
<1>6. \A g \in Handlers : \A d \in BagToSet(queue') : hand'[g].copy.ev # d.ev
  BY <1>1, <1>2, <1>4 DEF Lone
<1>7. \A g, k \in Handlers : hand'[g] # Empty /\ hand'[g].copy.ev = hand'[k].copy.ev => g = k
  BY <1>2, <1>5 DEF Lone
<1>8. Lone(queue', hand')
  BY <1>1, <1>4, <1>6, <1>7 DEF Lone
<1> QED BY <1>1, <1>2, <1>8 DEF Has

\* A handler gives its copy up, or back as it is counted now.
LEMMA LoneRelease ==
    ASSUME TypeOK, Lone(queue, hand), NEW h \in Handlers, hand[h] # Empty, Release(h),
           UNCHANGED queue \/ queue' = queue (+) One(Again(h))
    PROVE  /\ Lone(queue', hand')
           /\ \A f \in Events : Has(queue', hand', f) => Has(queue, hand, f)
<1>1. \A g \in Handlers : hand'[g] = IF g = h THEN Empty ELSE hand[g]
  BY ReleaseEffect DEF TypeOK
<1>2. hand[h].copy.ev \in Events /\ Again(h).ev = hand[h].copy.ev
  BY FullHand, AgainIs
<1>3. CASE UNCHANGED queue
  <2>1. \A g \in Handlers : \A c \in BagToSet(queue) : hand'[g].copy.ev # c.ev
    <3>1. \A c \in BagToSet(queue) : c.ev \in Events
      BY DEF TypeOK, Copies
    <3> QED BY <1>1, <3>1, EmptyHand DEF Lone
  <2>2. \A g, k \in Handlers : hand'[g] # Empty /\ hand'[g].copy.ev = hand'[k].copy.ev => g = k
    <3>1. \A g \in Handlers : hand[g] # Empty => hand[g].copy.ev \in Events
      BY FullHand
    <3> QED BY <1>1, <3>1, EmptyHand DEF Lone
  <2>3. Lone(queue', hand')
    BY <1>3, <2>1, <2>2 DEF Lone
  <2> QED BY <1>1, <1>3, <2>3, EmptyHand DEF Has
<1>4. CASE queue' = queue (+) One(Again(h))
  <2>1. \A c \in BagToSet(queue) : c.ev # Again(h).ev
    BY <1>2 DEF Lone
  <2>2. /\ BagToSet(queue') = BagToSet(queue) \cup {Again(h)}
        /\ \A d \in BagToSet(queue) : d # Again(h) => queue'[d] = queue[d]
        /\ queue'[Again(h)] = 1
    BY <1>4, <2>1, PutCopy DEF TypeOK
  <2>3. \A c \in BagToSet(queue') : c.ev \in Events /\ queue'[c] = 1
    BY <1>2, <2>1, <2>2 DEF TypeOK, Copies, Lone
  <2>4. \A c, d \in BagToSet(queue') : c.ev = d.ev => c = d
    BY <2>1, <2>2 DEF Lone
  <2>5. \A g \in Handlers \ {h} : hand[g].copy.ev # hand[h].copy.ev
    BY DEF Lone
  <2>6. \A g \in Handlers : \A c \in BagToSet(queue') : hand'[g].copy.ev # c.ev
    BY <1>1, <1>2, <2>2, <2>3, <2>5, EmptyHand DEF Lone
  <2>7. \A g, k \in Handlers : hand'[g] # Empty /\ hand'[g].copy.ev = hand'[k].copy.ev => g = k
    <3>1. \A g \in Handlers : hand[g] # Empty => hand[g].copy.ev \in Events
      BY FullHand
    <3> QED BY <1>1, <3>1, EmptyHand DEF Lone
  <2>8. Lone(queue', hand')
    BY <2>3, <2>4, <2>6, <2>7 DEF Lone
  <2> QED BY <1>1, <1>2, <2>2, <2>8, EmptyHand DEF Has
<1> QED BY <1>3, <1>4

LEMMA SingleStep ==
    ASSUME TypeOK, Recorded, Locks, Single, [Next]_vars
    PROVE  Single'
<1> SUFFICES ASSUME trouble' = 0
             PROVE  /\ \A w \in Relays : relay'[w].open \/ relay'[w] = IdleRelay
                    /\ \A e \in Events : Has(queue', hand', e) =>
                          row'[e] = "sent" \/ \E w \in Relays : relay'[w].open /\ e \in relay'[w].sent
                    /\ Lone(queue', hand')
  BY DEF Single, Has, Lone
<1>0. /\ trouble = 0 /\ ~Fails
      /\ \A w \in Relays : relay[w].open \/ relay[w] = IdleRelay
      /\ \A e \in Events : Has(queue, hand, e) =>
            row[e] = "sent" \/ \E w \in Relays : relay[w].open /\ e \in relay[w].sent
      /\ Lone(queue, hand)
  <2>1. trouble \in Nat /\ trouble =< trouble'
    BY RowsStay, OutboxConstants DEF TypeOK
  <2>2. trouble = 0 /\ ~Fails
    BY <2>1 DEF Fails
  <2> QED BY <2>2 DEF Single
<1> DEFINE Open(rl) == \A w \in Relays : rl[w].open \/ rl[w] = IdleRelay
<1> DEFINE Out(e) == row'[e] = "sent" \/ \E w \in Relays : relay'[w].open /\ e \in relay'[w].sent
<1> DEFINE Goal == /\ Open(relay') /\ Lone(queue', hand')
                   /\ \A e \in Events : Has(queue', hand', e) => Out(e)
<1>1. ASSUME UNCHANGED relay, \A f \in Events : row[f] # "none" => row'[f] = row[f],
             Lone(queue', hand'), \A f \in Events : Has(queue', hand', f) => Has(queue, hand, f)
      PROVE  Goal
  BY <1>0, <1>1
<1>2. ASSUME NEW e \in Events, Step(e)
      PROVE  Goal
  <2>1. UNCHANGED <<relay, queue, hand>> /\ \A f \in Events : row[f] # "none" => row'[f] = row[f]
    BY <1>2, EventStepKeeps DEF broker
  <2>2. Lone(queue', hand') /\ \A f \in Events : Has(queue', hand', f) => Has(queue, hand, f)
    BY <1>0, <2>1
  <2> HIDE DEF Goal
  <2> QED BY <1>1, <2>1, <2>2
<1>3. ASSUME NEW h \in Handlers, Handles(h)
      PROVE  Goal
  <2>1. ASSUME NEW c \in BagToSet(queue), NEW res \in Results, TakesUp(h, c, res)
        PROVE  Goal
    <3>1. UNCHANGED relay /\ Taken(h, c, res)
      BY <2>1 DEF TakesUp
    <3>2. \A f \in Events : row[f] # "none" => row'[f] = row[f]
      BY <2>1, TakesUpEffect
    <3>3. Lone(queue', hand') /\ \A f \in Events : Has(queue', hand', f) => Has(queue, hand, f)
      BY <1>0, <3>1, LoneTake
    <3> HIDE DEF Goal
    <3> QED BY <1>1, <3>1, <3>2, <3>3
  <2>2. CASE LetsGo(h)
    <3>1. UNCHANGED <<relay, row>> /\ hand[h] # Empty /\ Release(h)
      BY <2>2, LetsGoKeeps DEF table
    <3>2. Ack(h) \/ Settle(h)
      BY <1>0, <2>2 DEF LetsGo, SettleFails, Die
    <3>3. UNCHANGED queue \/ queue' = queue (+) One(Again(h))
      BY <3>2 DEF Ack, Settle
    <3>4. Lone(queue', hand') /\ \A f \in Events : Has(queue', hand', f) => Has(queue, hand, f)
      BY <1>0, <3>1, <3>3, LoneRelease
    <3> HIDE DEF Goal
    <3> QED BY <1>1, <3>1, <3>4
  <2> HIDE DEF Goal
  <2> QED BY <1>3, <2>1, <2>2, HandlesIs
<1>4. ASSUME UNCHANGED vars
      PROVE  Goal
  <2>1. UNCHANGED <<relay, row, queue, hand>>
    BY <1>4 DEF vars, table, broker
  <2> QED BY <1>0, <2>1
<1>5. ASSUME NEW w \in Relays, Relaying(w)
      PROVE  Goal
  <2>0. UNCHANGED hand /\ \A v \in Relays \ {w} : relay'[v] = relay[v]
    BY <1>5, RelayStepKeeps
  <2>1. ASSUME NEW f \in Events, Has(queue, hand, f), UNCHANGED row \/ Mark(w),
               relay[w].open => (relay'[w].open /\ relay[w].sent \subseteq relay'[w].sent) \/ Mark(w)
        PROVE  Out(f)
    <3>1. CASE row[f] = "sent"
      <4>1. row'[f] = "sent"
        BY <1>5, <3>1, RelayStepKeeps
      <4> QED BY <4>1
    <3>2. ASSUME NEW v \in Relays, relay[v].open, f \in relay[v].sent
          PROVE  Out(f)
      <4>1. CASE v # w
        BY <2>0, <3>2, <4>1
      <4>2. CASE v = w /\ ~Mark(w)
        BY <2>1, <3>2, <4>2
      <4>3. CASE v = w /\ Mark(w)
        <5>1. row'[f] = "sent"
          BY <3>2, <4>3, SentEffect DEF Mark
        <5> QED BY <5>1
      <4> QED BY <4>1, <4>2, <4>3
    <3> QED BY <1>0, <2>1, <3>1, <3>2
  <2>2. ASSUME UNCHANGED queue, relay'[w].open \/ relay'[w] = IdleRelay, UNCHANGED row \/ Mark(w),
               relay[w].open => (relay'[w].open /\ relay[w].sent \subseteq relay'[w].sent) \/ Mark(w)
        PROVE  Goal
    <3>1. Open(relay') /\ Lone(queue', hand')
      BY <1>0, <2>0, <2>2
    <3>2. \A f \in Events : Has(queue', hand', f) => Has(queue, hand, f)
      BY <2>0, <2>2
    <3> HIDE DEF Out
    <3> QED BY <2>1, <2>2, <3>1, <3>2
  <2>3. CASE Lock(w)
    <3>1. relay'[w].open
      BY <2>3 DEF Lock, TypeOK
    <3>2. ~relay[w].open /\ UNCHANGED <<row, queue>>
      BY <2>3 DEF Lock, IdleRelay, table, broker
    <3> HIDE DEF Goal
    <3> QED BY <2>2, <3>1, <3>2
  <2>4. CASE Publish(w)
    <3>1. PICK e \in relay[w].left :
            /\ relay' = [relay EXCEPT ![w].left = @ \ {e}, ![w].sent = @ \cup {e}]
            /\ queue' = queue (+) One(Copy(e))
      BY <1>0, <2>4, EarliestAreOf DEF Publish
    <3>2. e \in Events /\ relay[w].open /\ UNCHANGED row
      BY <2>4 DEF Publish, Sending, table, TypeOK, Batch
    <3>3. relay'[w].open /\ relay'[w].sent = relay[w].sent \cup {e}
      BY <3>1, <3>2 DEF TypeOK, Batch
    <3>4. ~Has(queue, hand, e)
      <4>1. row[e] # "sent"
        BY <3>1, <3>2 DEF Locks
      <4>2. \A v \in Relays : relay[v].open => e \notin relay[v].sent
        BY <3>1, <3>2 DEF Locks
      <4> QED BY <1>0, <3>2, <4>1, <4>2
    <3>5. /\ Lone(queue', hand')
          /\ \A f \in Events : Has(queue', hand', f) => f = e \/ Has(queue, hand, f)
      BY <1>0, <2>0, <3>1, <3>2, <3>4, LonePut
    <3>6. Open(relay')
      BY <1>0, <2>0, <3>3
    <3>7. Out(e)
      BY <3>3
    <3> HIDE DEF Out
    <3> QED BY <2>1, <3>2, <3>3, <3>5, <3>6, <3>7
  <2>5. CASE OutOfTime(w)
    <3>1. relay'[w].open /\ relay'[w].sent = relay[w].sent
      BY <2>5 DEF OutOfTime, EndBatch, Sending, TypeOK, Batch
    <3>2. UNCHANGED <<row, queue>>
      BY <2>5 DEF OutOfTime, table, broker
    <3> HIDE DEF Goal
    <3> QED BY <2>2, <3>1, <3>2
  <2>6. CASE Mark(w)
    <3>1. relay'[w] = IdleRelay /\ UNCHANGED queue
      BY <2>6, FreeEffect DEF Mark, broker, TypeOK
    <3> HIDE DEF Goal
    <3> QED BY <2>2, <2>6, <3>1
  <2>7. ~PublishFails(w) /\ ~MarkFails(w) /\ ~Expire(w)
    BY <1>0 DEF PublishFails, MarkFails, Expire
  <2>8. ~HungPublish(w)
    BY <1>0 DEF HungPublish, IdleRelay
  <2> HIDE DEF Goal
  <2> QED BY <1>5, <2>3, <2>4, <2>5, <2>6, <2>7, <2>8 DEF Relaying
<1> HIDE DEF Goal
<1>6. Goal
  BY <1>2, <1>3, <1>4, <1>5, NextIs
<1> QED BY <1>6 DEF Goal

\* One copy at most, counted.
LEMMA SingleCounts ==
    ASSUME TypeOK, Single
    PROVE  OneCopy
<1> SUFFICES ASSUME trouble = 0, NEW e \in Events
             PROVE  Cardinality(Waiting(e)) + Cardinality(At(e)) =< 1
  BY DEF OneCopy
<1>1. Lone(queue, hand)
  BY DEF Single
<1>2. \A c \in BagToSet(queue) : queue[c] = 1 /\ 1..queue[c] = {1}
  BY <1>1 DEF Lone
<1>3. Cardinality({}) = 0 /\ \A x : Cardinality({x}) = 1
  BY FS_EmptySet, FS_Singleton
<1>4. CASE \E c \in BagToSet(queue) : c.ev = e
  <2>1. PICK c \in BagToSet(queue) : c.ev = e
    BY <1>4
  <2>2. {d \in BagToSet(queue) : d.ev = e} = {c}
    BY <1>1, <2>1 DEF Lone
  <2>3. Waiting(e) = {<<c, 1>>}
    BY <1>2, <2>2 DEF Waiting
  <2>4. At(e) = {}
    BY <1>1, <2>1 DEF Lone, At
  <2> QED BY <1>3, <2>3, <2>4
<1>5. CASE ~\E c \in BagToSet(queue) : c.ev = e
  <2>1. Waiting(e) = {}
    BY <1>5 DEF Waiting
  <2>2. At(e) = {} \/ \E h \in Handlers : At(e) = {h}
    <3>1. ASSUME NEW g \in At(e), NEW h \in At(e) PROVE g = h
      <4>1. hand[g] # Empty
        BY FullHand DEF At
      <4> QED BY <1>1, <4>1 DEF Lone, At
    <3> QED BY <3>1 DEF At
  <2>3. Cardinality(At(e)) = 0 \/ Cardinality(At(e)) = 1
    BY <1>3, <2>2
  <2>4. Cardinality(Waiting(e)) = 0
    BY <1>3, <2>1
  <2> QED BY <2>3, <2>4
<1> QED BY <1>4, <1>5

-----------------------------------------------------------------------------
(* What was sent is not lost (SentAlive, MarkedAlive).                     *)

\* A copy goes on to a handler, a queue or the parked until its work is done.
LEMMA AliveStep ==
    ASSUME TypeOK, Marked, [Next]_vars, NEW e \in Events, Alive(e)
    PROVE  Alive(e)'
<1> DEFINE Goal == \/ done'[e] > 0 \/ e \in parked'
                   \/ \E c \in BagToSet(queue') : c.ev = e
                   \/ \E h \in Handlers : hand'[h].copy.ev = e
<1>0. done[e] \in Nat /\ done'[e] \in Nat /\ done[e] =< done'[e] /\ parked \subseteq parked'
  BY RowsStay, TypeStep DEF TypeOK
<1>1. CASE done[e] > 0 \/ e \in parked
  <2>1. done'[e] > 0 \/ e \in parked'
    BY <1>0, <1>1
  <2> QED BY <2>1 DEF Alive
<1>2. CASE Has(queue, hand, e)
  <2>1. ASSUME NEW f \in Events, Step(f)
        PROVE  Goal
    <3>1. UNCHANGED <<queue, hand>>
      BY <2>1, EventStepKeeps DEF broker
    <3> QED BY <1>2, <3>1 DEF Has
  <2>2. ASSUME NEW w \in Relays, Relaying(w)
        PROVE  Goal
    <3>1. UNCHANGED hand /\ Publishes(w)
      BY <2>2, RelayStepKeeps
    <3>2. BagToSet(queue) \subseteq BagToSet(queue')
      <4>1. ASSUME NEW f \in relay[w].left, queue' = queue (+) One(Copy(f))
            PROVE  BagToSet(queue) \subseteq BagToSet(queue')
        BY <4>1, PutCopy DEF TypeOK
      <4> QED BY <3>1, <4>1 DEF Publishes
    <3> QED BY <1>2, <3>1, <3>2 DEF Has
  <2>3. ASSUME NEW h \in Handlers, Handles(h)
        PROVE  Goal
    <3>1. ASSUME NEW c \in BagToSet(queue), NEW res \in Results, TakesUp(h, c, res)
          PROVE  Goal
      <4>1. /\ BagToSet(queue) \ {c} \subseteq BagToSet(queue')
            /\ hand[h] = Empty /\ hand' = [hand EXCEPT ![h] = [copy |-> c, res |-> res]]
        BY <3>1, TakenEffect DEF TakesUp, Results
      <4>2. \A g \in Handlers : hand'[g] = IF g = h THEN [copy |-> c, res |-> res] ELSE hand[g]
        BY <4>1 DEF TypeOK
      <4>3. hand[h].copy.ev # e
        BY <4>1, EmptyHand
      <4>4. hand'[h].copy = c
        BY <4>2
      <4>5. \A g \in Handlers : hand[g].copy.ev = e => hand'[g].copy.ev = e
        BY <4>2, <4>3
      <4> QED BY <1>2, <4>1, <4>4, <4>5 DEF Has
    <3>2. CASE LetsGo(h)
      <4>1. /\ hand[h] # Empty /\ hand' = [hand EXCEPT ![h] = Empty]
            /\ BagToSet(queue) \subseteq BagToSet(queue')
            /\ hand[h].res # "ack" \/ Fails =>
                  hand[h].copy.ev \in parked' \/ \E d \in BagToSet(queue') : d.ev = hand[h].copy.ev
            /\ done' = done
        BY <3>2, LetsGoKeeps, ReleaseEffect DEF work
      <4>2. CASE hand[h].copy.ev = e
        <5>1. CASE hand[h].res = "ack"
          BY <1>0, <4>2, <5>1 DEF Marked
        <5>2. CASE hand[h].res # "ack"
          BY <4>1, <4>2, <5>2
        <5> QED BY <5>1, <5>2
      <4>3. CASE hand[h].copy.ev # e
        <5>1. \A g \in Handlers : hand[g].copy.ev = e => hand'[g].copy.ev = e
          BY <4>1, <4>3 DEF TypeOK
        <5> QED BY <1>2, <4>1, <5>1 DEF Has
      <4> QED BY <4>2, <4>3
    <3> HIDE DEF Goal
    <3> QED BY <2>3, <3>1, <3>2, HandlesIs
  <2>4. ASSUME UNCHANGED vars
        PROVE  Goal
    <3>1. UNCHANGED <<queue, hand>>
      BY <2>4 DEF vars, broker
    <3> QED BY <1>2, <3>1 DEF Has
  <2> HIDE DEF Goal
  <2>5. Goal
    BY <2>1, <2>2, <2>3, <2>4, NextIs
  <2> QED BY <2>5 DEF Goal, Alive
<1> QED BY <1>1, <1>2 DEF Alive, Has

LEMMA SentAliveStep ==
    ASSUME TypeOK, Marked, SentAlive, [Next]_vars
    PROVE  SentAlive'
<1> SUFFICES ASSUME Confirmed, NEW w \in Relays, NEW e \in relay'[w].sent
             PROVE  Alive(e)'
  BY DEF SentAlive
<1>0. e \in Events
  BY TypeStep DEF TypeOK, Batch
<1>1. CASE e \in relay[w].sent
  BY <1>0, <1>1, AliveStep DEF SentAlive
<1>2. CASE e \notin relay[w].sent
  <2>1. relay'[w] # relay[w]
    BY <1>2
  <2>2. Relaying(w)
    <3>1. ASSUME NEW f \in Events, Step(f) PROVE relay' = relay
      BY <3>1, EventStepKeeps
    <3>2. ASSUME NEW v \in Relays, Relaying(v) PROVE v = w
      BY <2>1, <3>2, RelayStepKeeps
    <3>3. ASSUME NEW h \in Handlers, Handles(h) PROVE relay' = relay
      <4>1. ASSUME NEW c \in BagToSet(queue), NEW res \in Results, TakesUp(h, c, res)
            PROVE  relay' = relay
        BY <4>1 DEF TakesUp
      <4>2. CASE LetsGo(h)
        BY <4>2, LetsGoKeeps
      <4> QED BY <3>3, <4>1, <4>2, HandlesIs
    <3>4. UNCHANGED vars => relay' = relay
      BY DEF vars
    <3>5. Next
      BY <2>1, <3>4
    <3> QED BY <2>1, <3>1, <3>2, <3>3, <3>5, NextIs
  <2>3. CASE Publish(w)
    <3>1. PICK f \in relay[w].left :
            /\ relay' = [relay EXCEPT ![w].left = @ \ {f}, ![w].sent = @ \cup {f}]
            /\ queue' = queue (+) One(Copy(f))
      BY <2>3, EarliestAreOf DEF Publish
    <3>2. relay'[w].sent = relay[w].sent \cup {f} /\ f \in Events
      BY <3>1 DEF TypeOK, Batch
    <3>3. e = f /\ Copy(f).ev = f /\ Copy(f) \in BagToSet(queue')
      BY <1>2, <3>1, <3>2, CopyType, PutCopy DEF TypeOK
    <3> QED BY <3>3 DEF Alive
  <2>4. CASE ~Publish(w)
    <3>1. relay'[w].sent \subseteq relay[w].sent
      <4>1. CASE Lock(w)
        BY <4>1 DEF Lock, TypeOK
      <4>2. CASE PublishFails(w) \/ OutOfTime(w)
        BY <4>2 DEF PublishFails, OutOfTime, EndBatch, TypeOK, Batch
      <4>3. CASE Mark(w) \/ MarkFails(w) \/ Expire(w) \/ HungPublish(w)
        <5>1. relay'[w] = IdleRelay \/ relay'[w] = [relay[w] EXCEPT !.open = FALSE]
          BY <4>3 DEF Mark, MarkFails, Expire, HungPublish, Free, TypeOK
        <5> QED BY <5>1 DEF IdleRelay, TypeOK, Batch
      <4> QED BY <2>2, <2>4, <4>1, <4>2, <4>3 DEF Relaying
    <3> QED BY <1>2, <3>1
  <2> QED BY <2>3, <2>4
<1> QED BY <1>1, <1>2

\* A row is marked for what its relay sent.
LEMMA RowMarked ==
    ASSUME TypeOK, [Next]_vars, NEW e \in Events, row'[e] = "sent"
    PROVE  row[e] = "sent" \/ \E w \in Relays : e \in relay[w].sent
<1>1. ASSUME NEW f \in Events, Step(f) PROVE row[e] = "sent"
  BY <1>1, EventStepKeeps
<1>2. ASSUME NEW w \in Relays, Relaying(w) PROVE row[e] = "sent" \/ e \in relay[w].sent
  BY <1>2, RelayStepKeeps
<1>3. ASSUME NEW h \in Handlers, Handles(h) PROVE row[e] = "sent"
  <2>1. ASSUME NEW c \in BagToSet(queue), NEW res \in Results, TakesUp(h, c, res)
        PROVE  row[e] = "sent"
    BY <2>1, TakesUpEffect
  <2>2. CASE LetsGo(h)
    BY <2>2, LetsGoKeeps DEF table
  <2> QED BY <1>3, <2>1, <2>2, HandlesIs
<1>4. UNCHANGED vars => row[e] = "sent"
  BY DEF vars, table
<1> QED BY <1>1, <1>2, <1>3, <1>4, NextIs

LEMMA MarkedAliveStep ==
    ASSUME TypeOK, Marked, SentAlive, MarkedAlive, [Next]_vars
    PROVE  MarkedAlive'
<1>1. ASSUME Confirmed, NEW e \in Events, row'[e] = "sent"
      PROVE  Alive(e)'
  <2>1. Alive(e)
    <3>1. CASE row[e] = "sent"
      BY <1>1, <3>1 DEF MarkedAlive, AtLeastOnce, Alive
    <3>2. CASE \E w \in Relays : e \in relay[w].sent
      BY <1>1, <3>2 DEF SentAlive
    <3> QED BY <1>1, <3>1, <3>2, RowMarked
  <2> QED BY <2>1, AliveStep
<1> QED BY <1>1 DEF MarkedAlive, AtLeastOnce, Alive

-----------------------------------------------------------------------------
(* Each step is one of Delivery's, or leaves what Delivery speaks of alone. *)

Rows == {e \in Events : row[e] # "none"}

\* A row more, or as many.
LEMMA InsertRecords ==
    ASSUME TypeOK, NEW e, e \in Events \cup {NoEvent}, Insert(e)
    PROVE  Rows' = Rows \/ (e \in Events \ Rows /\ Rows' = Rows \cup {e})
<1>1. CASE e = NoEvent \/ row[e] # "none"
  <2>1. row' = row
    BY <1>1 DEF Insert, table
  <2> QED BY <2>1 DEF Rows
<1>2. CASE ~(e = NoEvent \/ row[e] # "none")
  <2>1. e \in Events /\ row[e] = "none" /\ row' = [row EXCEPT ![e] = "pending"]
    BY <1>2 DEF Insert
  <2>2. \A f \in Events : row'[f] # "none" <=> f = e \/ row[f] # "none"
    BY <2>1 DEF TypeOK
  <2> QED BY <2>1, <2>2 DEF Rows
<1> QED BY <1>1, <1>2

LEMMA RowsSame ==
    ASSUME \A e \in Events : row'[e] # "none" <=> row[e] # "none"
    PROVE  Rows' = Rows
BY DEF Rows

\* Work done where it was not is Delivery's Do.
LEMMA WorkDelivers ==
    ASSUME TypeOK, Marked, NEW e \in Events, Work(e), ~Refused(e), Written(e), UNCHANGED parked
    PROVE  Promise!Do(e) \/ UNCHANGED Promise!vars
<1>1. CASE e \in inbox
  BY <1>1 DEF Work, work, table, Promise!vars
<1>2. CASE e \notin inbox
  <2>1. done[e] = 0
    BY <1>2 DEF Marked, Refused
  <2>2. done' = [done EXCEPT ![e] = @ + 1] /\ Insert(Follows[e])
    BY <1>2 DEF Work
  <2>3. done' = [done EXCEPT ![e] = 1]
    BY <2>1, <2>2
  <2>4. Follows[e] \in Events \cup {NoEvent}
    BY OutboxConstants
  <2>5. Rows' = Rows \/ \E f \in Events \ Rows : Rows' = Rows \cup {f}
    BY <2>2, <2>4, InsertRecords
  <2>6. e \in Rows
    BY DEF Written, Rows
  <2> QED BY <2>1, <2>3, <2>5, <2>6 DEF Promise!Do, Rows
<1> QED BY <1>1, <1>2

LEMMA DeliveryStep ==
    ASSUME TypeOK, Recorded, Marked, [Next]_vars
    PROVE  [Promise!Next]_(Promise!vars)
<1>1. ASSUME NEW e \in Events, Step(e)
      PROVE  Promise!Record(e) \/ Promise!Do(e) \/ UNCHANGED Promise!vars
  <2>1. UNCHANGED parked
    BY <1>1, EventStepKeeps DEF broker
  <2>2. CASE Adds(e)
    <3>1. UNCHANGED <<done, parked>> /\ Insert(e)
      BY <2>1, <2>2 DEF Adds, work
    <3>2. Rows' = Rows \/ (e \notin Rows /\ Rows' = Rows \cup {e})
      BY <3>1, InsertRecords
    <3> QED BY <3>1, <3>2 DEF Promise!Record, Promise!vars, Rows
  <2>3. CASE DirectWork(e)
    <3>1. done[e] = 0 /\ e \in Rows
      BY <2>3 DEF DirectWork, Rows
    <3>2. CASE Policy[e] = "wallet"
      <4>1. done' = [done EXCEPT ![e] = 1] /\ row' = row
        BY <2>3, <3>2 DEF DirectWork, table
      <4> QED BY <2>1, <3>1, <4>1 DEF Promise!Do, Rows
    <3>3. CASE Policy[e] # "wallet"
      BY <2>1, <2>3, <3>1, <3>3, WorkDelivers DEF DirectWork, Refused, Rows, Written
    <3> QED BY <3>2, <3>3
  <2>4. CASE ReferenceAppears(e)
    BY <2>4 DEF ReferenceAppears, table, broker, work, Promise!vars
  <2> QED BY <1>1, <2>2, <2>3, <2>4 DEF Step
<1>2. ASSUME NEW w \in Relays, Relaying(w)
      PROVE  UNCHANGED Promise!vars
  <2>1. \A e \in Events : row'[e] # "none" <=> row[e] # "none"
    BY <1>2, RelayStepKeeps DEF Recorded, Written
  <2>2. UNCHANGED <<done, parked>>
    BY <1>2, RelayStepKeeps DEF work
  <2> QED BY <2>1, <2>2, RowsSame DEF Promise!vars, Rows
<1>3. ASSUME NEW h \in Handlers, Handles(h)
      PROVE  UNCHANGED Promise!vars \/ \E e \in Events : Promise!Do(e) \/ Promise!Park(e)
  <2>1. ASSUME NEW c \in BagToSet(queue), NEW res \in Results, TakesUp(h, c, res)
        PROVE  UNCHANGED Promise!vars \/ \E e \in Events : Promise!Do(e)
    <3>1. c.ev \in Events /\ Written(c.ev) /\ UNCHANGED parked
      BY <2>1, TakesUpEffect DEF Recorded, TakesUp
    <3>2. CASE UNCHANGED <<work, table>>
      BY <3>1, <3>2 DEF work, table, Promise!vars
    <3>3. CASE ~Refused(c.ev) /\ Work(c.ev)
      BY <3>1, <3>3, WorkDelivers
    <3> QED BY <2>1, <3>2, <3>3 DEF TakesUp
  <2>2. CASE LetsGo(h)
    <3>1. UNCHANGED <<row, done>> /\ hand[h] # Empty
      BY <2>2, LetsGoKeeps DEF table, work
    <3>2. hand[h].copy.ev \in Events /\ hand[h].copy.ev \in Rows
      BY <3>1, FullHand DEF Recorded, Written, Rows
    <3>3. parked' = parked \/ parked' = parked \cup {hand[h].copy.ev}
      BY <2>2, LetsGoKeeps
    <3>4. CASE parked' = parked
      BY <3>1, <3>4 DEF Promise!vars
    <3>5. CASE parked' # parked
      <4>1. hand[h].copy.ev \notin parked /\ parked' = parked \cup {hand[h].copy.ev}
        BY <3>3, <3>5
      <4>2. Promise!Park(hand[h].copy.ev)
        BY <3>1, <3>2, <4>1 DEF Promise!Park, Rows
      <4> QED BY <3>2, <4>2
    <3> QED BY <3>4, <3>5
  <2> QED BY <1>3, <2>1, <2>2, HandlesIs
<1>4. ASSUME UNCHANGED vars
      PROVE  UNCHANGED Promise!vars
  BY <1>4 DEF vars, table, work, broker, Promise!vars
<1>5. CASE Next
  BY <1>1, <1>2, <1>3, <1>5, NextIs DEF Promise!Next
<1> QED BY <1>4, <1>5

-----------------------------------------------------------------------------
(* The theorems.                                                           *)

LEMMA InitInv == ASSUME Init PROVE IInv
<1>1. TypeOK
  BY TypeInit
<1>2. BagToSet(queue) = {} /\ \A h \in Handlers : hand[h] = Empty
  BY DEF Init, BagToSet, EmptyBag, SetToBag
<1>3. \A e \in Events : done[e] = 0 /\ misses[e] = 0 /\ row[e] = "none"
  BY DEF Init
<1>4. \A w \in Relays : relay[w] = IdleRelay
  BY DEF Init
<1>5. Recorded
  BY <1>2, <1>3, <1>4 DEF Recorded, Init, IdleRelay
<1>6. Marked
  BY <1>2, <1>3, EmptyHand DEF Marked, Init
<1>7. Tries
  BY <1>2 DEF Tries
<1>8. Locks
  BY <1>4 DEF Locks, IdleRelay
<1>9. Single
  BY <1>2, <1>4, EmptyHand DEF Single, Has, Lone
<1>10. SentAlive /\ MarkedAlive /\ ParkedIsEarned
  BY <1>3, <1>4 DEF SentAlive, MarkedAlive, AtLeastOnce, ParkedIsEarned, Init, IdleRelay
<1> QED BY <1>1, <1>5, <1>6, <1>7, <1>8, <1>9, <1>10 DEF IInv

LEMMA StepInv == ASSUME IInv, [Next]_vars PROVE IInv'
BY TypeStep, RecordedStep, MarkedStep, TriesStep, LocksStep, SingleStep, SentAliveStep,
   MarkedAliveStep, ParkedStep DEF IInv

THEOREM Invariance == Spec => []IInv
<1>1. Init => IInv
  BY InitInv
<1>2. IInv /\ [Next]_vars => IInv'
  BY StepInv
<1> QED BY <1>1, <1>2, PTL DEF Spec

\* Rows, batches, copies, marks and counts keep their types.
THEOREM TypeCorrect == Spec => []TypeOK
<1>1. IInv => TypeOK
  BY DEF IInv
<1> QED BY <1>1, Invariance, PTL

\* If a publish that returns no error has reached the broker, an event marked published is not
\* lost, whatever batch, settlement or pod failed, and however often.
THEOREM AtLeastOnceCorrect == ASSUME Confirmed PROVE Spec => []AtLeastOnce
<1>1. IInv => AtLeastOnce
  BY DEF IInv, MarkedAlive
<1> QED BY <1>1, Invariance, PTL

\* While nothing fails there is one copy of an event at most, however many pods relay.
THEOREM OneCopyCorrect == Spec => []OneCopy
<1>1. IInv => OneCopy
  BY SingleCounts DEF IInv
<1> QED BY <1>1, Invariance, PTL

\* An event is parked for its own fault only, never for an outage alone.
THEOREM ParkedIsEarnedCorrect == Spec => []ParkedIsEarned
<1>1. IInv => ParkedIsEarned
  BY DEF IInv
<1> QED BY <1>1, Invariance, PTL

\* However often it is published, redelivered or called for, an event's work is done at most
\* once, after it was recorded: each step is one of Delivery's or none.
THEOREM DeliversSafely == Spec => Promise!Init /\ [][Promise!Next]_(Promise!vars)
<1>1. Init => Promise!Init
  BY DEF Init, Promise!Init
<1>2. IInv /\ [Next]_vars => [Promise!Next]_(Promise!vars)
  BY DeliveryStep DEF IInv
<1> QED BY <1>1, <1>2, Invariance, PTL DEF Spec
=============================================================================
