------------------------------- MODULE Outbox -------------------------------
(***************************************************************************)
(* How an event gets from the transaction that causes it to the work it    *)
(* asks for (ADR-0069, FS-BVM9H, FS-9KW9F).  A service commits the event's *)
(* row with its cause; the service's relays lock pending rows in batches   *)
(* (SKIP LOCKED), publish them inside that transaction and mark what they  *)
(* sent; the broker hands each copy to a consumer of the service that      *)
(* subscribed, which does the work and marks the event in one transaction, *)
(* and settles a failed copy by its own policy.                            *)
(*                                                                         *)
(* One event has one subscriber here.  A delay queue is the work queue: a  *)
(* delay is only time.  A retry count that only picks a delay is left out. *)
(***************************************************************************)
EXTENDS Integers, FiniteSets, Bags

CONSTANTS
    Events,
    Relays,        \* outbox workers, one in each pod of a service
    Handlers,      \* consumers' goroutines
    NoEvent,
    Service,       \* Service[e]: the service whose outbox e is in; Service[w]: w's
    Policy,        \* Policy[e]: the service that consumes e
    Follows,       \* Follows[e]: the event e's work records, or NoEvent
    Bad,           \* events whose work is refused for good
    Late,          \* events whose work needs a row that may not be there yet
    Direct,        \* events whose work a call may do as well
    BatchSize,
    MaxAttempts,   \* maxBoundedAttempts in items-service
    MaxRetries,    \* len(retryDelays) in wallet-service
    Confirmed,     \* a publish that returns no error has reached the broker
    MaxTrouble     \* bound: calls that fail, go unanswered or die

ASSUME OutboxConstants ==
    /\ IsFiniteSet(Events) /\ Policy \in [Events -> {"items", "wallet", "auth"}]
    /\ NoEvent \notin Events /\ Follows \in [Events -> Events \cup {NoEvent}]
    /\ Bad \subseteq Events /\ Late \subseteq Events /\ Direct \subseteq Events
    /\ Events \cup Relays \subseteq DOMAIN Service
    /\ BatchSize \in Nat \ {0} /\ MaxAttempts \in Nat \ {0} /\ MaxRetries \in Nat
    /\ Confirmed \in BOOLEAN /\ MaxTrouble \in Nat

VARIABLES
    row,       \* row[e]: none, pending or sent (published_at is set)
    created,   \* created[e]: when e's row was written (created_at)
    relay,     \* relay[w]: the batch it has locked, what is left of it, what it sent
    queue,     \* the copies in the work queues
    hand,      \* hand[h]: the copy a handler has, and what became of it
    inbox,     \* the events marked processed
    done,      \* done[e]: how often e's work was done
    parked,    \* the events in a dead-letter queue
    missing,   \* the events whose row is not there yet
    misses,    \* misses[e]: handlings that found e's row missing
    trouble    \* failures so far

table == <<row, created>>
work == <<inbox, done>>
broker == <<queue, hand, parked>>
vars == <<table, relay, broker, work, missing, misses, trouble>>

-----------------------------------------------------------------------------
IdleRelay == [locked |-> {}, left |-> {}, sent |-> {}, open |-> FALSE]
Copy(e) == [ev |-> e, tries |-> 0]
Empty == [copy |-> Copy(NoEvent), res |-> "none"]

One(c) == SetToBag({c})

Init ==
    /\ row = [e \in Events |-> "none"]
    /\ created = [e \in Events |-> 0]
    /\ relay = [w \in Relays |-> IdleRelay]
    /\ queue = EmptyBag
    /\ hand = [h \in Handlers |-> Empty]
    /\ inbox = {}
    /\ done = [e \in Events |-> 0]
    /\ parked = {}
    /\ missing = Late
    /\ misses = [e \in Events |-> 0]
    /\ trouble = 0

\* a step that failed, or was not answered, counts against the bound
Fails == trouble < MaxTrouble /\ trouble' = trouble + 1

\* one row, under the id the event is known by: written again, it stays as it is
Insert(e) ==
    IF e = NoEvent \/ row[e] # "none" THEN UNCHANGED table
    ELSE /\ row' = [row EXCEPT ![e] = "pending"]
         /\ created' = [created EXCEPT ![e] = Cardinality({f \in Events : row[f] # "none"})]

\* the transaction that causes e commits
Record(e) ==
    /\ row[e] = "none" /\ \A f \in Events : Follows[f] # e
    /\ Insert(e)
    /\ UNCHANGED <<relay, broker, work, missing, misses, trouble>>

\* a commit that went unanswered is made again, under the id its caller derived
RecordAgain(e) ==
    /\ row[e] # "none" /\ Policy[e] = "items" /\ Fails
    /\ Insert(e)
    /\ UNCHANGED <<relay, broker, work, missing, misses>>

-----------------------------------------------------------------------------
(* A relay's batch.                                                        *)

\* mutant: the batch is read without a lock
LockedNone == {}

Locked == UNION {relay[w].locked : w \in {v \in Relays : relay[v].open}}

\* the first n of some rows by created_at
Earliest(S, n) == {e \in S : Cardinality({f \in S : created[f] < created[e]}) < n}

Lock(w) ==
    LET free == {e \in Events : Service[e] = Service[w] /\ row[e] = "pending" /\ e \notin Locked}
        batch == Earliest(free, BatchSize)
    IN /\ relay[w] = IdleRelay /\ free # {}
       /\ relay' = [relay EXCEPT ![w] = [locked |-> batch, left |-> batch, sent |-> {}, open |-> TRUE]]
       /\ UNCHANGED <<table, broker, work, missing, misses, trouble>>

Sending(w) == relay[w].open /\ relay[w].left # {}

\* the next row is published; unconfirmed, it may be lost on the way
Publish(w) ==
    /\ Sending(w)
    /\ \E e \in Earliest(relay[w].left, 1) :
          /\ \/ queue' = queue (+) One(Copy(e)) /\ UNCHANGED trouble
             \/ ~Confirmed /\ Fails /\ UNCHANGED queue
          /\ relay' = [relay EXCEPT ![w].left = @ \ {e}, ![w].sent = @ \cup {e}]
    /\ UNCHANGED <<table, hand, parked, work, missing, misses>>

EndBatch(w) == relay' = [relay EXCEPT ![w].left = {}]

\* an error ends the batch at this row, which may have gone out all the same
PublishFails(w) ==
    /\ Sending(w) /\ Fails
    /\ \/ \E e \in Earliest(relay[w].left, 1) : queue' = queue (+) One(Copy(e))
       \/ UNCHANGED queue
    /\ EndBatch(w)
    /\ UNCHANGED <<table, hand, parked, work, missing, misses>>

\* less than the margin is left: what was sent is committed first
OutOfTime(w) ==
    /\ Sending(w) /\ relay[w].sent # {}
    /\ EndBatch(w)
    /\ UNCHANGED <<table, broker, work, missing, misses, trouble>>

Sent(w) == [e \in Events |-> IF e \in relay[w].sent THEN "sent" ELSE row[e]]

Free(w) == relay' = [relay EXCEPT ![w] = IdleRelay]

\* mutant: the whole batch is marked, sent or not
MarkAll(w) ==
    /\ relay[w].open /\ relay[w].left = {}
    /\ row' = [e \in Events |-> IF e \in relay[w].locked THEN "sent" ELSE row[e]]
    /\ Free(w)
    /\ UNCHANGED <<created, broker, work, missing, misses, trouble>>

\* the rows sent are marked, and the transaction commits
Mark(w) ==
    /\ relay[w].open /\ relay[w].left = {}
    /\ row' = Sent(w)
    /\ Free(w)
    /\ UNCHANGED <<created, broker, work, missing, misses, trouble>>

\* the mark or its commit failed, or only its answer did
MarkFails(w) ==
    /\ relay[w].open /\ relay[w].left = {} /\ Fails
    /\ row' = Sent(w) \/ UNCHANGED row
    /\ Free(w)
    /\ UNCHANGED <<created, broker, work, missing, misses>>

\* the pod dies, or the deadline passes: the locks go, whatever was sent; a publish that
\* hangs outlives them
Expire(w) ==
    /\ relay[w].open /\ Fails
    /\ \/ Free(w)
       \/ relay[w].left # {} /\ relay' = [relay EXCEPT ![w].open = FALSE]
    /\ UNCHANGED <<table, broker, work, missing, misses>>

\* the hung publish returns, and finds its transaction gone
HungPublish(w) ==
    /\ ~relay[w].open /\ relay[w].left # {}
    /\ \/ \E e \in Earliest(relay[w].left, 1) : queue' = queue (+) One(Copy(e))
       \/ UNCHANGED queue
    /\ Free(w)
    /\ UNCHANGED <<table, hand, parked, work, missing, misses, trouble>>

-----------------------------------------------------------------------------
(* A consumer handles a copy.                                              *)

\* mutant: the work is done whether or not the event is marked
WorkUnmarked(e) == inbox' = inbox \cup {e} /\ done' = [done EXCEPT ![e] = @ + 1] /\ Insert(Follows[e])

\* the mark, the work and the event it causes: one transaction
Work(e) ==
    IF e \in inbox THEN UNCHANGED <<work, table>>
    ELSE /\ inbox' = inbox \cup {e}
         /\ done' = [done EXCEPT ![e] = @ + 1]
         /\ Insert(Follows[e])

\* an account is unique to its member: a second insert rolls everything back
Refused(e) == Policy[e] = "wallet" /\ done[e] > 0

\* h takes a copy from its queue, unacked, and it comes to res
Taken(h, c, res) ==
    /\ hand[h] = Empty
    /\ queue' = queue (-) One(c)
    /\ hand' = [hand EXCEPT ![h] = [copy |-> c, res |-> res]]

Process(h) ==
    \E c \in BagToSet(queue) :
        /\ IF c.ev \in Bad
           THEN Taken(h, c, "bad") /\ UNCHANGED <<work, table, misses>>
           ELSE IF c.ev \in missing \ inbox
           THEN /\ Taken(h, c, "missing")
                /\ misses' = [misses EXCEPT ![c.ev] = @ + 1]
                /\ UNCHANGED <<work, table>>
           ELSE /\ Taken(h, c, "ack") /\ UNCHANGED misses
                /\ IF Refused(c.ev) THEN UNCHANGED <<work, table>> ELSE Work(c.ev)
        /\ UNCHANGED <<relay, parked, missing, trouble>>

\* the database fails, or does not answer a commit it made
ProcessFails(h) ==
    \E c \in BagToSet(queue) :
        /\ c.ev \notin Bad /\ Fails
        /\ Taken(h, c, "outage")
        /\ \/ UNCHANGED <<work, table>>
           \/ c.ev \notin missing /\ ~Refused(c.ev) /\ Work(c.ev)
        /\ UNCHANGED <<relay, parked, missing, misses>>

\* a call does the work too: items-service marks the event, wallet-service knows none
DirectWork(e) ==
    /\ e \in Direct \ missing /\ row[e] # "none" /\ done[e] = 0
    /\ IF Policy[e] = "wallet"
       THEN done' = [done EXCEPT ![e] = 1] /\ UNCHANGED <<inbox, table>>
       ELSE Work(e)
    /\ UNCHANGED <<relay, broker, missing, misses, trouble>>

ReferenceAppears(e) ==
    /\ e \in missing
    /\ missing' = missing \ {e}
    /\ UNCHANGED <<table, relay, broker, work, misses, trouble>>

-----------------------------------------------------------------------------
(* How a handled copy is settled.  items-service retries an outage without *)
(* end and a missing row a bounded number of times; wallet-service retries *)
(* anything a bounded number of times; auth-service requeues.              *)

\* mutant: a retry of any kind counts toward the bound
CountsAny(p, res) == p # "auth"

Counts(p, res) == p = "wallet" \/ (p = "items" /\ res = "missing")

Again(h) ==
    LET c == hand[h].copy
    IN IF Counts(Policy[c.ev], hand[h].res) THEN [c EXCEPT !.tries = @ + 1] ELSE c

Exhausted(h) ==
    LET c == Again(h)
    IN CASE Policy[c.ev] = "items" -> c.tries >= MaxAttempts
         [] Policy[c.ev] = "wallet" -> c.tries > MaxRetries
         [] OTHER -> FALSE

Parks(h) == hand[h].res = "bad" \/ Exhausted(h)
Handled(h) == hand[h].res \in {"bad", "missing", "outage"}
Release(h) == hand' = [hand EXCEPT ![h] = Empty]

Ack(h) ==
    /\ hand[h].res = "ack"
    /\ Release(h)
    /\ UNCHANGED <<table, relay, queue, parked, work, missing, misses, trouble>>

\* its copy is confirmed where it was sent, then the original is acked
Settle(h) ==
    /\ Handled(h)
    /\ IF Parks(h)
       THEN parked' = parked \cup {hand[h].copy.ev} /\ UNCHANGED queue
       ELSE queue' = queue (+) One(Again(h)) /\ UNCHANGED parked
    /\ Release(h)
    /\ UNCHANGED <<table, relay, work, missing, misses, trouble>>

\* the copy is not confirmed, and may be there: the original goes back to its queue
\* (to be parked, it falls to the dead-letter exchange, which Settle's outcome is)
SettleFails(h) ==
    /\ Handled(h) /\ ~Parks(h) /\ Fails
    /\ \E lost \in BOOLEAN :
          queue' = IF lost THEN queue (+) One(hand[h].copy)
                   ELSE queue (+) One(hand[h].copy) (+) One(Again(h))
    /\ Release(h)
    /\ UNCHANGED <<table, relay, parked, work, missing, misses>>

\* the consumer dies, or its channel closes, with the copy not acked
Die(h) ==
    /\ hand[h] # Empty /\ Fails
    /\ queue' = queue (+) One(hand[h].copy)
    /\ Release(h)
    /\ UNCHANGED <<table, relay, parked, work, missing, misses>>

-----------------------------------------------------------------------------
Relaying(w) ==
    \/ Lock(w) \/ Publish(w) \/ PublishFails(w) \/ OutOfTime(w)
    \/ Mark(w) \/ MarkFails(w) \/ Expire(w) \/ HungPublish(w)

Handling(h) ==
    \/ Process(h) \/ ProcessFails(h)
    \/ Ack(h) \/ Settle(h) \/ SettleFails(h) \/ Die(h)

Next ==
    \/ \E e \in Events : Record(e) \/ RecordAgain(e) \/ DirectWork(e) \/ ReferenceAppears(e)
    \/ \E w \in Relays : Relaying(w)
    \/ \E h \in Handlers : Handling(h)

\* the worker's ticker and the consumers' loops run as long as their pods do; a row that is
\* there for good is not assumed to come
Fairness ==
    /\ \A w \in Relays : WF_vars(Lock(w)) /\ WF_vars(Publish(w) \/ Mark(w) \/ HungPublish(w))
    /\ \A h \in Handlers : WF_vars(Process(h)) /\ WF_vars(Ack(h) \/ Settle(h))

Spec == Init /\ [][Next]_vars
LiveSpec == Spec /\ Fairness

-----------------------------------------------------------------------------
Copies == [ev : Events, tries : Nat]
Batch == [locked : SUBSET Events, left : SUBSET Events, sent : SUBSET Events, open : BOOLEAN]

TypeOK ==
    /\ row \in [Events -> {"none", "pending", "sent"}]
    /\ created \in [Events -> Nat]
    /\ relay \in [Relays -> Batch]
    /\ IsABag(queue) /\ BagToSet(queue) \subseteq Copies
    /\ hand \in [Handlers -> {Empty} \cup [copy : Copies, res : {"ack", "bad", "missing", "outage"}]]
    /\ inbox \subseteq Events /\ parked \subseteq Events /\ missing \subseteq Late
    /\ done \in [Events -> Nat] /\ misses \in [Events -> Nat]
    /\ trouble \in 0..MaxTrouble

\* An event marked published is not lost: its work is done, or a copy of it is in a queue, in
\* a handler's hands or parked, whatever batch, publish, settlement or pod failed.
AtLeastOnce ==
    \A e \in Events : row[e] = "sent" =>
        \/ done[e] > 0 \/ e \in parked
        \/ \E c \in BagToSet(queue) : c.ev = e
        \/ \E h \in Handlers : hand[h].copy.ev = e

\* While nothing fails, however many pods relay, there is one copy of an event at most,
\* whatever attempt it is at: duplicates come from failures alone.
Waiting(e) == UNION {{c} \X (1..queue[c]) : c \in {d \in BagToSet(queue) : d.ev = e}}
At(e) == {h \in Handlers : hand[h].copy.ev = e}

OneCopy == trouble = 0 => \A e \in Events : Cardinality(Waiting(e)) + Cardinality(At(e)) <= 1

\* An event is parked for its own fault only: one that waited out an outage still gets all its
\* attempts at a row that is not there yet.
ParkedIsEarned ==
    \A e \in parked :
        \/ e \in Bad
        \/ Policy[e] = "items" /\ misses[e] >= MaxAttempts
        \/ Policy[e] = "wallet" /\ trouble + misses[e] > MaxRetries

\* An account that exists is announced: whoever created it, the event that tells auth-service
\* of it is recorded in the end.
Announced ==
    \A e \in Events : done[e] > 0 ~> Follows[e] = NoEvent \/ row[Follows[e]] # "none"

\* The whole path implements Delivery: each event's work is done at most once, after it was
\* recorded, and in the end it is done or the event is parked.
Promise == INSTANCE Delivery WITH recorded <- {e \in Events : row[e] # "none"}

Delivers == Promise!Spec
=============================================================================
