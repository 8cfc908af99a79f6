--------------------------- MODULE ItemReservation ---------------------------
(***************************************************************************)
(* How an item comes to be listed, across two databases (ADR-0050).        *)
(* items-service reserves it under a listing id it mints and queues the    *)
(* event; marketplace's consumer confirms the reservation, then inserts    *)
(* the listing; two reconcilers in marketplace settle reservations left    *)
(* waiting and confirmed reservations left without a listing.  Every write *)
(* to the item is one UPDATE, fenced on the listing id.                    *)
(*                                                                         *)
(* Ages are kept as far as they decide something: item.old is whether the  *)
(* stamp the reconcilers read (reserved_at, then updated_at) is past their *)
(* ten minutes.  A consumer never takes that long from its confirm to its  *)
(* insert, both of which are bounded by 10 s: the residual the design      *)
(* accepts.  The end of a listing is Settlement's; here it is only what it *)
(* does to the item.                                                       *)
(***************************************************************************)
EXTENDS Integers, FiniteSets, ReservedItem

CONSTANTS
    Consumers,      \* deliveries handled at once
    Unfit,          \* the listings whose rows the schema refuses
    Publishes,      \* Publishes[l]: how often the outbox may publish l's event
    LateRedelivery  \* whether an event may be handled past the grace of its confirmation

ReservationConstants ==
    /\ IsFiniteSet(Ids) /\ NoId \notin Ids
    /\ Unfit \subseteq Ids
    /\ Publishes \in [Ids -> Nat \ {0}]
    /\ LateRedelivery \in BOOLEAN

ASSUME ReservationAssumption == ReservationConstants

VARIABLES
    minted,    \* the ids in use
    over,      \* the ids whose ends_at has passed: NewListing refuses them
    outbox,    \* outbox[l]: how often l's event may yet be published
    queue,     \* queue[l]: copies of l's event to be delivered
    task,      \* task[c]: the event consumer c handles, and where it is
    late,      \* the ids whose insert went unanswered and may still land
    pass       \* pass[k]: the reservation pass k has read, and what it found

vars == <<item, minted, row, over, outbox, queue, task, late, pass>>
delivery == <<outbox, queue, task, late>>

Idle == [at |-> "idle", id |-> NoId]
Passes == {"stale", "confirmed"}

-----------------------------------------------------------------------------
Init ==
    /\ item = Free
    /\ minted = {}
    /\ row = [l \in Ids |-> "NONE"]
    /\ over = {}
    /\ outbox = [l \in Ids |-> 0]
    /\ queue = [l \in Ids |-> 0]
    /\ task = [c \in Consumers |-> Idle]
    /\ late = {}
    /\ pass = [k \in Passes |-> Idle]

\* the item's owner lists it: the reservation and its event are one transaction
ReserveItem(l) ==
    /\ item.status = "AVAILABLE" /\ l \notin minted
    /\ item' = [status |-> "LISTED", listing |-> l, waiting |-> TRUE, old |-> FALSE]
    /\ minted' = minted \cup {l}
    /\ outbox' = [outbox EXCEPT ![l] = Publishes[l]]
    /\ UNCHANGED <<row, over, queue, task, late, pass>>

\* the relay publishes the event, and may fail before it marks it sent
Publish(l) ==
    /\ outbox[l] > 0
    /\ outbox' \in {[outbox EXCEPT ![l] = 0], [outbox EXCEPT ![l] = @ - 1]}
    /\ queue' = [queue EXCEPT ![l] = @ + 1]
    /\ UNCHANGED <<item, minted, row, over, task, late, pass>>

-----------------------------------------------------------------------------
(* marketplace's consumer.                                                 *)

At(c, p) == task[c].at = p
Goto(c, p) == task' = [task EXCEPT ![c].at = p]

\* acked, or dead-lettered
Finish(c) == task' = [task EXCEPT ![c] = Idle] /\ UNCHANGED queue

Requeue(c) ==
    /\ task' = [task EXCEPT ![c] = Idle]
    /\ queue' = [queue EXCEPT ![task[c].id] = @ + 1]

\* a delivery whose terms are refused is dead-lettered before anything else
Deliver(c, l) ==
    /\ At(c, "idle") /\ queue[l] > 0
    /\ queue' = [queue EXCEPT ![l] = @ - 1]
    /\ task' = IF l \in over THEN task ELSE [task EXCEPT ![c] = [at |-> "confirm", id |-> l]]
    /\ UNCHANGED <<item, minted, row, over, outbox, late, pass>>

\* past the grace of an earlier confirmation that has no listing
PastGrace(l) == Listed(l) /\ ~item.waiting /\ item.old /\ row[l] = "NONE"

Confirm(c) ==
    LET l == task[c].id IN
    /\ At(c, "confirm")
    /\ LateRedelivery \/ ~PastGrace(l)
    /\ ConfirmReservation(l)
    /\ IF Listed(l) THEN Goto(c, "insert") /\ UNCHANGED queue ELSE Finish(c)
    /\ UNCHANGED <<minted, row, over, outbox, late, pass>>

\* items-service does not answer: the confirmation may have been made
ConfirmUnanswered(c) ==
    LET l == task[c].id IN
    /\ At(c, "confirm")
    /\ LateRedelivery \/ ~PastGrace(l)
    /\ ConfirmReservation(l) \/ UNCHANGED item
    /\ Requeue(c)
    /\ UNCHANGED <<minted, row, over, outbox, late, pass>>

\* idx_one_active_listing_per_item and the table's checks
Refused(l) == row[l] = "NONE" /\ (l \in Unfit \/ \E o \in Ids : row[o] = "ACTIVE")

Landed(l) == IF row[l] = "NONE" THEN [row EXCEPT ![l] = "ACTIVE"] ELSE row

\* inserted, or there already: a replay
Insert(c) ==
    LET l == task[c].id IN
    /\ At(c, "insert") /\ ~Refused(l)
    /\ row' = Landed(l)
    /\ Finish(c)
    /\ UNCHANGED <<item, minted, over, outbox, late, pass>>

\* mutant: an insert that was not answered is taken for one that was refused
UnansweredReleased(c) ==
    LET l == task[c].id IN
    /\ At(c, "insert")
    /\ late' = IF Refused(l) THEN late ELSE late \cup {l}
    /\ Goto(c, "release") /\ UNCHANGED queue
    /\ UNCHANGED <<item, minted, row, over, outbox, pass>>

\* the outcome is unknown: the row may land yet, and the event is delivered again
InsertUnanswered(c) ==
    LET l == task[c].id IN
    /\ At(c, "insert")
    /\ late' = IF Refused(l) THEN late ELSE late \cup {l}
    /\ Requeue(c)
    /\ UNCHANGED <<item, minted, row, over, outbox, pass>>

InsertRefused(c) ==
    /\ At(c, "insert") /\ Refused(task[c].id)
    /\ Goto(c, "release")
    /\ UNCHANGED <<item, minted, row, over, outbox, queue, late, pass>>

\* releaseAfterRefusal: dead-lettered once items-service has answered
ReleaseAfterRefusal(c) ==
    /\ At(c, "release")
    /\ ReleaseConfirmed(task[c].id)
    /\ Finish(c)
    /\ UNCHANGED <<minted, row, over, outbox, late, pass>>

ReleaseUnanswered(c) ==
    /\ At(c, "release")
    /\ ReleaseConfirmed(task[c].id) \/ UNCHANGED item
    /\ Requeue(c)
    /\ UNCHANGED <<minted, row, over, outbox, late, pass>>

\* the process dies, or the database rolls an unanswered insert back
Crash(c) ==
    /\ ~At(c, "idle")
    /\ Requeue(c)
    /\ UNCHANGED <<item, minted, row, over, outbox, late, pass>>

LandLate(l) ==
    /\ l \in late
    /\ late' = late \ {l}
    /\ row' \in IF Refused(l) THEN {row} ELSE {row, Landed(l)}
    /\ UNCHANGED <<item, minted, over, outbox, queue, task, pass>>

-----------------------------------------------------------------------------
(* The reconcilers: each reads a page of items, then asks for the listings *)
(* it found, then writes.                                                  *)

Read(k) ==
    /\ pass[k].at = "idle"
    /\ item.status = "LISTED" /\ item.old
    /\ k = "stale" <=> item.waiting
    /\ pass' = [pass EXCEPT ![k] = [at |-> "look", id |-> item.listing]]
    /\ UNCHANGED <<item, minted, row, over, delivery>>

\* listing.LiveStatuses
Live(l) == row[l] \in {"ACTIVE", "SETTLING", "FROZEN"}

\* the stale pass asks for a live listing (HasLiveListing), the other for any at all
Look(k) ==
    LET l == pass[k].id
        next == IF k = "stale" THEN IF Live(l) THEN "confirm" ELSE "cancel"
                ELSE IF row[l] = "NONE" THEN "release" ELSE "idle"
    IN  /\ pass[k].at = "look"
        /\ pass' = [pass EXCEPT ![k] = IF next = "idle" THEN Idle ELSE [at |-> next, id |-> l]]
        /\ UNCHANGED <<item, minted, row, over, delivery>>

Write(k) ==
    /\ \/ pass[k].at = "confirm" /\ ConfirmReservation(pass[k].id)
       \/ pass[k].at = "cancel" /\ CancelReservation(pass[k].id)
       \/ pass[k].at = "release" /\ ReleaseConfirmed(pass[k].id)
    /\ pass' = [pass EXCEPT ![k] = Idle]
    /\ UNCHANGED <<minted, row, over, delivery>>

\* the pass ends, fails or dies before its write
GiveUp(k) ==
    /\ pass[k].at # "idle"
    /\ pass' = [pass EXCEPT ![k] = Idle]
    /\ UNCHANGED <<item, minted, row, over, delivery>>

-----------------------------------------------------------------------------
(* Time, and the end of a listing.                                         *)

\* a consumer, or its unanswered insert, is between the confirm and the row
Inserting(l) == l \in late \/ \E c \in Consumers : task[c] = [at |-> "insert", id |-> l]

Age ==
    /\ item.status = "LISTED" /\ ~item.old
    /\ item.waiting \/ ~Inserting(item.listing)
    /\ item' = [item EXCEPT !.old = TRUE]
    /\ UNCHANGED <<minted, row, over, delivery, pass>>

EndsAt(l) ==
    /\ l \in minted \ over
    /\ over' = over \cup {l}
    /\ UNCHANGED <<item, minted, row, delivery, pass>>

Becomes(l, status) == row' = [row EXCEPT ![l] = status]

\* the seller withdraws it or settlement freezes it; then the item follows
Close(l) ==
    /\ \/ row[l] = "ACTIVE" /\ Becomes(l, "CANCELLED") /\ UNCHANGED item
       \/ row[l] = "ACTIVE" /\ Becomes(l, "SETTLING") /\ UNCHANGED item
       \/ /\ row[l] \in {"CANCELLED", "SETTLING"} /\ Listed(l)
          /\ item' = Free /\ Becomes(l, "ENDED")
       \/ /\ row[l] = "SETTLING" /\ Listed(l)
          /\ item' = [item EXCEPT !.status = "PENDING_SETTLEMENT"] /\ Becomes(l, "FROZEN")
       \/ row[l] = "FROZEN" /\ item' = Free /\ Becomes(l, "ENDED")
    /\ UNCHANGED <<minted, over, delivery, pass>>

Handle(c) ==
    \/ \E l \in Ids : Deliver(c, l)
    \/ Confirm(c) \/ ConfirmUnanswered(c) \/ Insert(c) \/ InsertUnanswered(c)
    \/ InsertRefused(c) \/ ReleaseAfterRefusal(c) \/ ReleaseUnanswered(c) \/ Crash(c)

Reconcile(k) == Read(k) \/ Look(k) \/ Write(k)

Next ==
    \/ \E l \in Ids : ReserveItem(l) \/ Publish(l) \/ LandLate(l) \/ EndsAt(l) \/ Close(l)
    \/ \E c \in Consumers : Handle(c)
    \/ \E k \in Passes : Reconcile(k) \/ GiveUp(k)
    \/ Age

Spec == Init /\ [][Next]_vars

\* Time passes; the reconcilers tick for ever; an unanswered insert lands or is rolled
\* back; and no outage lasts for ever, so what is tried again and again is answered in the
\* end (SF).  Nothing is assumed of the outbox: an event may never be delivered.
Fairness ==
    /\ WF_vars(Age) /\ WF_vars(\E l \in Ids : LandLate(l))
    /\ SF_vars(\E c \in Consumers : Confirm(c))
    /\ SF_vars(\E c \in Consumers : Insert(c) \/ InsertRefused(c))
    /\ SF_vars(\E c \in Consumers : ReleaseAfterRefusal(c))
    /\ WF_vars(\E k \in Passes : Read(k))
    /\ SF_vars(\E k \in Passes : Look(k)) /\ SF_vars(\E k \in Passes : Write(k))

LiveSpec == Spec /\ Fairness

-----------------------------------------------------------------------------
(* Properties.                                                             *)

TypeOK ==
    /\ item \in [status : {"AVAILABLE", "LISTED", "PENDING_SETTLEMENT"},
                 listing : Ids \cup {NoId}, waiting : BOOLEAN, old : BOOLEAN]
    /\ minted \subseteq Ids /\ over \subseteq Ids /\ late \subseteq Ids
    /\ row \in [Ids -> {"NONE", "ACTIVE", "SETTLING", "FROZEN", "CANCELLED", "ENDED"}]
    /\ \A l \in Ids : outbox[l] \in 0..Publishes[l] /\ queue[l] \in 0..Publishes[l]
    /\ task \in [Consumers -> [at : {"idle", "confirm", "insert", "release"}, id : Ids \cup {NoId}]]
    /\ pass \in [Passes -> [at : {"idle", "look", "confirm", "cancel", "release"},
                            id : Ids \cup {NoId}]]

Ghost == item.status = "LISTED" /\ row[item.listing] = "NONE"

\* An item never stays reserved for a listing that does not come: the listing exists in
\* the end, or the item is its owner's again, even if the event is never delivered.
NoGhost == []<>~Ghost

=============================================================================
