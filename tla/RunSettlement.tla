---------------------------- MODULE RunSettlement ----------------------------
(***************************************************************************)
(* What a run does to the gear its members carry (FS-GV8WN, FS-18Z5F).     *)
(* items-service checks a member's gear out into the run as they are       *)
(* seated.  The run's pod settles each member the moment they resolve: its *)
(* settlement writer records the settlement in game-service's outbox, then *)
(* applies it in items-service, and the recorded copy reaches the same     *)
(* consumer later.  The run's end settles whoever is left and sweeps the   *)
(* rest of the run's gear home.                                            *)
(*                                                                         *)
(* A settlement is kept as what items-service acts on: whom it covers and  *)
(* what they used up.  What they found has no row before it is stored, so  *)
(* it is only counted.  The relay is what module Outbox shows of it: a     *)
(* recorded row is delivered once or more, in any order.  Each run is      *)
(* hosted by a pod of its own: pods that share their fate are a special    *)
(* case.  A member connects to one run at a time, checking their gear out  *)
(* and seating them is one step, and all they own is worn or in the bag.   *)
(***************************************************************************)
EXTENDS Integers, FiniteSets

CONSTANTS
    Members, Runs, Items,
    Potions,     \* the items that can be used up
    Owner,       \* Owner[i]: the member whose item i is
    Party,       \* Party[r]: the members matched into r
    NoRun,       \* the hub, to a member; no event, to a run
    Boarding,    \* the phases of a run in which an arrival is still seated
    Followed,    \* bound: the runs whose members resolve
    Mortal,      \* bound: the runs whose pod may go away
    MaxTrouble   \* bound: attempts that fail or go unanswered

ASSUME RunConstants ==
    /\ Potions \subseteq Items
    /\ Owner \in [Items -> Members]
    /\ Party \in [Runs -> SUBSET Members]
    /\ NoRun \notin Runs /\ {"home", "gone"} \cap Runs = {}
    /\ Boarding \subseteq {"open", "ended", "taken"}
    /\ Followed \subseteq Runs /\ Mortal \subseteq Runs
    /\ MaxTrouble \in Nat

VARIABLES
    inst,      \* inst[i]: "home", "gone", or the run it is checked out into
    inbox,     \* the settlements items-service has marked
    stored,    \* stored[r][k]: how often settlement <<r, k>> stored its finds
    where,     \* where[m]: the world the member's record names
    phase,     \* phase[r]: open, ended, taken (by its end) or closed
    seat,      \* seat[r][m]: expected, none, in play or out of it
    gear,      \* gear[r][m]: what m brought into r
    used,      \* used[r][m]: what of it m has drunk
    settled,   \* settled[r]: the members r has settled
    final,     \* final[r]: what r's end settles, until it is published
    pod,       \* pod[r]: up, ending, draining or dead
    held,      \* what the settlement writers hold
    rows,      \* the settlements recorded in the outbox
    told,      \* the settlements confirmed to their member
    trouble    \* failures so far

world == <<where, phase, seat, gear, used, settled, final>>
items == <<inst, inbox, stored>>
writer == <<held, rows, told>>
vars == <<items, world, pod, writer, trouble>>

-----------------------------------------------------------------------------
(* A settlement: a partial one covers its one member, a whole-run one      *)
(* everyone but the members it names as already settled.  Its id is        *)
(* derived from the run and the members it carries.                        *)

Event(r, partial, key, named, gone) ==
    [run |-> r, partial |-> partial, key |-> key, named |-> named, used |-> gone]

Events ==
    [run : Runs, partial : BOOLEAN, key : SUBSET Members, named : SUBSET Members, used : SUBSET Items]

Id(e) == <<e.run, e.key>>

\* mutant: a whole-run settlement releases the members it names too
CoversAll(e, m) == e.partial => m \in e.key

Covers(e, m) == IF e.partial THEN m \in e.key ELSE m \notin e.named

\* what settling e leaves of each item; mutant: whatever run holds it
AfterUnfenced(e) ==
    [i \in Items |->
        CASE inst[i] \notin Runs -> inst[i]
          [] i \in e.used -> "gone"
          [] Covers(e, Owner[i]) -> "home"
          [] OTHER -> inst[i]]

After(e) ==
    [i \in Items |->
        IF inst[i] # e.run THEN inst[i]
        ELSE IF i \in e.used THEN "gone"
        ELSE IF Covers(e, Owner[i]) THEN "home"
        ELSE inst[i]]

\* mutant: the inbox is not read
SettleUnmarked(e) ==
    /\ inbox' = inbox \cup {Id(e)}
    /\ inst' = After(e)
    /\ stored' = [stored EXCEPT ![e.run][e.key] = @ + 1]

\* ProcessItemsExtracted: one transaction, opened by marking the event
Settle(e) ==
    IF Id(e) \in inbox THEN UNCHANGED items
    ELSE /\ inbox' = inbox \cup {Id(e)}
         /\ inst' = After(e)
         /\ stored' = [stored EXCEPT ![e.run][e.key] = @ + 1]

\* m's gear moved into r, what another run still holds included
CheckOut(m, r) == [i \in Items |-> IF Owner[i] = m /\ inst[i] # "gone" THEN r ELSE inst[i]]

\* writeMatchEndOutbox: rows under derived ids, so writing them again adds nothing
Write(e) == rows' = rows \cup {e}

\* a step that failed or went unanswered counts against the bound
Fails == trouble < MaxTrouble /\ trouble' = trouble + 1

-----------------------------------------------------------------------------
Init ==
    /\ inst = [i \in Items |-> "home"]
    /\ inbox = {}
    /\ stored = [r \in Runs |-> [k \in SUBSET Members |-> 0]]
    /\ where = [m \in Members |-> NoRun]
    /\ phase = [r \in Runs |-> "open"]
    /\ seat = [r \in Runs |-> [m \in Members |-> IF m \in Party[r] THEN "expected" ELSE "none"]]
    /\ gear = [r \in Runs |-> [m \in Members |-> {}]]
    /\ used = [r \in Runs |-> [m \in Members |-> {}]]
    /\ settled = [r \in Runs |-> {}]
    /\ final = [r \in Runs |-> {}]
    /\ pod = [r \in Runs |-> "up"]
    /\ held = {}
    /\ rows = {}
    /\ told = {}
    /\ trouble = 0

-----------------------------------------------------------------------------
(* Arriving in a run.                                                      *)

\* the run runs here and expects m, who is in no other
Expected(m, r) ==
    /\ where[m] = NoRun
    /\ seat[r][m] = "expected" /\ phase[r] \in Boarding /\ pod[r] # "dead"

Sit(m, r, brought) ==
    /\ Expected(m, r)
    /\ where' = [where EXCEPT ![m] = r]
    /\ seat' = [seat EXCEPT ![r][m] = "in"]
    /\ gear' = [gear EXCEPT ![r][m] = brought]
    /\ UNCHANGED <<inbox, stored, phase, used, settled, final, pod, writer>>

SeatArrival(m, r) ==
    /\ Sit(m, r, {i \in Items : Owner[i] = m /\ inst[i] # "gone"})
    /\ inst' = CheckOut(m, r)
    /\ UNCHANGED trouble

\* the checkout timed out, committed or not, and the delver is seated without gear
SeatBare(m, r) ==
    /\ Sit(m, r, {})
    /\ inst' = CheckOut(m, r) \/ UNCHANGED inst
    /\ Fails

\* a handoff's checkout committed, but its answer was lost or the seat went meanwhile
RefuseHandoff(m, r) ==
    /\ Expected(m, r)
    /\ inst' = CheckOut(m, r)
    /\ Fails
    /\ UNCHANGED <<inbox, stored, world, pod, writer>>

\* seats nobody claimed are given up; a run nobody reached is shut down as it is
ReleaseUnclaimedSeats(r) ==
    /\ phase[r] # "closed" /\ pod[r] # "dead"
    /\ \E m \in Members : seat[r][m] = "expected"
    /\ seat' = [seat EXCEPT ![r] = [m \in Members |-> IF @[m] = "expected" THEN "none" ELSE @[m]]]
    /\ phase' = [phase EXCEPT ![r] =
            IF \A m \in Members : seat[r][m] \in {"expected", "none"} THEN "closed" ELSE @]
    /\ UNCHANGED <<items, where, gear, used, settled, final, pod, writer, trouble>>

-----------------------------------------------------------------------------
(* In the run.                                                             *)

\* admit: a settlement handed over once the pod drains is refused
Hold(e) ==
    held' = IF pod[e.run] \in {"up", "ending"}
            THEN held \cup {[ev |-> e, step |-> "record", tried |-> FALSE]}
            ELSE held

DrinkPotion(m, r, i) ==
    /\ seat[r][m] = "in" /\ phase[r] # "closed" /\ pod[r] # "dead"
    /\ i \in (gear[r][m] \cap Potions) \ used[r][m]
    /\ used' = [used EXCEPT ![r][m] = @ \cup {i}]
    /\ UNCHANGED <<items, where, phase, seat, gear, settled, final, pod, writer, trouble>>

\* m escapes, falls or is removed in play: settled once, unless the run's end has them
Resolve(m, r) ==
    /\ r \in Followed
    /\ seat[r][m] = "in" /\ phase[r] # "closed" /\ pod[r] # "dead"
    /\ seat' = [seat EXCEPT ![r][m] = "out"]
    /\ IF m \in settled[r] THEN UNCHANGED <<settled, held>>
       ELSE /\ settled' = [settled EXCEPT ![r] = @ \cup {m}]
            /\ Hold(Event(r, TRUE, {m}, {}, used[r][m]))
    /\ UNCHANGED <<items, where, phase, gear, used, final, pod, rows, told, trouble>>

\* a resolved member goes home early, or a connection outlives its run
Depart(m, r) ==
    /\ where[m] = r
    /\ seat[r][m] = "out" \/ phase[r] = "closed"
    /\ where' = [where EXCEPT ![m] = NoRun]
    /\ UNCHANGED <<items, phase, seat, gear, used, settled, final, pod, writer, trouble>>

\* nobody seated is in play any more: the end is latched and signalled
EndRule(r) ==
    /\ phase[r] = "open" /\ pod[r] # "dead"
    /\ \E m \in Members : seat[r][m] = "out"
    /\ \A m \in Members : seat[r][m] # "in"
    /\ phase' = [phase EXCEPT ![r] = "ended"]
    /\ UNCHANGED <<items, where, seat, gear, used, settled, final, pod, writer, trouble>>

\* beginRunEndSettlement and the snapshot of whoever is left
TakeOver(r) ==
    LET seated == {m \in Members : seat[r][m] \in {"in", "out"}}
        left == seated \ settled[r]
    IN /\ phase[r] = "ended" /\ pod[r] # "dead"
       /\ phase' = [phase EXCEPT ![r] = "taken"]
       /\ settled' = [settled EXCEPT ![r] = @ \cup seated]
       /\ final' = [final EXCEPT ![r] = {Event(r, FALSE, left, settled[r], UNION {used[r][m] : m \in left})}]
       /\ UNCHANGED <<items, where, seat, gear, used, pod, writer, trouble>>

\* a settled member still here is removed from the run's end and seated in the hub
ReturnToHub(m, r) ==
    /\ phase[r] = "taken" /\ pod[r] # "dead" /\ where[m] = r
    /\ where' = [where EXCEPT ![m] = NoRun]
    /\ seat' = [seat EXCEPT ![r][m] = IF m \in settled[r] THEN "out" ELSE @]
    /\ UNCHANGED <<items, phase, gear, used, settled, final, pod, writer, trouble>>

\* the world is torn down, and its bodies with it
TearDown(r) ==
    /\ phase' = [phase EXCEPT ![r] = "closed"]
    /\ seat' = [seat EXCEPT ![r] = [m \in Members |-> "none"]]
    /\ gear' = [gear EXCEPT ![r] = [m \in Members |-> {}]]
    /\ used' = [used EXCEPT ![r] = [m \in Members |-> {}]]
    /\ final' = [final EXCEPT ![r] = {}]

\* mutant: the outcome is read back after the world is gone
CloseRunUnpublished(r) ==
    /\ phase[r] = "taken" /\ pod[r] # "dead"
    /\ TearDown(r)
    /\ UNCHANGED <<items, where, settled, pod, writer, trouble>>

\* Shutdown, then PublishMatchComplete
CloseRun(r) ==
    /\ phase[r] = "taken" /\ pod[r] # "dead"
    /\ TearDown(r)
    /\ \E e \in final[r] : Hold(e)
    /\ UNCHANGED <<items, where, settled, pod, rows, told, trouble>>

-----------------------------------------------------------------------------
(* The settlement writer.                                                  *)

Step(h, step, tried) == (held \ {h}) \cup {[ev |-> h.ev, step |-> step, tried |-> tried]}

\* a first attempt is always made, a retry only while the pod lives
MayTry(h) == h.tried => pod[h.ev.run] = "up"

Record(h) ==
    /\ h.step = "record" /\ MayTry(h)
    /\ Write(h.ev)
    /\ held' = Step(h, "apply", FALSE)
    /\ UNCHANGED <<items, world, pod, told, trouble>>

\* mutant: the first attempt to record is taken for done
RecordFailsUnseen(h) ==
    /\ h.step = "record" /\ MayTry(h) /\ Fails
    /\ Write(h.ev) \/ UNCHANGED rows
    /\ held' = Step(h, "apply", FALSE)
    /\ UNCHANGED <<items, world, pod, told>>

\* the write failed, or committed and said it failed
RecordFails(h) ==
    /\ h.step = "record" /\ MayTry(h) /\ Fails
    /\ Write(h.ev) \/ UNCHANGED rows
    /\ held' = Step(h, "record", TRUE)
    /\ UNCHANGED <<items, world, pod, told>>

\* applied, or found applied already; only a member's own settlement is confirmed
ApplyNow(h) ==
    /\ h.step = "apply" /\ MayTry(h)
    /\ Settle(h.ev)
    /\ held' = held \ {h}
    /\ told' = IF h.ev.partial THEN told \cup {Id(h.ev)} ELSE told
    /\ UNCHANGED <<world, pod, rows, trouble>>

\* items-service is unavailable, or its answer is lost
ApplyFails(h) ==
    /\ h.step = "apply" /\ MayTry(h) /\ Fails
    /\ Settle(h.ev) \/ UNCHANGED items
    /\ held' = Step(h, "apply", TRUE)
    /\ UNCHANGED <<world, pod, rows, told>>

\* any other answer is a refusal: never retried, never confirmed
ApplyRefused(h) ==
    /\ h.step = "apply" /\ MayTry(h) /\ Fails
    /\ held' = held \ {h}
    /\ UNCHANGED <<items, world, pod, rows, told>>

GiveUp(h) ==
    /\ h.tried /\ pod[h.ev.run] # "up"
    /\ held' = held \ {h}
    /\ UNCHANGED <<items, world, pod, rows, told, trouble>>

-----------------------------------------------------------------------------
(* The recorded copy reaches items-service's consumer.                     *)

ItemsExtracted(e) ==
    /\ e \in rows
    /\ Settle(e)
    /\ UNCHANGED <<world, pod, writer, trouble>>

-----------------------------------------------------------------------------
(* The pod goes away: its lifetime ends, it drains and stops, or it dies.  *)

EndLifetime(r) ==
    /\ r \in Mortal /\ pod[r] = "up"
    /\ pod' = [pod EXCEPT ![r] = "ending"]
    /\ UNCHANGED <<items, world, writer, trouble>>

Drain(r) ==
    /\ pod[r] = "ending"
    /\ pod' = [pod EXCEPT ![r] = "draining"]
    /\ UNCHANGED <<items, world, writer, trouble>>

\* the process is gone, and with it the world, what is held and what is under way
Gone(r) ==
    /\ pod' = [pod EXCEPT ![r] = "dead"]
    /\ held' = {h \in held : h.ev.run # r}
    /\ where' = [m \in Members |-> IF where[m] = r THEN NoRun ELSE where[m]]
    /\ TearDown(r)
    /\ settled' = [settled EXCEPT ![r] = {}]
    /\ UNCHANGED <<items, rows, told, trouble>>

Stop(r) ==
    /\ pod[r] = "draining"
    /\ \A h \in held : h.ev.run # r
    /\ Gone(r)

Crash(r) ==
    /\ r \in Mortal /\ pod[r] # "dead"
    /\ Gone(r)

-----------------------------------------------------------------------------
Host(r) ==
    \/ ReleaseUnclaimedSeats(r) \/ EndRule(r) \/ TakeOver(r) \/ CloseRun(r)
    \/ EndLifetime(r) \/ Drain(r) \/ Stop(r) \/ Crash(r)

Member(m, r) ==
    \/ SeatArrival(m, r) \/ SeatBare(m, r) \/ RefuseHandoff(m, r)
    \/ \E i \in Items : DrinkPotion(m, r, i)
    \/ Resolve(m, r) \/ Depart(m, r) \/ ReturnToHub(m, r)

Writer(h) ==
    \/ Record(h) \/ RecordFails(h) \/ ApplyNow(h) \/ ApplyFails(h)
    \/ ApplyRefused(h) \/ GiveUp(h)

Next ==
    \/ \E r \in Runs : Host(r) \/ \E m \in Members : Member(m, r)
    \/ \E h \in held : Writer(h)
    \/ \E e \in rows : ItemsExtracted(e)

\* goroutines the pod keeps running: the end's, the writer's retries, the shutdown; the
\* relay and the consumer run in whichever pods of their services are up
Fairness ==
    /\ \A r \in Runs : WF_vars(TakeOver(r)) /\ WF_vars(CloseRun(r)) /\ WF_vars(Drain(r)) /\ WF_vars(Stop(r))
    /\ WF_vars(\E h \in held : Record(h) \/ ApplyNow(h) \/ GiveUp(h))
    /\ WF_vars(\E e \in rows : ItemsExtracted(e))

Spec == Init /\ [][Next]_vars
LiveSpec == Spec /\ Fairness

-----------------------------------------------------------------------------
Seats == {"expected", "none", "in", "out"}

TypeOK ==
    /\ inst \in [Items -> Runs \cup {"home", "gone"}]
    /\ inbox \subseteq Runs \X SUBSET Members
    /\ stored \in [Runs -> [SUBSET Members -> Nat]]
    /\ where \in [Members -> Runs \cup {NoRun}]
    /\ phase \in [Runs -> {"open", "ended", "taken", "closed"}]
    /\ seat \in [Runs -> [Members -> Seats]]
    /\ gear \in [Runs -> [Members -> SUBSET Items]]
    /\ used \in [Runs -> [Members -> SUBSET Items]]
    /\ settled \in [Runs -> SUBSET Members]
    /\ final \in [Runs -> SUBSET Events]
    /\ pod \in [Runs -> {"up", "ending", "draining", "dead"}]
    /\ held \subseteq [ev : Events, step : {"record", "apply"}, tried : BOOLEAN]
    /\ rows \subseteq Events
    /\ told \subseteq Runs \X SUBSET Members
    /\ trouble \in Nat

\* Plunder is stored once: a settlement applied at once, and again by every copy the broker
\* delivers, inserts its finds (which have no id of their own yet) at most once.
FindsOnce == \A r \in Runs, k \in SUBSET Members : stored[r][k] <= 1

\* A member in play keeps the gear they brought: no settlement of an earlier run of theirs, of
\* another member or of the run itself, however late, takes it from under them.
Playing(m, r) ==
    /\ seat[r][m] = "in" /\ where[m] = r /\ m \notin settled[r]
    /\ phase[r] \in {"open", "ended"} /\ pod[r] # "dead"

LiveGearHeld ==
    \A m \in Members, r \in Runs : Playing(m, r) => \A i \in gear[r][m] : inst[i] = r

\* An outcome reaches items-service only once it is recorded: a pod that dies leaves a run
\* applied and its match result unsent never, however its attempts failed. And a member told
\* their settlement is confirmed has it: it was applied, and nothing of theirs is left in that
\* run, whatever became of the calls, the copies and the pod.
AppliedWasRecorded ==
    /\ inbox \subseteq {Id(e) : e \in rows}
    /\ \A t \in told : t \in inbox /\ \A i \in Items : Owner[i] \in t[2] => inst[i] # t[1]

\* What a settlement says was used up never comes home from that run, even when the run's
\* sweep or a stale copy reaches items-service before it does.
Pending == rows \cup {h.ev : h \in held} \cup UNION {final[r] : r \in Runs}

UsedUpStaysGone ==
    [][\A i \in Items, r \in Runs :
        inst[i] = r /\ inst'[i] = "home" => ~\E e \in Pending : e.run = r /\ i \in e.used]_vars

\* Gear of a settled member leaves the run, unless the pod goes away before that is recorded.
GearComesHome ==
    \A i \in Items, r \in Runs :
        Owner[i] \in settled[r] /\ inst[i] = r ~> inst[i] # r \/ pod[r] = "dead"
=============================================================================
