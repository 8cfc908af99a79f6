------------------------------ MODULE Delivery ------------------------------
(***************************************************************************)
(* What the outbox and the inbox promise together, with no relay, broker,  *)
(* retry or crash: the work an event asks for is done at most once, only   *)
(* after the event is recorded, and each recorded event's work is done or  *)
(* the event is parked for someone to look at.                             *)
(***************************************************************************)
EXTENDS Integers

CONSTANT Events

VARIABLES
    recorded,   \* the events committed with their cause
    done,       \* done[e]: how often e's work was done
    parked      \* the events given up on, and kept

vars == <<recorded, done, parked>>

Init ==
    /\ recorded = {}
    /\ done = [e \in Events |-> 0]
    /\ parked = {}

Record(e) == e \notin recorded /\ recorded' = recorded \cup {e} /\ UNCHANGED <<done, parked>>

\* work that causes another event records it in the same step
Do(e) ==
    /\ e \in recorded /\ done[e] = 0
    /\ done' = [done EXCEPT ![e] = 1]
    /\ UNCHANGED parked
    /\ recorded' = recorded \/ \E f \in Events \ recorded : recorded' = recorded \cup {f}

Park(e) ==
    /\ e \in recorded /\ e \notin parked
    /\ parked' = parked \cup {e}
    /\ UNCHANGED <<recorded, done>>

Settle(e) == done[e] = 0 /\ e \notin parked /\ (Do(e) \/ Park(e))

Next == \E e \in Events : Record(e) \/ Do(e) \/ Park(e)

Spec == Init /\ [][Next]_vars /\ \A e \in Events : WF_vars(Settle(e))

=============================================================================
