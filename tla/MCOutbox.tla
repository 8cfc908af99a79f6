------------------------------ MODULE MCOutbox ------------------------------
(***************************************************************************)
(* Instances of Outbox: a member's signup, whose account is announced back *)
(* to auth-service, and a run's extracted items, from three outboxes.      *)
(***************************************************************************)
EXTENDS Outbox

CONSTANTS signup, account, loot, plunder, wa, ww, w1, w2, none

MCService ==
    [x \in Events \cup Relays |->
        IF x \in {signup, wa} THEN "auth" ELSE IF x \in {account, ww} THEN "wallet" ELSE "game"]

MCPolicy == [e \in Events |-> IF e = signup THEN "wallet" ELSE IF e = account THEN "auth" ELSE "items"]

MCFollows == [e \in Events |-> IF e = signup /\ account \in Events THEN account ELSE NoEvent]
=============================================================================
