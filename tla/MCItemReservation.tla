-------------------------- MODULE MCItemReservation --------------------------
(***************************************************************************)
(* Instances of ItemReservation: one item is listed, ended or taken back,  *)
(* and listed again, while copies of both events are still under way.      *)
(***************************************************************************)
EXTENDS ItemReservation

CONSTANTS l1, l2, c1, c2, none

\* the relay dies once between publishing the first event and marking it sent
TwiceTheFirst == [l \in Ids |-> IF l = l1 THEN 2 ELSE 1]
Once == [l \in Ids |-> 1]
=============================================================================
