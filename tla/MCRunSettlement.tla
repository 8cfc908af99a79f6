-------------------------- MODULE MCRunSettlement --------------------------
(***************************************************************************)
(* Instances of RunSettlement: both members enter r1, and m1, who may      *)
(* leave it before its settlement lands, enters r2.                        *)
(***************************************************************************)
EXTENDS RunSettlement, TLC

CONSTANTS m1, m2, i1, i2, r1, r2, none

MCOwner == [i \in Items |-> IF i = i1 THEN m1 ELSE m2]
MCParty == [r \in Runs |-> IF r = r1 THEN Members ELSE {m1}]
=============================================================================
