---------------------------- MODULE MCMatchQueue ----------------------------
(***************************************************************************)
(* An instance of MatchQueue: three players on two pods, groups of two.    *)
(***************************************************************************)
EXTENDS MatchQueue

CONSTANTS ana, ben, cai, d1, d2

MCHome == [p \in Players |-> IF p = ben THEN d2 ELSE d1]
=============================================================================
