------------------------------ MODULE MCWallet ------------------------------
(***************************************************************************)
(* Instances of Wallet: one account that callers, settlements' credits and *)
(* the sweeper contend for.                                                *)
(***************************************************************************)
EXTENDS Wallet, TLC

CONSTANTS m1, b1, b2, k1, k2, w1, w2, sweep

MCOwner == [b \in Bids |-> m1]
MCExpiry == [b \in Bids |-> 1]
MCKeyMember == [k \in Keys |-> m1]
\* unlike each other, so that a credit under the wrong key shows
MCKeyAmount == [k \in Keys |-> IF k = k1 THEN 1 ELSE 2]

Workmates == Permutations({w1, w2})
Contenders == Workmates \cup Permutations({b1, b2})
=============================================================================
