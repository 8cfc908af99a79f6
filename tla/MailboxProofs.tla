--------------------------- MODULE MailboxProofs ---------------------------
(***************************************************************************)
(* Proofs about module Mailbox: for any letters, members, attempts and     *)
(* number of faults, a letter is stored once and pays once (PaidOnce), a   *)
(* claimed letter has paid (ClaimedMeansPaid), and a claim's state never   *)
(* goes back (NeverBack).                                                  *)
(*                                                                         *)
(* None of them is inductive alone.  Once ties what was minted and         *)
(* credited to the records items and wallet keep with it; Locks says that  *)
(* whoever is inside the transaction holds the row, and that the row is    *)
(* still as it was found; Steps says what a claim that got so far has      *)
(* already paid, also for a credit that was given up on.                   *)
(***************************************************************************)
EXTENDS Mailbox, TLAPS

Once ==
    /\ \A l \in Letters :
          /\ stored[l] =< 1
          /\ l \in Requested \ inbox => stored[l] = 0
    /\ \A g \in grants : g.member = g.id[2]
    /\ \A c \in Claims :
          /\ minted[c] = IF GrantedTo(c) THEN 1 ELSE 0
          /\ credited[c] = IF ClaimKey(c) \in marks THEN 1 ELSE 0

Locks ==
    \A a \in Attempts :
        /\ pc[a] # "idle" => of[a] \in Claims
        /\ pc[a] \in InTx \cup {"lock"} => row[of[a]] # "none"
        /\ pc[a] \in InTx =>
              holder[of[a]] = a /\ found[a] = row[of[a]] /\ found[a] # "claimed"

Steps ==
    /\ \A a \in Attempts :
          /\ pc[a] = "gold" /\ HasItems(of[a]) => minted[of[a]] > 0
          /\ pc[a] = "done" => Paid(of[a])
    /\ \A c \in Claims : <<"gold", c>> \in abroad /\ HasItems(c) => minted[c] > 0
    /\ ClaimedMeansPaid

IInv == TypeOK /\ Once /\ Locks /\ Steps

---------------------------------------------------------------------------
(* What the calls do to items' and wallet's records.                       *)

LEMMA ClaimParts == ASSUME NEW c \in Claims PROVE c[1] \in Letters /\ c[2] \in Members
BY DEF Claims

(* GrantItems keeps the items in step with the grant ids, takes nothing
   back, and has minted whenever it does not refuse. *)
LEMMA GrantEffect ==
    ASSUME TypeOK, Once, NEW c \in Claims, GrantItems(c)
    PROVE  /\ grants' \subseteq [id : Claims, member : Members]
           /\ minted' \in [Claims -> Nat] /\ stash' \in [Members -> Nat]
           /\ \A g \in grants' : g.member = g.id[2]
           /\ \A d \in Claims : minted'[d] = IF GrantedTo(d)' THEN 1 ELSE 0
           /\ \A d \in Claims : minted[d] > 0 => minted'[d] > 0
           /\ Granted(c) \/ Room(c) => minted'[c] > 0
<1> USE DEF TypeOK, Once, ClaimKey, GrantedTo, Granted
<1>0. c[1] \in Letters /\ c[2] \in Members /\ Size[c[1]] \in Nat
  BY ClaimParts, MailboxConstants
<1>1. CASE Mints(c)
  <2> DEFINE g == [id |-> c, member |-> c[2]]
  <2>1. /\ grants' = grants \cup {g}
        /\ minted' = [minted EXCEPT ![c] = @ + 1]
        /\ stash' = [stash EXCEPT ![c[2]] = @ + Size[c[1]]]
    BY <1>1 DEF GrantItems
  <2>2. g \notin grants
    BY <1>1 DEF Mints
  <2>3. minted[c] = 0
    BY <2>2
  <2>4. minted'[c] = 1 /\ \A d \in Claims \ {c} : minted'[d] = minted[d]
    BY <2>1, <2>3
  <2>5. \A d \in Claims \ {c} : GrantedTo(d)' <=> GrantedTo(d)
    BY <2>1
  <2>6. GrantedTo(c)'
    BY <2>1
  <2>7. g \in [id : Claims, member : Members] /\ g.member = g.id[2]
    BY <1>0
  <2> QED BY <1>0, <2>1, <2>4, <2>5, <2>6, <2>7
<1>2. CASE ~Mints(c)
  <2>1. UNCHANGED <<grants, minted, stash>>
    BY <1>2 DEF GrantItems
  <2>2. ASSUME Granted(c) \/ Room(c) PROVE minted[c] > 0
    <3>1. Granted(c)
      BY <1>2, <2>2 DEF Mints
    <3>2. PICK g \in grants : g.id = c
      BY <3>1
    <3>3. g = [id |-> c, member |-> c[2]]
      BY <3>2
    <3> QED BY <3>2, <3>3
  <2> QED BY <2>1, <2>2
<1> QED BY <1>1, <1>2

(* Credit keeps the gold in step with the marks, takes nothing back, touches
   no other claim, and has credited whenever it answers that it did. *)
LEMMA CreditEffect ==
    ASSUME TypeOK, Once, NEW c \in Claims, Credit(c)
    PROVE  /\ marks' \subseteq Claims /\ credited' \in [Claims -> Nat]
           /\ \A d \in Claims : credited'[d] = IF ClaimKey(d) \in marks' THEN 1 ELSE 0
           /\ \A d \in Claims : credited[d] > 0 => credited'[d] > 0
           /\ \A d \in Claims \ {c} : credited'[d] = credited[d]
           /\ Applied(c) => credited'[c] > 0
<1> USE DEF TypeOK, Once, ClaimKey
<1>1. CASE c \notin marks /\ c[2] \in accounts
  <2>1. marks' = marks \cup {c} /\ credited' = [credited EXCEPT ![c] = @ + 1]
    BY <1>1 DEF Credit
  <2>2. credited[c] = 0
    BY <1>1
  <2> QED BY <2>1, <2>2
<1>2. CASE ~(c \notin marks /\ c[2] \in accounts)
  <2>1. UNCHANGED <<marks, credited>>
    BY <1>2 DEF Credit
  <2>2. Applied(c) => c \in marks
    BY <1>2 DEF Applied
  <2> QED BY <2>1, <2>2
<1> QED BY <1>1, <1>2

---------------------------------------------------------------------------
(* The invariant holds at the start, and every action preserves it.        *)

LEMMA InitIInv == Init => IInv
<1> SUFFICES ASSUME Init PROVE IInv
  OBVIOUS
<1>1. TypeOK
  BY MailboxConstants DEF Init, TypeOK, States, InTx
<1>2. Once
  BY DEF Init, Once, GrantedTo, ClaimKey
<1>3. Locks
  BY DEF Init, Locks, InTx
<1>4. Steps
  BY DEF Init, Steps, ClaimedMeansPaid
<1> QED BY <1>1, <1>2, <1>3, <1>4 DEF IInv

LEMMA SendLetterIInv ==
    ASSUME IInv, NEW l \in Letters, SendLetter(l)
    PROVE  IInv'
<1> USE DEF IInv, vars, letters, rows, calls, paid, SendLetter
<1>1. TypeOK'
  BY DEF TypeOK, States, InTx
<1>2. Once'
  BY DEF TypeOK, Once, GrantedTo, ClaimKey
<1>3. Locks'
  BY DEF TypeOK, Locks, InTx
<1>4. Steps'
  BY DEF TypeOK, Locks, Steps, ClaimedMeansPaid, Paid, HasItems, HasGold, InTx
<1> QED BY <1>1, <1>2, <1>3, <1>4

LEMMA ProcessLetterRequestedIInv ==
    ASSUME IInv, NEW l \in Letters, ProcessLetterRequested(l)
    PROVE  IInv'
<1> USE DEF IInv, vars, letters, rows, calls, paid, ProcessLetterRequested, Store, Trouble
<1>1. TypeOK'
  BY MailboxConstants DEF TypeOK, States, InTx
<1>2. Once'
  BY DEF TypeOK, Once, GrantedTo, ClaimKey
<1>3. Locks'
  BY DEF TypeOK, Locks, InTx
<1>4. Steps'
  BY DEF TypeOK, Locks, Steps, ClaimedMeansPaid, Paid, HasItems, HasGold, InTx
<1> QED BY <1>1, <1>2, <1>3, <1>4

LEMMA ExpireIInv ==
    ASSUME IInv, NEW l \in Letters, Expire(l)
    PROVE  IInv'
<1> USE DEF IInv, vars, letters, rows, calls, paid, Expire
<1>1. TypeOK'
  BY MailboxConstants DEF TypeOK, States, InTx
<1>2. Once'
  BY DEF TypeOK, Once, GrantedTo, ClaimKey
<1>3. Locks'
  BY DEF TypeOK, Locks, InTx
<1>4. Steps'
  BY DEF TypeOK, Locks, Steps, ClaimedMeansPaid, Paid, HasItems, HasGold, InTx
<1> QED BY <1>1, <1>2, <1>3, <1>4

LEMMA MarkLetterReadIInv ==
    ASSUME IInv, NEW c \in Claims, MarkLetterRead(c)
    PROVE  IInv'
<1> USE DEF IInv, vars, letters, rows, calls, paid, MarkLetterRead
<1>1. TypeOK'
  BY DEF TypeOK, States, InTx
<1>2. Once'
  BY DEF TypeOK, Once, GrantedTo, ClaimKey
<1>3. Locks'
  BY MailboxConstants DEF TypeOK, Locks, InTx
<1>4. Steps'
  BY DEF TypeOK, Locks, Steps, ClaimedMeansPaid, Paid, HasItems, HasGold, InTx
<1> QED BY <1>1, <1>2, <1>3, <1>4

LEMMA ClaimLetterIInv ==
    ASSUME IInv, NEW a \in Attempts, NEW c \in Claims, ClaimLetter(a, c)
    PROVE  IInv'
<1> USE DEF IInv, vars, letters, rows, calls, paid, ClaimLetter
<1>1. TypeOK'
  BY DEF TypeOK, States, InTx
<1>2. Once'
  BY DEF TypeOK, Once, GrantedTo, ClaimKey
<1>3. Locks'
  BY DEF TypeOK, Locks, InTx
<1>4. Steps'
  BY DEF TypeOK, Locks, Steps, ClaimedMeansPaid, Paid, HasItems, HasGold, InTx
<1> QED BY <1>1, <1>2, <1>3, <1>4

LEMMA EnsureStateIInv ==
    ASSUME IInv, NEW a \in Attempts, EnsureState(a)
    PROVE  IInv'
<1> USE DEF IInv, vars, letters, rows, calls, paid, EnsureState
<1>1. TypeOK'
  BY DEF TypeOK, States, InTx
<1>2. Once'
  BY DEF TypeOK, Once, GrantedTo, ClaimKey
<1>3. Locks'
  BY DEF TypeOK, Locks, InTx
<1>4. Steps'
  BY DEF TypeOK, Locks, Steps, ClaimedMeansPaid, Paid, HasItems, HasGold, InTx
<1> QED BY <1>1, <1>2, <1>3, <1>4

LEMMA LockStateIInv ==
    ASSUME IInv, NEW a \in Attempts, LockState(a)
    PROVE  IInv'
<1> USE DEF IInv, vars, letters, rows, calls, paid, LockState, Return, Lockable
<1>0. of[a] \in Claims
  BY DEF LockState, Locks
<1>1. TypeOK'
  BY <1>0 DEF TypeOK, States, InTx
<1>2. Once'
  BY DEF TypeOK, Once, GrantedTo, ClaimKey
<1>3. Locks'
  BY MailboxConstants DEF TypeOK, Locks, InTx
<1>4. Steps'
  BY DEF TypeOK, Locks, Steps, ClaimedMeansPaid, Paid, HasItems, HasGold, InTx
<1> QED BY <1>1, <1>2, <1>3, <1>4

LEMMA GrantStepIInv ==
    ASSUME IInv, NEW a \in Attempts, GrantStep(a)
    PROVE  IInv'
<1> USE DEF IInv, letters, rows
<1> DEFINE c == of[a]
<1>0. c \in Claims /\ pc[a] = "items" /\ GrantItems(c)
  BY DEF Locks, GrantStep
<1>e. /\ grants' \subseteq [id : Claims, member : Members]
      /\ minted' \in [Claims -> Nat] /\ stash' \in [Members -> Nat]
      /\ \A g \in grants' : g.member = g.id[2]
      /\ \A d \in Claims : minted'[d] = IF GrantedTo(d)' THEN 1 ELSE 0
      /\ \A d \in Claims : minted[d] > 0 => minted'[d] > 0
  BY <1>0, GrantEffect
<1>m. GrantAnswer(c) = "ok" => minted'[c] > 0
  BY <1>0, GrantEffect DEF GrantAnswer
<1>p. /\ pc'[a] \in {"ok", "failed", "refused", "gold", "done"} \ {"ok"}
      /\ pc'[a] \in {"gold", "done"} => minted'[c] > 0
      /\ pc'[a] = "done" => ~HasGold(c)
      /\ pc' = [pc EXCEPT ![a] = pc'[a]]
  <2>1. pc' = [pc EXCEPT ![a] = IF GrantAnswer(c) # "ok" THEN GrantAnswer(c)
                                ELSE IF HasGold(c) THEN "gold" ELSE "done"]
    BY DEF GrantStep
  <2>2. GrantAnswer(c) \in {"ok", "failed", "refused"}
    BY DEF GrantAnswer
  <2> QED BY <1>m, <2>1, <2>2 DEF TypeOK
<1>u. UNCHANGED <<letters, rows, of, found, abroad, marks, credited, accounts, trouble>>
  BY DEF GrantStep
<1>1. TypeOK'
  BY <1>e, <1>p, <1>u DEF TypeOK, InTx
<1>2. Once'
  BY <1>e, <1>u DEF Once, ClaimKey
<1>3. Locks'
  BY <1>0, <1>p, <1>u DEF TypeOK, Locks, InTx
<1>4. Steps'
  <2>1. ASSUME NEW b \in Attempts
        PROVE  /\ pc'[b] = "gold" /\ HasItems(of[b]) => minted'[of[b]] > 0
               /\ pc'[b] = "done" => Paid(of[b])'
    <3>1. CASE b = a
      BY <1>0, <1>e, <1>p, <1>u, <3>1 DEF Paid, HasItems, HasGold, TypeOK
    <3>2. CASE b # a
      <4>1. pc'[b] = pc[b]
        BY <1>p, <3>2 DEF TypeOK
      <4>2. pc[b] # "idle" => of[b] \in Claims
        BY DEF Locks
      <4> QED BY <1>e, <1>u, <4>1, <4>2 DEF Steps, Paid, HasItems, HasGold
    <3> QED BY <3>1, <3>2
  <2>2. \A d \in Claims : Paid(d) => Paid(d)'
    BY <1>e, <1>u DEF Paid, HasItems, HasGold
  <2>3. ClaimedMeansPaid'
    BY <1>0, <1>e, <1>p, <1>u, <2>2 DEF Steps, ClaimedMeansPaid, HasItems
  <2>4. \A d \in Claims : <<"gold", d>> \in abroad /\ HasItems(d) => minted'[d] > 0
    BY <1>e, <1>u DEF Steps
  <2> QED BY <1>u, <2>1, <2>3, <2>4 DEF Steps, HasItems
<1> QED BY <1>1, <1>2, <1>3, <1>4

LEMMA CreditStepIInv ==
    ASSUME IInv, NEW a \in Attempts, CreditStep(a)
    PROVE  IInv'
<1> USE DEF IInv, letters, rows
<1> DEFINE c == of[a]
<1>0. c \in Claims /\ pc[a] = "gold" /\ Credit(c)
  BY DEF Locks, CreditStep
<1>e. /\ marks' \subseteq Claims /\ credited' \in [Claims -> Nat]
      /\ \A d \in Claims : credited'[d] = IF ClaimKey(d) \in marks' THEN 1 ELSE 0
      /\ \A d \in Claims : credited[d] > 0 => credited'[d] > 0
      /\ \A d \in Claims \ {c} : credited'[d] = credited[d]
      /\ Applied(c) => credited'[c] > 0
  BY <1>0, CreditEffect
<1>p. pc' = [pc EXCEPT ![a] = IF Applied(c) THEN "done" ELSE "failed"]
  BY DEF CreditStep
<1>m. HasItems(c) => minted[c] > 0
  BY <1>0 DEF Steps
<1>u. UNCHANGED <<letters, rows, of, found, abroad, grants, minted, stash, accounts, trouble>>
  BY DEF CreditStep
<1>1. TypeOK'
  BY <1>e, <1>p, <1>u DEF TypeOK, InTx
<1>2. Once'
  BY <1>e, <1>u DEF Once, ClaimKey, GrantedTo
<1>3. Locks'
  BY <1>0, <1>p, <1>u DEF TypeOK, Locks, InTx
<1>4. Steps'
  <2>1. ASSUME NEW b \in Attempts
        PROVE  /\ pc'[b] = "gold" /\ HasItems(of[b]) => minted'[of[b]] > 0
               /\ pc'[b] = "done" => Paid(of[b])'
    <3>1. CASE b = a
      BY <1>0, <1>e, <1>m, <1>p, <1>u, <3>1 DEF Paid, HasItems, HasGold, TypeOK
    <3>2. CASE b # a
      <4>1. pc'[b] = pc[b]
        BY <1>p, <3>2 DEF TypeOK
      <4>2. pc[b] # "idle" => of[b] \in Claims
        BY DEF Locks
      <4> QED BY <1>e, <1>u, <4>1, <4>2 DEF Steps, Paid, HasItems, HasGold
    <3> QED BY <3>1, <3>2
  <2>2. \A d \in Claims : Paid(d) => Paid(d)'
    BY <1>e, <1>u DEF Paid, HasItems, HasGold
  <2>3. ClaimedMeansPaid'
    BY <1>0, <1>e, <1>m, <1>p, <1>u, <2>2 DEF Steps, ClaimedMeansPaid, HasItems
  <2>4. \A d \in Claims : <<"gold", d>> \in abroad /\ HasItems(d) => minted'[d] > 0
    BY <1>e, <1>u DEF Steps
  <2> QED BY <1>u, <2>1, <2>3, <2>4 DEF Steps, HasItems
<1> QED BY <1>1, <1>2, <1>3, <1>4

LEMMA AnswerLostIInv ==
    ASSUME IInv, NEW a \in Attempts, AnswerLost(a)
    PROVE  IInv'
<1> USE DEF IInv, vars, letters, rows, calls, paid, AnswerLost, Trouble
<1>0. of[a] \in Claims
  BY DEF AnswerLost, Locks
<1>1. TypeOK'
  BY MailboxConstants, <1>0 DEF TypeOK, States, InTx
<1>2. Once'
  BY DEF TypeOK, Once, GrantedTo, ClaimKey
<1>3. Locks'
  BY DEF TypeOK, Locks, InTx
<1>4. Steps'
  BY <1>0 DEF TypeOK, Locks, Steps, ClaimedMeansPaid, Paid, HasItems, HasGold, InTx
<1> QED BY <1>1, <1>2, <1>3, <1>4

LEMMA CommitIInv ==
    ASSUME IInv, NEW a \in Attempts, Commit(a)
    PROVE  IInv'
<1> USE DEF IInv, vars, letters, rows, calls, paid, Commit, Return, Outcome
<1>0. of[a] \in Claims /\ holder[of[a]] = a /\ found[a] = row[of[a]] /\ found[a] # "claimed"
  BY DEF Locks, InTx
<1>1. TypeOK'
  BY <1>0 DEF TypeOK, States, InTx
<1>2. Once'
  BY DEF TypeOK, Once, GrantedTo, ClaimKey
<1>3. Locks'
  BY MailboxConstants, <1>0 DEF TypeOK, Locks, InTx
<1>4. Steps'
  BY <1>0 DEF TypeOK, Locks, Steps, ClaimedMeansPaid, Paid, HasItems, HasGold, InTx
<1> QED BY <1>1, <1>2, <1>3, <1>4

LEMMA RollbackIInv ==
    ASSUME IInv, NEW a \in Attempts, Rollback(a)
    PROVE  IInv'
<1> USE DEF IInv, vars, letters, rows, calls, paid, Rollback, Return, Trouble
<1>0. of[a] \in Claims /\ holder[of[a]] = a
  BY DEF Locks, InTx
<1>1. TypeOK'
  BY <1>0, MailboxConstants DEF TypeOK, States, InTx
<1>2. Once'
  BY DEF TypeOK, Once, GrantedTo, ClaimKey
<1>3. Locks'
  BY <1>0, MailboxConstants DEF TypeOK, Locks, InTx
<1>4. Steps'
  BY <1>0 DEF TypeOK, Locks, Steps, ClaimedMeansPaid, Paid, HasItems, HasGold, InTx
<1> QED BY <1>1, <1>2, <1>3, <1>4

LEMMA LateGrantIInv ==
    ASSUME IInv, NEW c \in Claims, LateGrant(c)
    PROVE  IInv'
<1> USE DEF IInv, letters, rows, calls, LateGrant
<1>e. /\ grants' \subseteq [id : Claims, member : Members]
      /\ minted' \in [Claims -> Nat] /\ stash' \in [Members -> Nat]
      /\ \A g \in grants' : g.member = g.id[2]
      /\ \A d \in Claims : minted'[d] = IF GrantedTo(d)' THEN 1 ELSE 0
      /\ \A d \in Claims : minted[d] > 0 => minted'[d] > 0
  BY GrantEffect
<1>1. TypeOK'
  BY <1>e DEF TypeOK
<1>2. Once'
  BY <1>e DEF Once, ClaimKey
<1>3. Locks'
  BY DEF Locks
<1>4. Steps'
  BY <1>e DEF TypeOK, Locks, Steps, ClaimedMeansPaid, Paid, HasItems, HasGold
<1> QED BY <1>1, <1>2, <1>3, <1>4

LEMMA LateCreditIInv ==
    ASSUME IInv, NEW c \in Claims, LateCredit(c)
    PROVE  IInv'
<1> USE DEF IInv, letters, rows, calls, LateCredit
<1>e. /\ marks' \subseteq Claims /\ credited' \in [Claims -> Nat]
      /\ \A d \in Claims : credited'[d] = IF ClaimKey(d) \in marks' THEN 1 ELSE 0
      /\ \A d \in Claims : credited[d] > 0 => credited'[d] > 0
      /\ \A d \in Claims \ {c} : credited'[d] = credited[d]
  BY CreditEffect
<1>1. TypeOK'
  BY <1>e DEF TypeOK
<1>2. Once'
  BY <1>e DEF Once, ClaimKey, GrantedTo
<1>3. Locks'
  BY DEF Locks
<1>4. Steps'
  BY <1>e DEF TypeOK, Locks, Steps, ClaimedMeansPaid, Paid, HasItems, HasGold
<1> QED BY <1>1, <1>2, <1>3, <1>4

LEMMA NeverServedIInv ==
    ASSUME IInv, NEW c \in Claims, NeverServed(c)
    PROVE  IInv'
<1> USE DEF IInv, vars, letters, rows, calls, paid, NeverServed
<1>1. TypeOK'
  BY DEF TypeOK, States, InTx
<1>2. Once'
  BY DEF TypeOK, Once, GrantedTo, ClaimKey
<1>3. Locks'
  BY DEF TypeOK, Locks, InTx
<1>4. Steps'
  BY DEF TypeOK, Locks, Steps, ClaimedMeansPaid, Paid, HasItems, HasGold, InTx
<1> QED BY <1>1, <1>2, <1>3, <1>4

LEMMA MoveItemIInv ==
    ASSUME IInv, NEW m \in Members, MoveItem(m)
    PROVE  IInv'
<1> USE DEF IInv, vars, letters, rows, calls, paid, MoveItem
<1>1. TypeOK'
  BY MailboxConstants DEF TypeOK, States, InTx
<1>2. Once'
  BY DEF TypeOK, Once, GrantedTo, ClaimKey
<1>3. Locks'
  BY DEF TypeOK, Locks, InTx
<1>4. Steps'
  BY DEF TypeOK, Locks, Steps, ClaimedMeansPaid, Paid, HasItems, HasGold, InTx
<1> QED BY <1>1, <1>2, <1>3, <1>4

LEMMA CreateAccountIInv ==
    ASSUME IInv, NEW m \in Members, CreateAccount(m)
    PROVE  IInv'
<1> USE DEF IInv, vars, letters, rows, calls, paid, CreateAccount
<1>1. TypeOK'
  BY DEF TypeOK, States, InTx
<1>2. Once'
  BY DEF TypeOK, Once, GrantedTo, ClaimKey
<1>3. Locks'
  BY DEF TypeOK, Locks, InTx
<1>4. Steps'
  BY DEF TypeOK, Locks, Steps, ClaimedMeansPaid, Paid, HasItems, HasGold, InTx
<1> QED BY <1>1, <1>2, <1>3, <1>4

LEMMA StutterIInv ==
    ASSUME IInv, UNCHANGED vars
    PROVE  IInv'
<1> USE DEF IInv, vars, letters, rows, calls, paid, vars
<1>1. TypeOK'
  BY DEF TypeOK, States, InTx
<1>2. Once'
  BY DEF TypeOK, Once, GrantedTo, ClaimKey
<1>3. Locks'
  BY DEF TypeOK, Locks, InTx
<1>4. Steps'
  BY DEF TypeOK, Locks, Steps, ClaimedMeansPaid, Paid, HasItems, HasGold, InTx
<1> QED BY <1>1, <1>2, <1>3, <1>4

LEMMA NextIInv == IInv /\ [Next]_vars => IInv'
BY SendLetterIInv, ProcessLetterRequestedIInv, ExpireIInv, MarkLetterReadIInv,
   ClaimLetterIInv, EnsureStateIInv, LockStateIInv, GrantStepIInv,
   CreditStepIInv, AnswerLostIInv, CommitIInv, RollbackIInv,
   LateGrantIInv, LateCreditIInv, NeverServedIInv, MoveItemIInv,
   CreateAccountIInv, StutterIInv
DEF Next

---------------------------------------------------------------------------
(* The theorems.                                                           *)

THEOREM Invariance == Spec => []IInv
<1>1. Init => IInv
  BY InitIInv
<1>2. IInv /\ [Next]_vars => IInv'
  BY NextIInv
<1> QED BY <1>1, <1>2, PTL DEF Spec

(* The mailbox's state keeps its types. *)
THEOREM TypeCorrect == Spec => []TypeOK
<1>1. IInv => TypeOK
  BY DEF IInv
<1> QED BY <1>1, Invariance, PTL

(* However many claims, lost answers, failed transactions and late calls:
   a letter is stored once, its items are minted once for a member and its
   gold is credited once. *)
THEOREM PaidOnceCorrect == Spec => []PaidOnce
<1>1. IInv => PaidOnce
  <2> SUFFICES ASSUME IInv PROVE PaidOnce
    OBVIOUS
  <2>1. \A c \in Claims : minted[c] \in {0, 1} /\ credited[c] \in {0, 1}
    BY DEF IInv, Once
  <2> QED BY <2>1 DEF IInv, Once, PaidOnce
<1> QED BY <1>1, Invariance, PTL

(* A letter marked claimed has given everything enclosed, and gold is never
   paid before the items of the same letter. *)
THEOREM ClaimedMeansPaidCorrect == Spec => []ClaimedMeansPaid
<1>1. IInv => ClaimedMeansPaid
  BY DEF IInv, Steps
<1> QED BY <1>1, Invariance, PTL

LEMMA StepNeverBack ==
    ASSUME IInv, [Next]_vars
    PROVE  /\ \A c \in Claims : Rank(row[c]) =< Rank(row'[c])
           /\ read \subseteq read'
<1> USE DEF IInv, rows
<1> DEFINE Kept == UNCHANGED <<row, read>>
<1>0. \A s \in States : Rank(s) \in Nat /\ Rank(s) =< Rank(s)
  BY DEF Rank, States
<1>k. ASSUME Kept PROVE (\A c \in Claims : Rank(row[c]) =< Rank(row'[c])) /\ read \subseteq read'
  BY <1>0, <1>k DEF TypeOK
<1>1. ASSUME NEW c \in Claims, MarkLetterRead(c)
      PROVE (\A d \in Claims : Rank(row[d]) =< Rank(row'[d])) /\ read \subseteq read'
  BY <1>0, <1>1 DEF MarkLetterRead, TypeOK, Rank
<1>2. ASSUME NEW a \in Attempts, EnsureState(a)
      PROVE (\A d \in Claims : Rank(row[d]) =< Rank(row'[d])) /\ read \subseteq read'
  BY <1>0, <1>2 DEF EnsureState, TypeOK, Rank
<1>3. ASSUME NEW a \in Attempts, Commit(a)
      PROVE (\A d \in Claims : Rank(row[d]) =< Rank(row'[d])) /\ read \subseteq read'
  <2>1. of[a] \in Claims /\ found[a] = row[of[a]] /\ found[a] # "claimed"
    BY <1>3 DEF Commit, Locks, InTx
  <2>2. row' = [row EXCEPT ![of[a]] = Outcome(a)] /\ read \subseteq read'
    BY <1>3 DEF Commit
  <2>3. Rank(row[of[a]]) =< Rank(Outcome(a))
    BY <2>1 DEF Outcome, Rank, TypeOK, States
  <2> QED BY <1>0, <2>1, <2>2, <2>3 DEF TypeOK
<1>4. ASSUME NEW l \in Letters, SendLetter(l) \/ ProcessLetterRequested(l) \/ Expire(l) PROVE Kept
  BY <1>4 DEF SendLetter, ProcessLetterRequested, Expire
<1>5. ASSUME NEW c \in Claims, LateGrant(c) \/ LateCredit(c) \/ NeverServed(c) PROVE Kept
  BY <1>5 DEF LateGrant, LateCredit, NeverServed
<1>6. ASSUME NEW a \in Attempts, NEW c \in Claims, ClaimLetter(a, c) PROVE Kept
  BY <1>6 DEF ClaimLetter
<1>7. ASSUME NEW a \in Attempts, LockState(a) \/ GrantStep(a) \/ CreditStep(a) \/ AnswerLost(a) \/ Rollback(a) PROVE Kept
  BY <1>7 DEF LockState, GrantStep, CreditStep, AnswerLost, Rollback
<1>8. ASSUME NEW m \in Members, MoveItem(m) \/ CreateAccount(m) PROVE Kept
  BY <1>8 DEF MoveItem, CreateAccount
<1>9. ASSUME UNCHANGED vars PROVE Kept
  BY <1>9 DEF vars
<1> QED BY <1>k, <1>1, <1>2, <1>3, <1>4, <1>5, <1>6, <1>7, <1>8, <1>9 DEF Next

(* A claim's state never falls behind what was committed before, and a read
   letter stays read. *)
THEOREM NeverBackCorrect == Spec => NeverBack
<1>1. ASSUME IInv, [Next]_vars
      PROVE  [/\ \A c \in Claims : Rank(row[c]) =< Rank(row'[c])
              /\ read \subseteq read']_vars
  BY <1>1, StepNeverBack
<1> QED BY <1>1, Invariance, PTL DEF Spec, NeverBack
=============================================================================
