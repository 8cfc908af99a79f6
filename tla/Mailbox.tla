------------------------------ MODULE Mailbox ------------------------------
(***************************************************************************)
(* The mailbox of notification-service: letters with items and gold        *)
(* enclosed, and the claim that takes them                                 *)
(* (notification-service/internal/mailbox).                                *)
(*                                                                         *)
(* A claim holds its row of letter_states locked while it calls            *)
(* items-service and then wallet-service, and writes the outcome when it   *)
(* commits.  A call whose answer does not come may have been served, may   *)
(* never be, or may be served after the claim has given up, even after a   *)
(* later claim of the same letter: what keeps the letter from being paid   *)
(* twice is the key both calls carry, which items and wallet record with   *)
(* what they do.                                                           *)
(*                                                                         *)
(* A claim is a pair of a letter and a member it is addressed to; a        *)
(* broadcast is addressed to several, each with a row of their own.  What  *)
(* is enclosed is abstracted to the cells it takes in the stash and        *)
(* whether gold comes with it.                                             *)
(***************************************************************************)
EXTENDS Naturals, FiniteSets

CONSTANTS
    Letters, Members,
    To,             \* [Letters -> SUBSET Members]: who a letter is for
    Size,           \* [Letters -> Nat]: stash cells its items take
    Golden,         \* the letters with gold enclosed
    Requested,      \* the letters another service asks for by an event
    Mortal,         \* the letters that may expire while the model runs
    StashCapacity,  \* StashCapacity of items-service
    Attempts,       \* ClaimLetter calls that may run at once
    MaxClaims,      \* the cap on the claims in flight
    Nobody,         \* holds a row that is not locked, is claimed by an idle call
    MaxTrouble      \* bound: lost answers, failing transactions, lost acks

ASSUME MailboxConstants ==
    /\ To \in [Letters -> SUBSET Members]
    /\ Size \in [Letters -> Nat]
    /\ Golden \subseteq Letters /\ Mortal \subseteq Letters
    /\ Requested \subseteq Letters
    /\ StashCapacity \in Nat /\ MaxClaims \in Nat \ {0} /\ MaxTrouble \in Nat
    /\ Nobody \notin Attempts

VARIABLES
    requests,   \* the requests the broker still has
    inbox,      \* processed_events
    stored,     \* [Letters -> Nat]: rows of letters
    expired,    \* the letters past their expires_at
    row,        \* [Claims -> claim_state], "none" where there is no row
    read,       \* the claims whose row has a read_at
    holder,     \* [Claims -> Attempts or Nobody]: who has the row locked
    pc,         \* [Attempts -> where a ClaimLetter stands]
    of,         \* [Attempts -> what it claims, Nobody when idle]
    found,      \* [Attempts -> the state it locked the row in]
    abroad,     \* calls given up on that may still be served
    grants,     \* item_grants: the grant ids, with their members
    minted,     \* [Claims -> Nat]: times the enclosed items were minted
    stash,      \* [Members -> Nat]: cells taken
    marks,      \* processed_activities: the keys of credits
    credited,   \* [Claims -> Nat]: times the enclosed gold was credited
    accounts,   \* the members whose wallet account exists
    trouble

letters == <<requests, inbox, stored, expired>>
rows == <<row, read, holder>>
calls == <<pc, of, found>>
paid == <<grants, minted, stash, marks, credited>>
vars == <<letters, rows, calls, abroad, paid, accounts, trouble>>

Claims == {c \in Letters \X Members : c[2] \in To[c[1]]}
HasItems(c) == Size[c[1]] > 0
HasGold(c) == c[1] \in Golden
States == {"none", "unclaimed", "claiming", "claimed"}
InTx == {"items", "gold", "refused", "failed", "done"}

Busy == {a \in Attempts : pc[a] # "idle"}

TypeOK ==
    /\ requests \subseteq Requested /\ inbox \subseteq Requested
    /\ stored \in [Letters -> Nat] /\ expired \subseteq Mortal
    /\ row \in [Claims -> States] /\ read \subseteq Claims
    /\ holder \in [Claims -> Attempts \cup {Nobody}]
    /\ pc \in [Attempts -> InTx \cup {"idle", "ensure", "lock"}]
    /\ of \in [Attempts -> Claims \cup {Nobody}] /\ found \in [Attempts -> States]
    /\ abroad \subseteq {"items", "gold"} \X Claims
    /\ grants \subseteq [id : Claims, member : Members]
    /\ minted \in [Claims -> Nat] /\ credited \in [Claims -> Nat]
    /\ marks \subseteq Claims /\ stash \in [Members -> Nat]
    /\ accounts \subseteq Members /\ trouble \in 0..MaxTrouble

Init ==
    /\ requests = Requested /\ inbox = {} /\ expired = {}
    /\ stored = [l \in Letters |-> 0]
    /\ row = [c \in Claims |-> "none"] /\ read = {}
    /\ holder = [c \in Claims |-> Nobody]
    /\ pc = [a \in Attempts |-> "idle"]
    /\ of = [a \in Attempts |-> Nobody]
    /\ found = [a \in Attempts |-> "none"]
    /\ abroad = {} /\ grants = {} /\ marks = {} /\ accounts = {}
    /\ minted = [c \in Claims |-> 0] /\ credited = [c \in Claims |-> 0]
    /\ stash = [m \in Members |-> 0]
    /\ trouble = 0

Trouble == trouble < MaxTrouble /\ trouble' = trouble + 1

---------------------------------------------------------------------------
(* Letters: an admin's send, and the request of another service.           *)

(* An admin's letter is stored by one statement in one transaction. *)
SendLetter(l) ==
    /\ l \notin Requested /\ stored[l] = 0
    /\ stored' = [stored EXCEPT ![l] = 1]
    /\ UNCHANGED <<requests, inbox, expired, rows, calls, abroad, paid, accounts, trouble>>

(* The mark and the letter of a request, in one transaction; a request that
   breaks the letter rules, or names a template items does not know, is
   marked alone. *)
Store(l) ==
    /\ inbox' = inbox \cup {l}
    /\ stored' \in {stored, [stored EXCEPT ![l] = @ + 1]}
    /\ l \in inbox => UNCHANGED stored

(* A request is handled and acknowledged, or handled with the
   acknowledgement lost, so that it comes again.  After transient failures,
   which leave nothing, it is parked for good. *)
ProcessLetterRequested(l) ==
    /\ l \in requests
    /\ \/ Store(l) /\ requests' = requests \ {l} /\ UNCHANGED trouble
       \/ Store(l) /\ Trouble /\ UNCHANGED requests
       \/ Trouble /\ requests' = requests \ {l} /\ UNCHANGED <<inbox, stored>>
    /\ UNCHANGED <<expired, rows, calls, abroad, paid, accounts>>

Expire(l) ==
    /\ l \in Mortal \ expired /\ stored[l] > 0
    /\ expired' = expired \cup {l}
    /\ UNCHANGED <<requests, inbox, stored, rows, calls, abroad, paid, accounts, trouble>>

Open(c) == stored[c[1]] > 0 /\ c[1] \notin expired

(* The reader's row is made if there is none; a row a claim has locked is
   skipped, for the claim records the read itself. *)
MarkLetterRead(c) ==
    /\ Open(c) /\ holder[c] = Nobody /\ c \notin read
    /\ row' = [row EXCEPT ![c] = IF @ = "none" THEN "unclaimed" ELSE @]
    /\ read' = read \cup {c}
    /\ UNCHANGED <<letters, holder, calls, abroad, paid, accounts, trouble>>

---------------------------------------------------------------------------
(* What a call does in the service it reaches.                             *)

(* claimKey: derived from letter and member, so every attempt of one claim
   carries the same. *)
ClaimKey(c) == c

Granted(c) == \E g \in grants : g.id = ClaimKey(c)
GrantedTo(c) == [id |-> ClaimKey(c), member |-> c[2]] \in grants
Room(c) == stash[c[2]] + Size[c[1]] =< StashCapacity

(* GrantItems: the id is recorded first and decides, so a repeat neither
   mints nor looks at the stash; with no room it is rolled back. *)
\* mutant: the grant id is not looked at
MintsUnkeyed(c) == Room(c)
Mints(c) == ~Granted(c) /\ Room(c)

GrantItems(c) ==
    IF Mints(c)
    THEN /\ grants' = grants \cup {[id |-> ClaimKey(c), member |-> c[2]]}
         /\ minted' = [minted EXCEPT ![c] = @ + 1]
         /\ stash' = [stash EXCEPT ![c[2]] = @ + Size[c[1]]]
    ELSE UNCHANGED <<grants, minted, stash>>

(* What the mailbox makes of items' answer: STASH_FULL stands for the
   refusal of snapshots that cannot be minted as well; an id that is another
   member's is an error and no refusal. *)
\* mutant: the stash is counted before the grant id is looked at
GrantAnswerRoomFirst(c) == IF Room(c) THEN "ok" ELSE "refused"
GrantAnswer(c) ==
    IF Granted(c) THEN IF GrantedTo(c) THEN "ok" ELSE "failed"
    ELSE IF Room(c) THEN "ok" ELSE "refused"

(* Credit: the mark and the gold in one transaction; a member without an
   account gets neither. *)
Credit(c) ==
    IF ClaimKey(c) \notin marks /\ c[2] \in accounts
    THEN /\ marks' = marks \cup {ClaimKey(c)}
         /\ credited' = [credited EXCEPT ![c] = @ + 1]
    ELSE UNCHANGED <<marks, credited>>

Applied(c) == ClaimKey(c) \in marks \/ c[2] \in accounts

---------------------------------------------------------------------------
(* ClaimLetter.                                                            *)

(* A call returns, and gives back its slot. *)
Return(a) ==
    /\ pc' = [pc EXCEPT ![a] = "idle"]
    /\ of' = [of EXCEPT ![a] = Nobody]
    /\ found' = [found EXCEPT ![a] = "none"]

(* The refusals that call nothing come first, then the cap: a claim that
   finds no slot is answered at once. *)
ClaimLetter(a, c) ==
    /\ pc[a] = "idle" /\ Open(c) /\ (HasItems(c) \/ HasGold(c))
    /\ Cardinality(Busy) < MaxClaims
    /\ pc' = [pc EXCEPT ![a] = "ensure"]
    /\ of' = [of EXCEPT ![a] = c]
    /\ UNCHANGED <<letters, rows, found, abroad, paid, accounts, trouble>>

EnsureState(a) ==
    /\ pc[a] = "ensure"
    /\ row' = [row EXCEPT ![of[a]] = IF @ = "none" THEN "unclaimed" ELSE @]
    /\ pc' = [pc EXCEPT ![a] = "lock"]
    /\ UNCHANGED <<letters, read, holder, of, found, abroad, paid, accounts, trouble>>

Lockable(c) == holder[c] = Nobody

(* LockState never waits: a row another claim has locked refuses, and so
   does a claimed one.  StartClaim's write shows when the claim commits. *)
LockState(a) ==
    LET c == of[a] IN
    /\ pc[a] = "lock"
    /\ IF Lockable(c) /\ row[c] # "claimed"
       THEN /\ holder' = [holder EXCEPT ![c] = a]
            /\ found' = [found EXCEPT ![a] = row[c]]
            /\ pc' = [pc EXCEPT ![a] = IF HasItems(c) THEN "items" ELSE "gold"]
            /\ UNCHANGED of
       ELSE Return(a) /\ UNCHANGED holder
    /\ UNCHANGED <<letters, row, read, abroad, paid, accounts, trouble>>

(* Step 1: items answers. *)
GrantStep(a) ==
    LET c == of[a] IN
    /\ pc[a] = "items"
    /\ GrantItems(c)
    /\ pc' = [pc EXCEPT ![a] =
                 IF GrantAnswer(c) # "ok" THEN GrantAnswer(c)
                 ELSE IF HasGold(c) THEN "gold" ELSE "done"]
    /\ UNCHANGED <<letters, rows, of, found, abroad, marks, credited, accounts, trouble>>

(* Step 2: wallet answers. *)
CreditStep(a) ==
    LET c == of[a] IN
    /\ pc[a] = "gold"
    /\ Credit(c)
    /\ pc' = [pc EXCEPT ![a] = IF Applied(c) THEN "done" ELSE "failed"]
    /\ UNCHANGED <<letters, rows, of, found, abroad, grants, minted, stash, accounts, trouble>>

(* A step's answer does not come: the call is out of the claim's hands. *)
AnswerLost(a) ==
    /\ pc[a] \in {"items", "gold"} /\ Trouble
    /\ abroad' = abroad \cup {<<pc[a], of[a]>>}
    /\ pc' = [pc EXCEPT ![a] = "failed"]
    /\ UNCHANGED <<letters, rows, of, found, paid, accounts>>

(* The row as the claim leaves it: back as it was found after a refusal,
   'claiming' after a failure, 'claimed' after both steps. *)
\* mutant: a step that failed is taken for done
OutcomeHopeful(a) == IF pc[a] = "refused" THEN found[a] ELSE "claimed"
\* mutant: a refusal always puts the row back to 'unclaimed'
OutcomeReset(a) ==
    IF pc[a] = "refused" THEN "unclaimed"
    ELSE IF pc[a] = "failed" THEN "claiming" ELSE "claimed"
Outcome(a) ==
    IF pc[a] = "refused" THEN found[a]
    ELSE IF pc[a] = "failed" THEN "claiming" ELSE "claimed"

Commit(a) ==
    /\ pc[a] \in {"refused", "failed", "done"}
    /\ row' = [row EXCEPT ![of[a]] = Outcome(a)]
    /\ read' = read \cup {of[a]}
    /\ holder' = [holder EXCEPT ![of[a]] = Nobody]
    /\ Return(a)
    /\ UNCHANGED <<letters, abroad, paid, accounts, trouble>>

(* The transaction fails, the caller goes away, or the service dies: the row
   is as it was, and a call in flight is left to itself. *)
Rollback(a) ==
    /\ pc[a] \in InTx /\ Trouble
    /\ abroad' = IF pc[a] \in {"items", "gold"}
                 THEN abroad \cup {<<pc[a], of[a]>>} ELSE abroad
    /\ holder' = [holder EXCEPT ![of[a]] = Nobody]
    /\ Return(a)
    /\ UNCHANGED <<letters, row, read, paid, accounts>>

---------------------------------------------------------------------------
(* The world around.                                                       *)

(* A call that was given up on is served after all, or it is not. *)
LateGrant(c) ==
    /\ <<"items", c>> \in abroad
    /\ abroad' = abroad \ {<<"items", c>>}
    /\ GrantItems(c)
    /\ UNCHANGED <<letters, rows, calls, marks, credited, accounts, trouble>>

LateCredit(c) ==
    /\ <<"gold", c>> \in abroad
    /\ abroad' = abroad \ {<<"gold", c>>}
    /\ Credit(c)
    /\ UNCHANGED <<letters, rows, calls, grants, minted, stash, accounts, trouble>>

NeverServed(c) ==
    /\ \E s \in {"items", "gold"} :
          <<s, c>> \in abroad /\ abroad' = abroad \ {<<s, c>>}
    /\ UNCHANGED <<letters, rows, calls, paid, accounts, trouble>>

(* The member moves things in and out of the stash. *)
MoveItem(m) ==
    /\ \/ stash[m] > 0 /\ stash' = [stash EXCEPT ![m] = @ - 1]
       \/ stash[m] < StashCapacity /\ stash' = [stash EXCEPT ![m] = @ + 1]
    /\ UNCHANGED <<letters, rows, calls, abroad, grants, minted, marks, credited, accounts, trouble>>

(* wallet handles the member's signup. *)
CreateAccount(m) ==
    /\ m \notin accounts /\ accounts' = accounts \cup {m}
    /\ UNCHANGED <<letters, rows, calls, abroad, paid, trouble>>

Next ==
    \/ \E l \in Letters : SendLetter(l) \/ ProcessLetterRequested(l) \/ Expire(l)
    \/ \E c \in Claims :
          \/ MarkLetterRead(c) \/ LateGrant(c) \/ LateCredit(c) \/ NeverServed(c)
          \/ \E a \in Attempts : ClaimLetter(a, c)
    \/ \E a \in Attempts :
          \/ EnsureState(a) \/ LockState(a) \/ GrantStep(a) \/ CreditStep(a)
          \/ AnswerLost(a) \/ Commit(a) \/ Rollback(a)
    \/ \E m \in Members : MoveItem(m) \/ CreateAccount(m)

Spec == Init /\ [][Next]_vars

(* A claim under way goes on; wallet handles the signup in the end.  That a
   member claims again what the mailbox still shows as unclaimed is an
   assumption about the member. *)
Proceed(a) ==
    EnsureState(a) \/ LockState(a) \/ GrantStep(a) \/ CreditStep(a) \/ Commit(a)

Fairness ==
    /\ \A a \in Attempts : WF_vars(Proceed(a))
    /\ \A m \in Members : WF_vars(CreateAccount(m))
    /\ \A c \in Claims : SF_vars(\E a \in Attempts : ClaimLetter(a, c))

LiveSpec == Spec /\ Fairness
---------------------------------------------------------------------------
(* Properties.                                                             *)

Paid(c) == (HasItems(c) => minted[c] > 0) /\ (HasGold(c) => credited[c] > 0)
HalfPaid(c) == HasItems(c) /\ HasGold(c) /\ minted[c] > 0 /\ credited[c] = 0

(* A letter is stored once and pays once: whatever answers are lost,
   whichever calls are served late and however often it is claimed, at once
   or again, its items are minted once for a member and its gold credited
   once (ADR-0044; R20, R25 to R29). *)
PaidOnce ==
    /\ \A l \in Letters : stored[l] =< 1
    /\ \A c \in Claims : minted[c] =< 1 /\ credited[c] =< 1

(* A letter marked claimed has given its reader everything enclosed, and one
   that has paid its gold has given its items before: the mailbox never
   shows a letter as taken whose enclosures are missing (R17). *)
ClaimedMeansPaid ==
    \A c \in Claims :
        /\ row[c] = "claimed" => Paid(c)
        /\ credited[c] > 0 /\ HasItems(c) => minted[c] > 0

(* What a reader has been shown is not taken back: once committed, a claim's
   state never falls behind (a refusal of a later attempt does not turn a
   half-done claim into an untouched one) and a read letter stays read. *)
Rank(s) ==
    IF s = "none" THEN 0 ELSE IF s = "unclaimed" THEN 1 ELSE IF s = "claiming" THEN 2 ELSE 3
NeverBack ==
    [][/\ \A c \in Claims : Rank(row[c]) =< Rank(row'[c])
       /\ read \subseteq read']_vars

(* A letter that has given its items and not its gold is made whole, even if
   the stash is full by then, unless it expires first (R27, R28; the
   forfeit at expiry is accepted by the specification). *)
MadeWhole ==
    \A c \in Claims : HalfPaid(c) ~> (Paid(c) \/ c[1] \in expired)
=============================================================================
