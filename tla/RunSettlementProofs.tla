------------------------ MODULE RunSettlementProofs ------------------------
(***************************************************************************)
(* Proofs about module RunSettlement, for any members, runs, items and     *)
(* number of failures: what a run found is stored once (FindsOnce), what   *)
(* is applied was recorded and what is confirmed is applied                *)
(* (AppliedWasRecorded), a member in play keeps their gear (LiveGearHeld), *)
(* and what was used up never comes home (UsedUpStaysGone).                *)
(*                                                                         *)
(* The argument is about the settlements that exist anywhere, Pending:     *)
(* Sound says of each one whom it may speak for, Unique that two of one    *)
(* run never speak for the same member in two ways.  Records ties          *)
(* items-service to them, and Carried says that what members carry and     *)
(* use up is their own.                                                    *)
(***************************************************************************)
EXTENDS RunSettlement, TLAPS

\* what is true of a settlement e from the moment it exists
Sound(e) ==
    /\ \A m \in e.key : seat[e.run][m] # "expected"
    /\ \A i \in e.used : Owner[i] \in e.key
    /\ e.partial =>
          /\ \E m \in Members : e.key = {m}
          /\ \A m \in e.key : seat[e.run][m] # "in"
          /\ pod[e.run] # "dead" => e.key \subseteq settled[e.run]
    /\ ~e.partial => phase[e.run] \in {"taken", "closed"} /\ e.key \cap e.named = {}

AllSound == \A e \in Pending : Sound(e)

\* two settlements of one run; a late arrival could still spoil the last line
Agree(e, f) ==
    e.run = f.run =>
        /\ e.partial /\ f.partial /\ e.key = f.key => e = f
        /\ ~e.partial /\ ~f.partial => e = f
        /\ "taken" \notin Boarding /\ e.partial /\ ~f.partial => e.key \subseteq f.named

Unique == \A e, f \in Pending : Agree(e, f)

\* whoever is seated when the end takes the run over has been settled by it
Boarded ==
    "taken" \notin Boarding =>
        \A r \in Runs, m \in Members :
            phase[r] = "taken" /\ pod[r] # "dead" /\ seat[r][m] \in {"in", "out"} => m \in settled[r]

Once == \A r \in Runs, k \in SUBSET Members : stored[r][k] = IF <<r, k>> \in inbox THEN 1 ELSE 0

Records ==
    /\ inbox \subseteq {Id(e) : e \in rows}
    /\ \A h \in held : h.step = "apply" => h.ev \in rows
    /\ told \subseteq inbox
    /\ \A t \in inbox, i \in Items : Owner[i] \in t[2] => inst[i] # t[1]

Carried ==
    /\ \A r \in Runs, m \in Members : \A i \in gear[r][m] \cup used[r][m] : Owner[i] = m
    /\ LiveGearHeld

IInv == TypeOK /\ AllSound /\ Unique /\ Boarded /\ Once /\ Records /\ Carried

---------------------------------------------------------------------------
(* Facts every step uses.                                                  *)

LEMMA PendingTyped == ASSUME TypeOK, NEW e \in Pending PROVE e \in Events /\ e.run \in Runs
BY DEF TypeOK, Pending, Events

LEMMA EventParts ==
    ASSUME NEW e \in Events
    PROVE  /\ e.run \in Runs /\ e.partial \in BOOLEAN /\ e.key \in SUBSET Members
           /\ e.named \in SUBSET Members /\ e.used \in SUBSET Items
           /\ Id(e) = <<e.run, e.key>> /\ Id(e) \in Runs \X SUBSET Members
BY DEF Events, Id

(* Where no settlement is added and each stays sound, the two invariants
   about them stay true. *)
LEMMA NoneAdded ==
    ASSUME AllSound, Unique, Pending' \subseteq Pending,
           \A e \in Pending : Sound(e) => Sound(e)'
    PROVE  AllSound' /\ Unique'
BY DEF AllSound, Unique, Agree

(* The transaction in items-service marks what it applies, takes home or
   deletes only what the settlement covers, and leaves members in play
   alone. *)
LEMMA SettleEffect ==
    ASSUME IInv, NEW e \in rows, Settle(e) \/ UNCHANGED items
    PROVE  /\ inst' \in [Items -> Runs \cup {"home", "gone"}]
           /\ inbox' \subseteq Runs \X SUBSET Members
           /\ stored' \in [Runs -> [SUBSET Members -> Nat]]
           /\ Once'
           /\ inbox' \subseteq {Id(f) : f \in rows}
           /\ inbox \subseteq inbox'
           /\ \A t \in inbox', i \in Items : Owner[i] \in t[2] => inst'[i] # t[1]
           /\ \A m \in Members, r \in Runs : Playing(m, r) => \A i \in gear[r][m] : inst'[i] = r
<1> USE DEF IInv, items
<1>0. e \in Pending /\ e \in Events /\ e.run \in Runs /\ e.key \in SUBSET Members /\ Id(e) = <<e.run, e.key>>
  BY PendingTyped, EventParts DEF Pending
<1>s. Sound(e)
  BY <1>0 DEF AllSound
<1>1. CASE UNCHANGED items
  BY <1>1 DEF TypeOK, Once, Records, Carried, LiveGearHeld
<1>2. CASE Id(e) \notin inbox /\ Settle(e)
  <2>1. inbox' = inbox \cup {Id(e)} /\ inst' = After(e) /\ stored' = [stored EXCEPT ![e.run][e.key] = @ + 1]
    BY <1>2 DEF Settle
  <2>2. \A i \in Items : inst'[i] = IF inst[i] # e.run THEN inst[i]
                                     ELSE IF i \in e.used THEN "gone"
                                     ELSE IF Covers(e, Owner[i]) THEN "home"
                                     ELSE inst[i]
    BY <2>1 DEF After
  <2>3. inst' \in [Items -> Runs \cup {"home", "gone"}]
    <3>1. inst' = [i \in Items |-> inst'[i]]
      BY <2>1 DEF After
    <3> QED BY <2>2, <3>1 DEF TypeOK
  <2>4. inbox' \subseteq Runs \X SUBSET Members
    BY <1>0, <2>1, EventParts DEF TypeOK
  <2>5. stored' \in [Runs -> [SUBSET Members -> Nat]] /\ Once'
    <3>1. stored[e.run][e.key] = 0
      BY <1>0, <1>2 DEF Once
    <3>2. stored'[e.run][e.key] = 1 /\ stored' \in [Runs -> [SUBSET Members -> Nat]]
      <4>1. stored[e.run] \in [SUBSET Members -> Nat]
        BY <1>0 DEF TypeOK
      <4>2. [stored[e.run] EXCEPT ![e.key] = @ + 1] \in [SUBSET Members -> Nat]
        BY <1>0, <4>1
      <4>3. stored' = [stored EXCEPT ![e.run] = [stored[e.run] EXCEPT ![e.key] = @ + 1]]
        BY <2>1
      <4> QED BY <1>0, <3>1, <4>1, <4>2, <4>3 DEF TypeOK
    <3>3. ASSUME NEW r \in Runs, NEW k \in SUBSET Members
          PROVE  stored'[r][k] = IF <<r, k>> \in inbox' THEN 1 ELSE 0
      <4>1. CASE r = e.run /\ k = e.key
        BY <1>0, <2>1, <3>2, <4>1
      <4>2. CASE ~(r = e.run /\ k = e.key)
        <5>1. stored'[r][k] = stored[r][k]
          BY <1>0, <2>1, <4>2 DEF TypeOK
        <5>2. <<r, k>> \in inbox' <=> <<r, k>> \in inbox
          BY <1>0, <2>1, <4>2
        <5> QED BY <5>1, <5>2 DEF Once
      <4> QED BY <4>1, <4>2
    <3> QED BY <3>2, <3>3 DEF Once
  <2>6. inbox' \subseteq {Id(f) : f \in rows} /\ inbox \subseteq inbox'
    BY <2>1 DEF Records
  <2>7. ASSUME NEW t \in inbox', NEW i \in Items, Owner[i] \in t[2]
        PROVE  inst'[i] # t[1]
    <3>1. CASE t \in inbox
      <4>1. inst[i] # t[1] /\ t[1] \in Runs
        BY <2>7, <3>1 DEF Records, TypeOK
      <4> QED BY <2>2, <4>1, RunConstants
    <3>2. CASE t = Id(e)
      <4>1. t[1] = e.run /\ Owner[i] \in e.key
        BY <1>0, <2>7, <3>2
      <4>2. Covers(e, Owner[i])
        BY <1>0, <1>s, <4>1, EventParts DEF Covers, Sound
      <4> QED BY <1>0, <2>2, <4>1, <4>2, RunConstants
    <3> QED BY <2>1, <3>1, <3>2
  <2>8. ASSUME NEW m \in Members, NEW r \in Runs, Playing(m, r), NEW i \in gear[r][m]
        PROVE  inst'[i] = r
    <3>1. i \in Items /\ Owner[i] = m /\ inst[i] = r
      BY <2>8 DEF Carried, LiveGearHeld, TypeOK
    <3>2. CASE r # e.run
      BY <2>2, <3>1, <3>2
    <3>3. CASE r = e.run
      <4>1. e.partial => m \notin e.key
        BY <1>s, <2>8, <3>3 DEF Sound, Playing
      <4>2. e.partial
        BY <1>0, <1>s, <2>8, <3>3, EventParts DEF Sound, Playing
      <4>3. i \notin e.used /\ ~Covers(e, Owner[i])
        BY <1>s, <3>1, <4>1, <4>2 DEF Sound, Covers
      <4> QED BY <2>2, <3>1, <3>3, <4>3
    <3> QED BY <3>2, <3>3
  <2> QED BY <2>3, <2>4, <2>5, <2>6, <2>7, <2>8
<1>3. CASE Id(e) \in inbox /\ Settle(e)
  BY <1>1, <1>3 DEF Settle
<1> QED BY <1>1, <1>2, <1>3

(* Checking out the gear of a member who is in no run and was never settled
   in r disturbs neither what is applied nor whoever plays. *)
LEMMA CheckOutEffect ==
    ASSUME IInv, NEW m \in Members, NEW r \in Runs, Expected(m, r),
           inst' = CheckOut(m, r) \/ UNCHANGED inst
    PROVE  /\ inst' \in [Items -> Runs \cup {"home", "gone"}]
           /\ \A t \in inbox, i \in Items : Owner[i] \in t[2] => inst'[i] # t[1]
           /\ \A n \in Members, q \in Runs : Playing(n, q) => n # m /\ \A i \in gear[q][n] : inst'[i] = q
<1> USE DEF IInv
<1>0. \A n \in Members, q \in Runs : Playing(n, q) => n # m
  BY RunConstants DEF Playing, Expected
<1>1. CASE UNCHANGED inst
  BY <1>0, <1>1 DEF TypeOK, Records, Carried, LiveGearHeld
<1>2. CASE inst' = CheckOut(m, r)
  <2>1. \A i \in Items : inst'[i] = IF Owner[i] = m /\ inst[i] # "gone" THEN r ELSE inst[i]
    BY <1>2 DEF CheckOut
  <2>2. inst' \in [Items -> Runs \cup {"home", "gone"}]
    <3>1. inst' = [i \in Items |-> inst'[i]]
      BY <1>2 DEF CheckOut
    <3> QED BY <2>1, <3>1 DEF TypeOK
  <2>3. ASSUME NEW t \in inbox, NEW i \in Items, Owner[i] \in t[2]
        PROVE  inst'[i] # t[1]
    <3>1. PICK e \in rows : t = Id(e)
      BY DEF Records
    <3>2. Sound(e) /\ t[1] = e.run /\ t[2] = e.key
      BY <3>1 DEF AllSound, Pending, Id
    <3>3. Owner[i] = m => t[1] # r
      BY <2>3, <3>2 DEF Sound, Expected
    <3> QED BY <2>1, <2>3, <3>3 DEF Records
  <2>4. ASSUME NEW n \in Members, NEW q \in Runs, Playing(n, q), NEW i \in gear[q][n]
        PROVE  inst'[i] = q
    <3>1. i \in Items /\ Owner[i] = n /\ inst[i] = q /\ n # m
      BY <1>0, <2>4 DEF Carried, LiveGearHeld, TypeOK
    <3> QED BY <2>1, <3>1
  <2> QED BY <1>0, <2>2, <2>3, <2>4
<1> QED BY <1>1, <1>2

---------------------------------------------------------------------------
(* The invariant holds at the start, and every action preserves it.        *)

LEMMA InitIInv == Init => IInv
<1> SUFFICES ASSUME Init PROVE IInv
  OBVIOUS
<1> USE DEF Init
<1>0. Pending = {}
  BY DEF Pending
<1>1. TypeOK
  BY RunConstants DEF TypeOK, Seats
<1>2. AllSound /\ Unique
  BY <1>0 DEF AllSound, Unique
<1>3. Boarded /\ Once /\ Records
  BY DEF Boarded, Once, Records
<1>4. Carried
  BY DEF Carried, LiveGearHeld, Playing
<1> QED BY <1>1, <1>2, <1>3, <1>4 DEF IInv

LEMMA SeatArrivalIInv ==
    ASSUME IInv, NEW m \in Members, NEW r \in Runs, SeatArrival(m, r)
    PROVE  IInv'
<1> USE DEF IInv, vars, items, world, writer, SeatArrival, Sit
<1>e. /\ inst' \in [Items -> Runs \cup {"home", "gone"}]
      /\ \A t \in inbox, i \in Items : Owner[i] \in t[2] => inst'[i] # t[1]
      /\ \A n \in Members, q \in Runs : Playing(n, q) => n # m /\ \A i \in gear[q][n] : inst'[i] = q
  BY CheckOutEffect
<1>w. /\ seat[r][m] = "expected" /\ phase[r] \in Boarding
      /\ \A q \in Runs, n \in Members :
            /\ seat'[q][n] = IF q = r /\ n = m THEN "in" ELSE seat[q][n]
            /\ gear'[q][n] = IF q = r /\ n = m THEN {i \in Items : Owner[i] = m /\ inst[i] # "gone"} ELSE gear[q][n]
      /\ \A n \in Members : where'[n] = IF n = m THEN r ELSE where[n]
      /\ UNCHANGED <<inbox, phase, used, settled, final, pod, writer>>
  BY DEF Expected, TypeOK
<1>c. ASSUME NEW n \in Members, NEW q \in Runs, Playing(n, q)', ~(n = m /\ q = r)
      PROVE  Playing(n, q) /\ gear'[q][n] = gear[q][n]
  BY <1>w, <1>c DEF Playing
<1>d. \A q \in Runs, n \in Members : \A i \in gear'[q][n] \cup used'[q][n] : Owner[i] = n
  BY <1>w DEF Carried
<1>f. trouble' \in Nat
  BY DEF Fails, TypeOK
<1>m. \A i \in gear'[r][m] : inst'[i] = r
  <2>1. gear'[r][m] = {i \in Items : Owner[i] = m /\ inst[i] # "gone"}
    BY <1>w
  <2> QED BY <2>1 DEF CheckOut
<1>l. LiveGearHeld'
  <2> SUFFICES ASSUME NEW n \in Members, NEW q \in Runs, Playing(n, q)', NEW i \in gear'[q][n]
               PROVE  inst'[i] = q
    BY DEF LiveGearHeld
  <2>1. CASE n = m /\ q = r
    BY <1>m, <2>1
  <2>2. CASE ~(n = m /\ q = r)
    BY <1>c, <1>e, <2>2
  <2> QED BY <2>1, <2>2
<1>1. TypeOK'
  BY <1>e, <1>f DEF TypeOK, Seats
<1>a. Pending' \subseteq Pending
  BY DEF Pending
<1>b. ASSUME NEW e \in Pending, Sound(e) PROVE Sound(e)'
  <2>1. e.run \in Runs /\ e.key \in SUBSET Members
    BY PendingTyped, EventParts
  <2>2. \A n \in e.key : seat'[e.run][n] = seat[e.run][n]
    BY <1>w, <1>b, <2>1 DEF Sound
  <2> QED BY <1>w, <1>b, <2>1, <2>2 DEF Sound
<1>2. AllSound' /\ Unique'
  BY <1>a, <1>b, NoneAdded
<1>3. Boarded'
  BY <1>w DEF Boarded, TypeOK
<1>4. Once'
  BY DEF Once
<1>5. Records'
  BY <1>e DEF Records
<1>6. Carried'
  BY <1>d, <1>l DEF Carried
<1> QED BY <1>1, <1>2, <1>3, <1>4, <1>5, <1>6

LEMMA SeatBareIInv ==
    ASSUME IInv, NEW m \in Members, NEW r \in Runs, SeatBare(m, r)
    PROVE  IInv'
<1> USE DEF IInv, vars, items, world, writer, SeatBare, Sit
<1>e. /\ inst' \in [Items -> Runs \cup {"home", "gone"}]
      /\ \A t \in inbox, i \in Items : Owner[i] \in t[2] => inst'[i] # t[1]
      /\ \A n \in Members, q \in Runs : Playing(n, q) => n # m /\ \A i \in gear[q][n] : inst'[i] = q
  BY CheckOutEffect
<1>w. /\ seat[r][m] = "expected" /\ phase[r] \in Boarding
      /\ \A q \in Runs, n \in Members :
            /\ seat'[q][n] = IF q = r /\ n = m THEN "in" ELSE seat[q][n]
            /\ gear'[q][n] = IF q = r /\ n = m THEN {} ELSE gear[q][n]
      /\ \A n \in Members : where'[n] = IF n = m THEN r ELSE where[n]
      /\ UNCHANGED <<inbox, phase, used, settled, final, pod, writer>>
  BY DEF Expected, TypeOK
<1>c. ASSUME NEW n \in Members, NEW q \in Runs, Playing(n, q)', ~(n = m /\ q = r)
      PROVE  Playing(n, q) /\ gear'[q][n] = gear[q][n]
  BY <1>w, <1>c DEF Playing
<1>d. \A q \in Runs, n \in Members : \A i \in gear'[q][n] \cup used'[q][n] : Owner[i] = n
  BY <1>w DEF Carried
<1>f. trouble' \in Nat
  BY DEF Fails, TypeOK
<1>m. gear'[r][m] = {}
  BY <1>w
<1>l. LiveGearHeld'
  <2> SUFFICES ASSUME NEW n \in Members, NEW q \in Runs, Playing(n, q)', NEW i \in gear'[q][n]
               PROVE  inst'[i] = q
    BY DEF LiveGearHeld
  <2>1. CASE n = m /\ q = r
    BY <1>m, <2>1
  <2>2. CASE ~(n = m /\ q = r)
    BY <1>c, <1>e, <2>2
  <2> QED BY <2>1, <2>2
<1>1. TypeOK'
  BY <1>e, <1>f DEF TypeOK, Seats
<1>a. Pending' \subseteq Pending
  BY DEF Pending
<1>b. ASSUME NEW e \in Pending, Sound(e) PROVE Sound(e)'
  <2>1. e.run \in Runs /\ e.key \in SUBSET Members
    BY PendingTyped, EventParts
  <2>2. \A n \in e.key : seat'[e.run][n] = seat[e.run][n]
    BY <1>w, <1>b, <2>1 DEF Sound
  <2> QED BY <1>w, <1>b, <2>1, <2>2 DEF Sound
<1>2. AllSound' /\ Unique'
  BY <1>a, <1>b, NoneAdded
<1>3. Boarded'
  BY <1>w DEF Boarded, TypeOK
<1>4. Once'
  BY DEF Once
<1>5. Records'
  BY <1>e DEF Records
<1>6. Carried'
  BY <1>d, <1>l DEF Carried
<1> QED BY <1>1, <1>2, <1>3, <1>4, <1>5, <1>6

LEMMA RefuseHandoffIInv ==
    ASSUME IInv, NEW m \in Members, NEW r \in Runs, RefuseHandoff(m, r)
    PROVE  IInv'
<1> USE DEF IInv, vars, items, world, writer, RefuseHandoff
<1>e. /\ inst' \in [Items -> Runs \cup {"home", "gone"}]
      /\ \A t \in inbox, i \in Items : Owner[i] \in t[2] => inst'[i] # t[1]
      /\ \A n \in Members, q \in Runs : Playing(n, q) => n # m /\ \A i \in gear[q][n] : inst'[i] = q
  BY CheckOutEffect
<1>f. trouble' \in Nat
  BY DEF Fails, TypeOK
<1>1. TypeOK'
  BY <1>e, <1>f DEF TypeOK, Seats
<1>a. Pending' \subseteq Pending
  BY DEF Pending, TypeOK
<1>b. \A e \in Pending : Sound(e) => Sound(e)'
  BY PendingTyped DEF Sound, TypeOK
<1>2. AllSound' /\ Unique'
  BY <1>a, <1>b, NoneAdded
<1>3. Boarded'
  BY DEF Boarded, TypeOK
<1>4. Once'
  BY DEF Once
<1>5. Records'
  BY <1>e DEF Records
<1>6. Carried'
  BY <1>e DEF Carried, LiveGearHeld, Playing, TypeOK
<1> QED BY <1>1, <1>2, <1>3, <1>4, <1>5, <1>6

LEMMA ReleaseUnclaimedSeatsIInv ==
    ASSUME IInv, NEW r \in Runs, ReleaseUnclaimedSeats(r)
    PROVE  IInv'
<1> USE DEF IInv, vars, items, world, writer, ReleaseUnclaimedSeats
<1>w. /\ \A q \in Runs, n \in Members :
            seat'[q][n] = IF q = r /\ seat[q][n] = "expected" THEN "none" ELSE seat[q][n]
      /\ \A q \in Runs : phase'[q] \in {phase[q], "closed"}
      /\ UNCHANGED <<pod, settled>>
  BY DEF TypeOK
<1>1. TypeOK'
  BY DEF TypeOK, Seats
<1>a. Pending' \subseteq Pending
  BY DEF Pending, TypeOK
<1>b. ASSUME NEW e \in Pending, Sound(e) PROVE Sound(e)'
  <2>1. e.run \in Runs /\ e.key \in SUBSET Members
    BY PendingTyped, EventParts
  <2> QED BY <1>w, <1>b, <2>1 DEF Sound
<1>2. AllSound' /\ Unique'
  BY <1>a, <1>b, NoneAdded
<1>3. Boarded'
  BY DEF Boarded, TypeOK
<1>4. Once'
  BY DEF Once
<1>5. Records'
  BY DEF Records
<1>6. Carried'
  BY DEF Carried, LiveGearHeld, Playing, TypeOK
<1> QED BY <1>1, <1>2, <1>3, <1>4, <1>5, <1>6

LEMMA DrinkPotionIInv ==
    ASSUME IInv, NEW m \in Members, NEW r \in Runs, NEW i \in Items, DrinkPotion(m, r, i)
    PROVE  IInv'
<1> USE DEF IInv, vars, items, world, writer, DrinkPotion
<1>1. TypeOK'
  BY DEF TypeOK, Seats
<1>a. Pending' \subseteq Pending
  BY DEF Pending, TypeOK
<1>b. \A e \in Pending : Sound(e) => Sound(e)'
  BY PendingTyped DEF Sound, TypeOK
<1>2. AllSound' /\ Unique'
  BY <1>a, <1>b, NoneAdded
<1>3. Boarded'
  BY DEF Boarded, TypeOK
<1>4. Once'
  BY DEF Once
<1>5. Records'
  BY DEF Records
<1>6. Carried'
  BY DEF Carried, LiveGearHeld, Playing, TypeOK
<1> QED BY <1>1, <1>2, <1>3, <1>4, <1>5, <1>6

LEMMA DepartIInv ==
    ASSUME IInv, NEW m \in Members, NEW r \in Runs, Depart(m, r)
    PROVE  IInv'
<1> USE DEF IInv, vars, items, world, writer, Depart
<1>1. TypeOK'
  BY DEF TypeOK, Seats
<1>a. Pending' \subseteq Pending
  BY DEF Pending, TypeOK
<1>b. \A e \in Pending : Sound(e) => Sound(e)'
  BY PendingTyped DEF Sound, TypeOK
<1>2. AllSound' /\ Unique'
  BY <1>a, <1>b, NoneAdded
<1>3. Boarded'
  BY DEF Boarded, TypeOK
<1>4. Once'
  BY DEF Once
<1>5. Records'
  BY DEF Records
<1>6. Carried'
  BY RunConstants DEF Carried, LiveGearHeld, Playing, TypeOK
<1> QED BY <1>1, <1>2, <1>3, <1>4, <1>5, <1>6

LEMMA EndRuleIInv ==
    ASSUME IInv, NEW r \in Runs, EndRule(r)
    PROVE  IInv'
<1> USE DEF IInv, vars, items, world, writer, EndRule
<1>1. TypeOK'
  BY DEF TypeOK, Seats
<1>a. Pending' \subseteq Pending
  BY DEF Pending, TypeOK
<1>b. \A e \in Pending : Sound(e) => Sound(e)'
  BY PendingTyped DEF Sound, TypeOK
<1>2. AllSound' /\ Unique'
  BY <1>a, <1>b, NoneAdded
<1>3. Boarded'
  BY DEF Boarded, TypeOK
<1>4. Once'
  BY DEF Once
<1>5. Records'
  BY DEF Records
<1>6. Carried'
  BY DEF Carried, LiveGearHeld, Playing, TypeOK
<1> QED BY <1>1, <1>2, <1>3, <1>4, <1>5, <1>6

LEMMA ReturnToHubIInv ==
    ASSUME IInv, NEW m \in Members, NEW r \in Runs, ReturnToHub(m, r)
    PROVE  IInv'
<1> USE DEF IInv, vars, items, world, writer, ReturnToHub
<1>w. /\ \A q \in Runs, n \in Members :
            seat'[q][n] = IF q = r /\ n = m /\ m \in settled[r] THEN "out" ELSE seat[q][n]
      /\ \A n \in Members : where'[n] = IF n = m THEN NoRun ELSE where[n]
      /\ UNCHANGED <<pod, settled, phase, gear, used, inst>>
  BY DEF TypeOK
<1>1. TypeOK'
  BY DEF TypeOK, Seats
<1>a. Pending' \subseteq Pending
  BY DEF Pending, TypeOK
<1>b. ASSUME NEW e \in Pending, Sound(e) PROVE Sound(e)'
  <2>1. e.run \in Runs /\ e.key \in SUBSET Members
    BY PendingTyped, EventParts
  <2> QED BY <1>w, <1>b, <2>1 DEF Sound
<1>2. AllSound' /\ Unique'
  BY <1>a, <1>b, NoneAdded
<1>3. Boarded'
  BY DEF Boarded, TypeOK
<1>4. Once'
  BY DEF Once
<1>5. Records'
  BY DEF Records
<1>6. Carried'
  BY <1>w, RunConstants DEF Carried, LiveGearHeld, Playing
<1> QED BY <1>1, <1>2, <1>3, <1>4, <1>5, <1>6

LEMMA EndLifetimeIInv ==
    ASSUME IInv, NEW r \in Runs, EndLifetime(r)
    PROVE  IInv'
<1> USE DEF IInv, vars, items, world, writer, EndLifetime
<1>1. TypeOK'
  BY DEF TypeOK, Seats
<1>a. Pending' \subseteq Pending
  BY DEF Pending, TypeOK
<1>b. \A e \in Pending : Sound(e) => Sound(e)'
  BY PendingTyped DEF Sound, TypeOK
<1>2. AllSound' /\ Unique'
  BY <1>a, <1>b, NoneAdded
<1>3. Boarded'
  BY DEF Boarded, TypeOK
<1>4. Once'
  BY DEF Once
<1>5. Records'
  BY DEF Records
<1>6. Carried'
  BY DEF Carried, LiveGearHeld, Playing, TypeOK
<1> QED BY <1>1, <1>2, <1>3, <1>4, <1>5, <1>6

LEMMA DrainIInv ==
    ASSUME IInv, NEW r \in Runs, Drain(r)
    PROVE  IInv'
<1> USE DEF IInv, vars, items, world, writer, Drain
<1>1. TypeOK'
  BY DEF TypeOK, Seats
<1>a. Pending' \subseteq Pending
  BY DEF Pending, TypeOK
<1>b. \A e \in Pending : Sound(e) => Sound(e)'
  BY PendingTyped DEF Sound, TypeOK
<1>2. AllSound' /\ Unique'
  BY <1>a, <1>b, NoneAdded
<1>3. Boarded'
  BY DEF Boarded, TypeOK
<1>4. Once'
  BY DEF Once
<1>5. Records'
  BY DEF Records
<1>6. Carried'
  BY DEF Carried, LiveGearHeld, Playing, TypeOK
<1> QED BY <1>1, <1>2, <1>3, <1>4, <1>5, <1>6

LEMMA ResolveIInv ==
    ASSUME IInv, NEW m \in Members, NEW r \in Runs, Resolve(m, r)
    PROVE  IInv'
<1> USE DEF IInv, vars, items, world, writer, Resolve
<1>0. PICK e : e = Event(r, TRUE, {m}, {}, used[r][m])
  OBVIOUS
<1>e. e \in Events /\ e.run = r /\ e.partial /\ e.key = {m} /\ e.used = used[r][m]
  <2>1. used[r][m] \in SUBSET Items
    BY DEF TypeOK
  <2>2. {m} \in SUBSET Members /\ {} \in SUBSET Members /\ TRUE \in BOOLEAN
    OBVIOUS
  <2> QED BY <1>0, <2>1, <2>2 DEF Event, Events
<1>h. held' \subseteq held \cup {[ev |-> e, step |-> "record", tried |-> FALSE]}
  <2>1. m \notin settled[r] => Hold(e)
    BY <1>0
  <2> QED BY <2>1 DEF Hold
<1>n. m \in settled[r] => held' = held
  OBVIOUS
<1>s. /\ settled' \in [Runs -> SUBSET Members]
      /\ \A q \in Runs : settled[q] \subseteq settled'[q]
      /\ m \in settled'[r]
  <2>1. CASE m \in settled[r]
    BY <2>1 DEF TypeOK
  <2>2. CASE m \notin settled[r]
    <3>1. settled' = [settled EXCEPT ![r] = @ \cup {m}]
      BY <2>2
    <3> QED BY <3>1 DEF TypeOK
  <2> QED BY <2>1, <2>2
<1>w. /\ seat[r][m] = "in" /\ phase[r] # "closed" /\ pod[r] # "dead"
      /\ \A q \in Runs, n \in Members :
            seat'[q][n] = IF q = r /\ n = m THEN "out" ELSE seat[q][n]
      /\ \A q \in Runs : settled[q] \subseteq settled'[q]
      /\ m \in settled'[r]
      /\ UNCHANGED <<where, phase, gear, used, inst, pod>>
  BY <1>s DEF TypeOK
<1>t. held' \subseteq [ev : Events, step : {"record", "apply"}, tried : BOOLEAN]
  <2>1. [ev |-> e, step |-> "record", tried |-> FALSE] \in [ev : Events, step : {"record", "apply"}, tried : BOOLEAN]
    BY <1>e
  <2> QED BY <1>h, <2>1 DEF TypeOK
<1>r. \A g \in held' : g.step = "apply" => g.ev \in rows
  BY <1>h DEF Records
<1>1. TypeOK'
  BY <1>s, <1>t DEF TypeOK, Seats
<1>a. Pending' \subseteq Pending \cup {e}
  <2>1. \A g \in held' : g \in held \/ g.ev = e
    BY <1>h
  <2> QED BY <2>1 DEF Pending
<1>b. ASSUME NEW f \in Pending, Sound(f) PROVE Sound(f)'
  <2>1. f.run \in Runs /\ f.key \in SUBSET Members
    BY PendingTyped, EventParts
  <2> QED BY <1>w, <1>b, <2>1 DEF Sound
<1>c. m \in settled[r] => Pending' \subseteq Pending
  BY <1>n DEF Pending
<1>2. AllSound' /\ Unique'
  <2>1. CASE m \in settled[r]
    BY <1>b, <1>c, <2>1, NoneAdded
  <2>2. CASE m \notin settled[r]
    <3>1. Sound(e)'
      <4>1. \A i \in e.used : Owner[i] = m
        BY <1>e DEF Carried
      <4> QED BY <1>e, <1>w, <4>1 DEF Sound
    <3>2. ASSUME NEW f \in Pending, f.run = r
          PROVE  /\ f.partial => m \notin f.key
                 /\ ~f.partial => "taken" \in Boarding
      <4>1. Sound(f) /\ f \in Events
        BY PendingTyped DEF AllSound
      <4>2. ~f.partial => phase[r] = "taken"
        BY <1>w, <3>2, <4>1 DEF Sound
      <4> QED BY <1>w, <2>2, <3>2, <4>1, <4>2 DEF Sound, Boarded
    <3>3. AllSound'
      BY <1>a, <1>b, <3>1 DEF AllSound
    <3>4. Unique'
      <4>1. \A f \in Pending : Agree(e, f) /\ Agree(f, e)
        BY <1>e, <3>2 DEF Agree
      <4>2. Agree(e, e)
        BY <1>e DEF Agree
      <4> QED BY <1>a, <4>1, <4>2 DEF Unique, Agree
    <3> QED BY <3>3, <3>4
  <2> QED BY <2>1, <2>2
<1>3. Boarded'
  BY <1>w DEF Boarded, TypeOK
<1>4. Once'
  BY DEF Once
<1>5. Records'
  BY <1>r DEF Records
<1>6. Carried'
  BY <1>w DEF Carried, LiveGearHeld, Playing
<1> QED BY <1>1, <1>2, <1>3, <1>4, <1>5, <1>6

LEMMA TakeOverIInv ==
    ASSUME IInv, NEW r \in Runs, TakeOver(r)
    PROVE  IInv'
<1> USE DEF IInv, vars, items, world, writer
<1> DEFINE seated == {m \in Members : seat[r][m] \in {"in", "out"}}
           left == seated \ settled[r]
<1>0. PICK e : e = Event(r, FALSE, left, settled[r], UNION {used[r][m] : m \in left})
  OBVIOUS
<1>t. /\ phase[r] = "ended" /\ pod[r] # "dead"
      /\ phase' = [phase EXCEPT ![r] = "taken"]
      /\ settled' = [settled EXCEPT ![r] = @ \cup seated]
      /\ final' = [final EXCEPT ![r] = {e}]
      /\ UNCHANGED <<items, where, seat, gear, used, pod, writer, trouble>>
  BY <1>0 DEF TakeOver
<1>e. e \in Events /\ e.run = r /\ ~e.partial /\ e.key = left /\ e.named = settled[r]
      /\ e.used = UNION {used[r][m] : m \in left}
  <2>1. left \in SUBSET Members /\ settled[r] \in SUBSET Members
    BY DEF TypeOK
  <2>2. UNION {used[r][m] : m \in left} \in SUBSET Items
    BY DEF TypeOK
  <2>3. FALSE \in BOOLEAN
    OBVIOUS
  <2> HIDE DEF left
  <2> QED BY <1>0, <2>1, <2>2, <2>3 DEF Event, Events
<1>w. /\ \A q \in Runs : phase'[q] = IF q = r THEN "taken" ELSE phase[q]
      /\ \A q \in Runs : settled'[q] = IF q = r THEN settled[q] \cup seated ELSE settled[q]
      /\ UNCHANGED <<seat, pod>>
  BY <1>t DEF TypeOK
<1>1. TypeOK'
  BY ZenonT(40), <1>t, <1>e DEF TypeOK, Seats
<1>a. Pending' \subseteq Pending \cup {e}
  BY <1>t DEF Pending, TypeOK
<1>b. ASSUME NEW f \in Pending, Sound(f) PROVE Sound(f)'
  <2>1. f.run \in Runs /\ f.key \in SUBSET Members
    BY PendingTyped, EventParts
  <2> HIDE DEF seated
  <2> QED BY <1>w, <1>b, <2>1 DEF Sound
<1>2. AllSound' /\ Unique'
  <2>1. Sound(e)'
    <3>1. \A i \in e.used : Owner[i] \in e.key
      BY <1>e DEF Carried, TypeOK
    <3>2. \A m \in e.key : seat'[e.run][m] # "expected"
      BY <1>e, <1>w
    <3> QED BY <1>w, <1>e, <3>1, <3>2 DEF Sound
  <2>2. ASSUME NEW f \in Pending, f.run = r
        PROVE  f.partial /\ f.key \subseteq e.named
    <3>1. Sound(f) /\ f \in Events
      BY PendingTyped DEF AllSound
    <3> QED BY <1>t, <1>e, <2>2, <3>1, EventParts DEF Sound
  <2>3. AllSound'
    BY <1>a, <1>b, <2>1 DEF AllSound
  <2>4. Unique'
    <3>1. \A f \in Pending : Agree(e, f) /\ Agree(f, e)
      BY <1>e, <2>2 DEF Agree
    <3>2. Agree(e, e)
      BY <1>e DEF Agree
    <3> QED BY <1>a, <3>1, <3>2 DEF Unique, Agree
  <2> QED BY <2>3, <2>4
<1>3. Boarded'
  BY <1>t DEF Boarded, TypeOK
<1>4. Once'
  BY <1>t DEF Once
<1>5. Records'
  BY <1>t DEF Records
<1>6. Carried'
  BY <1>t DEF Carried, LiveGearHeld, Playing, TypeOK
<1> QED BY <1>1, <1>2, <1>3, <1>4, <1>5, <1>6

LEMMA CloseRunIInv ==
    ASSUME IInv, NEW r \in Runs, CloseRun(r)
    PROVE  IInv'
<1> USE DEF IInv, vars, items, world, writer, CloseRun, TearDown
<1>e. PICK e \in final[r] : held' \subseteq held \cup {[ev |-> e, step |-> "record", tried |-> FALSE]}
  BY DEF Hold
<1>h. e \in Events /\ e \in Pending
  BY DEF TypeOK, Pending
<1>w. /\ \A q \in Runs, n \in Members : seat'[q][n] = IF q = r THEN "none" ELSE seat[q][n]
      /\ \A q \in Runs : phase'[q] = IF q = r THEN "closed" ELSE phase[q]
      /\ UNCHANGED <<pod, settled>>
  BY DEF TypeOK
<1>t. held' \subseteq [ev : Events, step : {"record", "apply"}, tried : BOOLEAN]
  <2>1. [ev |-> e, step |-> "record", tried |-> FALSE] \in [ev : Events, step : {"record", "apply"}, tried : BOOLEAN]
    BY <1>h
  <2> QED BY <1>e, <2>1 DEF TypeOK
<1>r. \A g \in held' : g.step = "apply" => g.ev \in rows
  BY <1>e DEF Records
<1>1. TypeOK'
  BY <1>t DEF TypeOK, Seats
<1>a. Pending' \subseteq Pending
  <2>1. \A g \in held' : g \in held \/ g.ev = e
    BY <1>e
  <2>2. \A q \in Runs : final'[q] \subseteq final[q]
    BY DEF TypeOK
  <2> QED BY <1>h, <2>1, <2>2 DEF Pending
<1>b. ASSUME NEW f \in Pending, Sound(f) PROVE Sound(f)'
  <2>1. f.run \in Runs /\ f.key \in SUBSET Members
    BY PendingTyped, EventParts
  <2> QED BY <1>w, <1>b, <2>1 DEF Sound
<1>2. AllSound' /\ Unique'
  BY <1>a, <1>b, NoneAdded
<1>3. Boarded'
  BY DEF Boarded, TypeOK
<1>4. Once'
  BY DEF Once
<1>5. Records'
  BY <1>r DEF Records
<1>6. Carried'
  BY DEF Carried, LiveGearHeld, Playing, TypeOK
<1> QED BY <1>1, <1>2, <1>3, <1>4, <1>5, <1>6

LEMMA GoneIInv ==
    ASSUME IInv, NEW r \in Runs, Gone(r)
    PROVE  IInv'
<1> USE DEF IInv, vars, items, world, writer, Gone, TearDown
<1>w. /\ \A q \in Runs, n \in Members :
            /\ seat'[q][n] = IF q = r THEN "none" ELSE seat[q][n]
            /\ gear'[q][n] = IF q = r THEN {} ELSE gear[q][n]
            /\ used'[q][n] = IF q = r THEN {} ELSE used[q][n]
      /\ \A q \in Runs : /\ phase'[q] = IF q = r THEN "closed" ELSE phase[q]
                         /\ pod'[q] = IF q = r THEN "dead" ELSE pod[q]
                         /\ settled'[q] = IF q = r THEN {} ELSE settled[q]
      /\ \A n \in Members : where'[n] = IF where[n] = r THEN NoRun ELSE where[n]
      /\ UNCHANGED inst
  BY DEF TypeOK
<1>1. TypeOK'
  BY RunConstants DEF TypeOK, Seats
<1>a. Pending' \subseteq Pending
  BY DEF Pending, TypeOK
<1>b. ASSUME NEW e \in Pending, Sound(e) PROVE Sound(e)'
  <2>1. e.run \in Runs /\ e.key \in SUBSET Members
    BY PendingTyped, EventParts
  <2> QED BY <1>w, <1>b, <2>1 DEF Sound
<1>2. AllSound' /\ Unique'
  BY <1>a, <1>b, NoneAdded
<1>3. Boarded'
  BY DEF Boarded, TypeOK
<1>4. Once'
  BY DEF Once
<1>5. Records'
  BY DEF Records
<1>6. Carried'
  BY <1>w, RunConstants DEF Carried, LiveGearHeld, Playing
<1> QED BY <1>1, <1>2, <1>3, <1>4, <1>5, <1>6

LEMMA RecordIInv ==
    ASSUME IInv, NEW h \in held, Record(h)
    PROVE  IInv'
<1> USE DEF IInv, vars, items, world, writer, Record, Write, Step
<1>h. h.ev \in Pending /\ h.ev \in Events /\ h.step \in {"record", "apply"} /\ h.tried \in BOOLEAN
  BY DEF Pending, TypeOK
<1>t. held' \subseteq [ev : Events, step : {"record", "apply"}, tried : BOOLEAN]
  <2>1. \A x \in {"record", "apply"}, y \in BOOLEAN :
          [ev |-> h.ev, step |-> x, tried |-> y] \in [ev : Events, step : {"record", "apply"}, tried : BOOLEAN]
    BY <1>h
  <2> QED BY <2>1 DEF TypeOK
<1>1. TypeOK'
  BY <1>h, <1>t DEF TypeOK, Seats
<1>a. Pending' \subseteq Pending
  BY <1>h DEF Pending, TypeOK
<1>b. \A e \in Pending : Sound(e) => Sound(e)'
  BY DEF Sound
<1>2. AllSound' /\ Unique'
  BY <1>a, <1>b, NoneAdded
<1>3. Boarded'
  BY DEF Boarded, TypeOK
<1>4. Once'
  BY DEF Once
<1>5. Records'
  BY <1>h DEF Records
<1>6. Carried'
  BY DEF Carried, LiveGearHeld, Playing, TypeOK
<1> QED BY <1>1, <1>2, <1>3, <1>4, <1>5, <1>6

LEMMA RecordFailsIInv ==
    ASSUME IInv, NEW h \in held, RecordFails(h)
    PROVE  IInv'
<1> USE DEF IInv, vars, items, world, writer, RecordFails, Write, Step
<1>h. h.ev \in Pending /\ h.ev \in Events /\ h.step \in {"record", "apply"} /\ h.tried \in BOOLEAN
  BY DEF Pending, TypeOK
<1>t. held' \subseteq [ev : Events, step : {"record", "apply"}, tried : BOOLEAN]
  <2>1. \A x \in {"record", "apply"}, y \in BOOLEAN :
          [ev |-> h.ev, step |-> x, tried |-> y] \in [ev : Events, step : {"record", "apply"}, tried : BOOLEAN]
    BY <1>h
  <2> QED BY <2>1 DEF TypeOK
<1>f. trouble' \in Nat
  BY DEF Fails, TypeOK
<1>1. TypeOK'
  BY <1>f, <1>h, <1>t DEF TypeOK, Seats
<1>a. Pending' \subseteq Pending
  BY <1>h DEF Pending, TypeOK
<1>b. \A e \in Pending : Sound(e) => Sound(e)'
  BY DEF Sound
<1>2. AllSound' /\ Unique'
  BY <1>a, <1>b, NoneAdded
<1>3. Boarded'
  BY DEF Boarded, TypeOK
<1>4. Once'
  BY DEF Once
<1>5. Records'
  BY <1>h DEF Records
<1>6. Carried'
  BY DEF Carried, LiveGearHeld, Playing, TypeOK
<1> QED BY <1>1, <1>2, <1>3, <1>4, <1>5, <1>6

LEMMA ApplyNowIInv ==
    ASSUME IInv, NEW h \in held, ApplyNow(h)
    PROVE  IInv'
<1> USE DEF IInv, vars, items, world, writer, ApplyNow
<1>h. h.ev \in Pending /\ h.ev \in Events /\ h.step \in {"record", "apply"} /\ h.tried \in BOOLEAN
  BY DEF Pending, TypeOK
<1>t. held' \subseteq [ev : Events, step : {"record", "apply"}, tried : BOOLEAN]
  <2>1. \A x \in {"record", "apply"}, y \in BOOLEAN :
          [ev |-> h.ev, step |-> x, tried |-> y] \in [ev : Events, step : {"record", "apply"}, tried : BOOLEAN]
    BY <1>h
  <2> QED BY <2>1 DEF TypeOK
<1>r. h.ev \in rows
  BY DEF Records
<1>e. /\ inst' \in [Items -> Runs \cup {"home", "gone"}]
      /\ inbox' \subseteq Runs \X SUBSET Members
      /\ stored' \in [Runs -> [SUBSET Members -> Nat]]
      /\ Once'
      /\ inbox' \subseteq {Id(f) : f \in rows}
      /\ inbox \subseteq inbox'
      /\ \A t \in inbox', i \in Items : Owner[i] \in t[2] => inst'[i] # t[1]
      /\ \A m \in Members, q \in Runs : Playing(m, q) => \A i \in gear[q][m] : inst'[i] = q
  BY <1>r, SettleEffect
<1>i. Id(h.ev) \in inbox'
  BY DEF Settle
<1>k. told' \subseteq Runs \X SUBSET Members
  BY <1>h, EventParts DEF TypeOK
<1>1. TypeOK'
  BY <1>t, <1>e, <1>k DEF TypeOK, Seats
<1>a. Pending' \subseteq Pending
  BY <1>h DEF Pending, TypeOK
<1>b. \A e \in Pending : Sound(e) => Sound(e)'
  BY DEF Sound
<1>2. AllSound' /\ Unique'
  BY <1>a, <1>b, NoneAdded
<1>3. Boarded'
  BY DEF Boarded, TypeOK
<1>4. Once'
  BY <1>e DEF Once
<1>5. Records'
  BY <1>e, <1>i DEF Records
<1>6. Carried'
  BY <1>e DEF Carried, LiveGearHeld, Playing, TypeOK
<1> QED BY <1>1, <1>2, <1>3, <1>4, <1>5, <1>6

LEMMA ApplyFailsIInv ==
    ASSUME IInv, NEW h \in held, ApplyFails(h)
    PROVE  IInv'
<1> USE DEF IInv, vars, items, world, writer, ApplyFails, Step
<1>h. h.ev \in Pending /\ h.ev \in Events /\ h.step \in {"record", "apply"} /\ h.tried \in BOOLEAN
  BY DEF Pending, TypeOK
<1>t. held' \subseteq [ev : Events, step : {"record", "apply"}, tried : BOOLEAN]
  <2>1. \A x \in {"record", "apply"}, y \in BOOLEAN :
          [ev |-> h.ev, step |-> x, tried |-> y] \in [ev : Events, step : {"record", "apply"}, tried : BOOLEAN]
    BY <1>h
  <2> QED BY <2>1 DEF TypeOK
<1>r. h.ev \in rows
  BY DEF Records
<1>e. /\ inst' \in [Items -> Runs \cup {"home", "gone"}]
      /\ inbox' \subseteq Runs \X SUBSET Members
      /\ stored' \in [Runs -> [SUBSET Members -> Nat]]
      /\ Once'
      /\ inbox' \subseteq {Id(f) : f \in rows}
      /\ inbox \subseteq inbox'
      /\ \A t \in inbox', i \in Items : Owner[i] \in t[2] => inst'[i] # t[1]
      /\ \A m \in Members, q \in Runs : Playing(m, q) => \A i \in gear[q][m] : inst'[i] = q
  BY <1>r, SettleEffect
<1>f. trouble' \in Nat
  BY DEF Fails, TypeOK
<1>1. TypeOK'
  BY <1>f, <1>h, <1>t, <1>e DEF TypeOK, Seats
<1>a. Pending' \subseteq Pending
  BY <1>h DEF Pending, TypeOK
<1>b. \A e \in Pending : Sound(e) => Sound(e)'
  BY DEF Sound
<1>2. AllSound' /\ Unique'
  BY <1>a, <1>b, NoneAdded
<1>3. Boarded'
  BY DEF Boarded, TypeOK
<1>4. Once'
  BY <1>e DEF Once
<1>5. Records'
  BY <1>r, <1>e DEF Records
<1>6. Carried'
  BY <1>e DEF Carried, LiveGearHeld, Playing, TypeOK
<1> QED BY <1>1, <1>2, <1>3, <1>4, <1>5, <1>6

LEMMA ApplyRefusedIInv ==
    ASSUME IInv, NEW h \in held, ApplyRefused(h)
    PROVE  IInv'
<1> USE DEF IInv, vars, items, world, writer, ApplyRefused
<1>h. h.ev \in Pending /\ h.ev \in Events /\ h.step \in {"record", "apply"} /\ h.tried \in BOOLEAN
  BY DEF Pending, TypeOK
<1>t. held' \subseteq [ev : Events, step : {"record", "apply"}, tried : BOOLEAN]
  <2>1. \A x \in {"record", "apply"}, y \in BOOLEAN :
          [ev |-> h.ev, step |-> x, tried |-> y] \in [ev : Events, step : {"record", "apply"}, tried : BOOLEAN]
    BY <1>h
  <2> QED BY <2>1 DEF TypeOK
<1>f. trouble' \in Nat
  BY DEF Fails, TypeOK
<1>1. TypeOK'
  BY <1>f, <1>t DEF TypeOK, Seats
<1>a. Pending' \subseteq Pending
  BY <1>h DEF Pending, TypeOK
<1>b. \A e \in Pending : Sound(e) => Sound(e)'
  BY DEF Sound
<1>2. AllSound' /\ Unique'
  BY <1>a, <1>b, NoneAdded
<1>3. Boarded'
  BY DEF Boarded, TypeOK
<1>4. Once'
  BY DEF Once
<1>5. Records'
  BY DEF Records
<1>6. Carried'
  BY DEF Carried, LiveGearHeld, Playing, TypeOK
<1> QED BY <1>1, <1>2, <1>3, <1>4, <1>5, <1>6

LEMMA GiveUpIInv ==
    ASSUME IInv, NEW h \in held, GiveUp(h)
    PROVE  IInv'
<1> USE DEF IInv, vars, items, world, writer, GiveUp
<1>h. h.ev \in Pending /\ h.ev \in Events /\ h.step \in {"record", "apply"} /\ h.tried \in BOOLEAN
  BY DEF Pending, TypeOK
<1>t. held' \subseteq [ev : Events, step : {"record", "apply"}, tried : BOOLEAN]
  <2>1. \A x \in {"record", "apply"}, y \in BOOLEAN :
          [ev |-> h.ev, step |-> x, tried |-> y] \in [ev : Events, step : {"record", "apply"}, tried : BOOLEAN]
    BY <1>h
  <2> QED BY <2>1 DEF TypeOK
<1>1. TypeOK'
  BY <1>t DEF TypeOK, Seats
<1>a. Pending' \subseteq Pending
  BY <1>h DEF Pending, TypeOK
<1>b. \A e \in Pending : Sound(e) => Sound(e)'
  BY DEF Sound
<1>2. AllSound' /\ Unique'
  BY <1>a, <1>b, NoneAdded
<1>3. Boarded'
  BY DEF Boarded, TypeOK
<1>4. Once'
  BY DEF Once
<1>5. Records'
  BY DEF Records
<1>6. Carried'
  BY DEF Carried, LiveGearHeld, Playing, TypeOK
<1> QED BY <1>1, <1>2, <1>3, <1>4, <1>5, <1>6

LEMMA ItemsExtractedIInv ==
    ASSUME IInv, NEW x \in rows, ItemsExtracted(x)
    PROVE  IInv'
<1> USE DEF IInv, vars, items, world, writer, ItemsExtracted
<1>e. /\ inst' \in [Items -> Runs \cup {"home", "gone"}]
      /\ inbox' \subseteq Runs \X SUBSET Members
      /\ stored' \in [Runs -> [SUBSET Members -> Nat]]
      /\ Once'
      /\ inbox' \subseteq {Id(f) : f \in rows}
      /\ inbox \subseteq inbox'
      /\ \A t \in inbox', i \in Items : Owner[i] \in t[2] => inst'[i] # t[1]
      /\ \A m \in Members, q \in Runs : Playing(m, q) => \A i \in gear[q][m] : inst'[i] = q
  BY SettleEffect
<1>1. TypeOK'
  BY <1>e DEF TypeOK, Seats
<1>a. Pending' \subseteq Pending
  BY DEF Pending, TypeOK
<1>b. \A e \in Pending : Sound(e) => Sound(e)'
  BY DEF Sound
<1>2. AllSound' /\ Unique'
  BY <1>a, <1>b, NoneAdded
<1>3. Boarded'
  BY DEF Boarded, TypeOK
<1>4. Once'
  BY <1>e DEF Once
<1>5. Records'
  BY <1>e DEF Records
<1>6. Carried'
  BY <1>e DEF Carried, LiveGearHeld, Playing, TypeOK
<1> QED BY <1>1, <1>2, <1>3, <1>4, <1>5, <1>6

LEMMA StutterIInv ==
    ASSUME IInv, UNCHANGED vars
    PROVE  IInv'
<1> USE DEF IInv, vars, items, world, writer
<1>1. TypeOK'
  BY DEF TypeOK, Seats
<1>a. Pending' \subseteq Pending
  BY DEF Pending, TypeOK
<1>b. \A e \in Pending : Sound(e) => Sound(e)'
  BY PendingTyped DEF Sound, TypeOK
<1>2. AllSound' /\ Unique'
  BY <1>a, <1>b, NoneAdded
<1>3. Boarded'
  BY DEF Boarded, TypeOK
<1>4. Once'
  BY DEF Once
<1>5. Records'
  BY DEF Records
<1>6. Carried'
  BY DEF Carried, LiveGearHeld, Playing, TypeOK
<1> QED BY <1>1, <1>2, <1>3, <1>4, <1>5, <1>6

LEMMA NextIInv == IInv /\ [Next]_vars => IInv'
BY SeatArrivalIInv, SeatBareIInv, RefuseHandoffIInv, ReleaseUnclaimedSeatsIInv,
   DrinkPotionIInv, DepartIInv, EndRuleIInv, ReturnToHubIInv,
   EndLifetimeIInv, DrainIInv, ResolveIInv, TakeOverIInv,
   CloseRunIInv, GoneIInv, RecordIInv, RecordFailsIInv,
   ApplyNowIInv, ApplyFailsIInv, ApplyRefusedIInv, GiveUpIInv,
   ItemsExtractedIInv, StutterIInv
DEF Next, Host, Member, Writer, Stop, Crash

---------------------------------------------------------------------------
(* The theorems.                                                           *)

THEOREM Invariance == Spec => []IInv
<1>1. Init => IInv
  BY InitIInv
<1>2. IInv /\ [Next]_vars => IInv'
  BY NextIInv
<1> QED BY <1>1, <1>2, PTL DEF Spec

(* Whatever is retried, delivered again or late, no settlement stores what
   its run found twice. *)
THEOREM FindsOnceCorrect == Spec => []FindsOnce
<1>1. IInv => FindsOnce
  <2>1. ASSUME IInv, NEW r \in Runs, NEW k \in SUBSET Members PROVE stored[r][k] \in {0, 1}
    BY <2>1 DEF IInv, Once
  <2> QED BY <2>1 DEF FindsOnce
<1> QED BY <1>1, Invariance, PTL

(* What items-service applied is recorded in the outbox, and a member told
   that their settlement is confirmed has nothing left in that run. *)
THEOREM AppliedWasRecordedCorrect == Spec => []AppliedWasRecorded
<1>1. IInv => AppliedWasRecorded
  BY DEF IInv, Records, AppliedWasRecorded
<1> QED BY <1>1, Invariance, PTL

(* A member in play keeps the gear they brought, whichever settlement lands
   meanwhile. *)
THEOREM LiveGearHeldCorrect == Spec => []LiveGearHeld
<1>1. IInv => LiveGearHeld
  BY DEF IInv, Carried
<1> QED BY <1>1, Invariance, PTL

LEMMA SettleSpares ==
    ASSUME IInv, "taken" \notin Boarding, NEW f \in rows, Settle(f) \/ UNCHANGED items,
           NEW i \in Items, NEW r \in Runs, inst[i] = r, inst'[i] = "home",
           NEW e \in Pending, e.run = r
    PROVE  i \notin e.used
<1> USE DEF IInv
<1>1. inst' = After(f)
  BY RunConstants DEF Settle, items, TypeOK
<1>2. f.run = r /\ i \notin f.used /\ Covers(f, Owner[i])
  BY <1>1, RunConstants DEF After
<1>3. /\ Sound(e) /\ Sound(f) /\ Agree(e, f) /\ Agree(f, e)
      /\ e \in Events /\ f \in Events
  BY PendingTyped DEF AllSound, Unique, Pending
<1> SUFFICES ASSUME i \in e.used PROVE FALSE
  OBVIOUS
<1>4. Owner[i] \in e.key
  BY <1>3 DEF Sound
<1>5. CASE f.partial
  <2>1. f.key = {Owner[i]}
    BY <1>2, <1>3, <1>5 DEF Sound, Covers
  <2>2. CASE e.partial
    BY <1>2, <1>3, <1>4, <1>5, <2>1, <2>2 DEF Sound, Agree
  <2>3. CASE ~e.partial
    BY <1>2, <1>3, <1>4, <1>5, <2>1, <2>3 DEF Sound, Agree
  <2> QED BY <2>2, <2>3
<1>6. CASE ~f.partial
  <2>1. Owner[i] \notin f.named
    BY <1>2, <1>6 DEF Covers
  <2>2. ~e.partial
    BY <1>2, <1>3, <1>4, <1>6, <2>1 DEF Agree
  <2>3. e = f
    BY <1>2, <1>3, <1>6, <2>2 DEF Agree
  <2> QED BY <1>2, <2>3
<1> QED BY <1>5, <1>6

LEMMA StepSpares ==
    ASSUME IInv, "taken" \notin Boarding, [Next]_vars,
           NEW i \in Items, NEW r \in Runs, inst[i] = r, inst'[i] = "home"
    PROVE  ~\E e \in Pending : e.run = r /\ i \in e.used
<1> USE DEF IInv
<1> DEFINE Settles == \E f \in rows : Settle(f) \/ UNCHANGED items
<1>0. "home" \notin Runs
  BY RunConstants
<1>1. ASSUME NEW m \in Members, NEW q \in Runs, SeatArrival(m, q) \/ SeatBare(m, q) \/ RefuseHandoff(m, q)
      PROVE  FALSE
  BY <1>0, <1>1 DEF SeatArrival, SeatBare, RefuseHandoff, CheckOut
<1>2. CASE UNCHANGED inst
  BY <1>0, <1>2
<1>3. ASSUME NEW h \in held, ApplyNow(h) \/ ApplyFails(h) PROVE Settles
  BY <1>3 DEF ApplyNow, ApplyFails, Records
<1>4. ASSUME NEW f \in rows, ItemsExtracted(f) PROVE Settles
  BY <1>4 DEF ItemsExtracted
<1>5. CASE Settles
  BY <1>5, SettleSpares
<1>6. ASSUME NEW m \in Members, NEW q \in Runs,
             (\E j \in Items : DrinkPotion(m, q, j)) \/ Resolve(m, q) \/ Depart(m, q) \/ ReturnToHub(m, q)
      PROVE  UNCHANGED inst
  BY <1>6 DEF DrinkPotion, Resolve, Depart, ReturnToHub, items
<1>7. ASSUME NEW q \in Runs, Host(q) PROVE UNCHANGED inst
  BY <1>7 DEF Host, ReleaseUnclaimedSeats, EndRule, TakeOver, CloseRun, EndLifetime, Drain, Stop, Crash, Gone, items
<1>8. ASSUME NEW h \in held, Record(h) \/ RecordFails(h) \/ ApplyRefused(h) \/ GiveUp(h) PROVE UNCHANGED inst
  BY <1>8 DEF Record, RecordFails, ApplyRefused, GiveUp, items
<1>9. CASE UNCHANGED vars
  BY <1>2, <1>9 DEF vars, items
<1> QED BY <1>1, <1>2, <1>3, <1>4, <1>5, <1>6, <1>7, <1>8, <1>9 DEF Next, Member, Writer

(* The run's state keeps its types, for any members, runs and items. *)
THEOREM TypeCorrect == Spec => []TypeOK
<1>1. IInv => TypeOK
  BY DEF IInv
<1> QED BY <1>1, Invariance, PTL

(* Where no arrival is seated once the end has taken the run over, what a
   settlement says was used up never comes home from its run. *)
THEOREM UsedUpStaysGoneCorrect == "taken" \notin Boarding => (Spec => UsedUpStaysGone)
<1> SUFFICES ASSUME "taken" \notin Boarding PROVE Spec => UsedUpStaysGone
  OBVIOUS
<1>1. ASSUME IInv, [Next]_vars
      PROVE  [\A i \in Items, r \in Runs :
                inst[i] = r /\ inst'[i] = "home" => ~\E e \in Pending : e.run = r /\ i \in e.used]_vars
  BY <1>1, StepSpares
<1> QED BY <1>1, Invariance, PTL DEF Spec, UsedUpStaysGone
=============================================================================
