-------------------------- MODULE MatchQueueProofs --------------------------
(***************************************************************************)
(* Proofs about module MatchQueue, for any players, pods, group size and   *)
(* number of failures: the list and the entries agree (ListAgrees), nobody *)
(* is in two runs (OneRunEach), waiting is fair (KeepsPlace), and whoever  *)
(* is stranded in a party is owed their release (StrandedAreOwed).         *)
(*                                                                         *)
(* The argument: every script takes a stretch out of the list or puts a    *)
(* player behind it (Cut), and a pop always finds a number for its group   *)
(* (Counted).  Held ties a party known to be made to the run that opens    *)
(* for it; nobody is taken out of the party meanwhile (Owed), and nobody   *)
(* is in it without being in the run or owed the removal (Bound).          *)
(***************************************************************************)
EXTENDS MatchQueue, FiniteSetTheorems, SequenceTheorems, WellFoundedInduction, TLAPS

\* the groups popped so far, and what each has cost in find_games
Used == {m \in Matches : match[m].state # "none"}

Counted == joins =< MaxJoins /\ Len(queue) + MatchSize * Cardinality(Used) =< joins

(* Of each match: *)

\* a number not yet used knows nobody; a group popped has a host
Fresh(m) == IF match[m].state = "none" THEN match[m] = NoMatch ELSE match[m].host \in Pods

\* the host's own players are not those handed over
Sides(m) == match[m].local \cap Remote(m) = {}

\* what the host knows of the party by when
Answers(m) ==
    /\ match[m].state \in {"none", "popped", "forming"} => match[m].answer = "none"
    /\ match[m].state = "formed" => match[m].answer # "none"
    /\ Open(m) => match[m].answer \in {"made", "unknown"}

\* nobody is taken out of a party whose run holds them, or may come to
Owed(m) ==
    /\ match[m].state \in {"none", "popped", "forming", "formed"} => leaving[m] = {}
    /\ Open(m) => \A p \in leaving[m] : seat[m][p] = "none"

\* a party known to be made has everyone the run holds, or will hold when it opens
Held(m) ==
    match[m].answer = "made" =>
        /\ match[m].state = "formed" => \A p \in Joiners(m) : party[p] = m
        /\ Open(m) => \A p \in Players : seat[m][p] # "none" => party[p] = m

\* a member of the match's party was matched with it, and its run holds them or its host owes
\* them their release
Bound(m) ==
    \A p \in Players : party[p] = m =>
        /\ match[m].state \notin {"none", "popped", "forming"}
        /\ match[m].state = "formed" => match[m].answer # "taken" /\ p \in Joiners(m)
        /\ match[m].state \in {"open", "over"} /\ match[m].host \in up =>
              p \in leaving[m] \/ InRun(p, m)

MatchOK(m) == Fresh(m) /\ Sides(m) /\ Answers(m) /\ Owed(m) /\ Held(m) /\ Bound(m)

IInv == TypeOK /\ ListAgrees /\ Counted /\ \A m \in Matches : MatchOK(m)

---------------------------------------------------------------------------
(* The queue as a list: every script takes out a stretch of it, or puts a
   player behind it. *)

\* t is s without the n players from place k on
Cut(t, s, k, n) ==
    /\ t \in Seq(Players)
    /\ n \in Nat /\ k \in 1 .. Len(s) + 1 - n
    /\ Len(t) = Len(s) - n
    /\ \A i \in 1 .. Len(t) : t[i] = IF i < k THEN s[i] ELSE s[i + n]

Distinct(s) == \A i, j \in DOMAIN s : s[i] = s[j] => i = j

\* who is in order in t is in that order in s
InOrder(t, s) ==
    \A i, j \in DOMAIN t : i < j => \E k, l \in DOMAIN s : k < l /\ s[k] = t[i] /\ s[l] = t[j]

(* What a cut leaves keeps its order, and nobody is in it twice. *)
LEMMA CutOrder ==
    ASSUME NEW s \in Seq(Players), NEW t, NEW k, NEW n, Cut(t, s, k, n)
    PROVE  /\ InOrder(t, s)
           /\ Distinct(s) => Distinct(t)
<1> DEFINE from(i) == IF i < k THEN i ELSE i + n
<1>1. DOMAIN s = 1 .. Len(s) /\ DOMAIN t = 1 .. Len(t) /\ Len(s) \in Nat /\ Len(t) \in Nat
  BY DEF Cut
<1>2. \A i \in DOMAIN t : from(i) \in DOMAIN s /\ t[i] = s[from(i)]
  BY <1>1 DEF Cut
<1>3. \A i, j \in DOMAIN t : i < j => from(i) < from(j)
  BY <1>1 DEF Cut
<1> HIDE DEF from
<1>4. InOrder(t, s)
  BY <1>2, <1>3 DEF InOrder
<1>5. ASSUME Distinct(s), NEW i \in DOMAIN t, NEW j \in DOMAIN t, t[i] = t[j]
      PROVE  i = j
  <2>1. from(i) = from(j)
    BY <1>2, <1>5 DEF Distinct
  <2>2. from(i) \in Nat /\ i \in Nat /\ j \in Nat
    BY <1>1, <1>2
  <2> QED BY <1>3, <2>1, <2>2
<1> QED BY <1>4, <1>5 DEF Distinct

(* Of a list without repetition a cut leaves exactly those not in the
   stretch taken out. *)
LEMMA CutLeaves ==
    ASSUME NEW s \in Seq(Players), NEW t, NEW k, NEW n, Cut(t, s, k, n), Distinct(s), NEW p
    PROVE  Contains(t, p) <=> Contains(s, p) /\ \A i \in k .. k + n - 1 : s[i] # p
<1>1. DOMAIN s = 1 .. Len(s) /\ DOMAIN t = 1 .. Len(t) /\ Len(s) \in Nat /\ Len(t) \in Nat
  BY DEF Cut
<1>2. ASSUME Contains(t, p)
      PROVE  Contains(s, p) /\ \A i \in k .. k + n - 1 : s[i] # p
  <2>1. PICK i \in 1 .. Len(t) : t[i] = p
    BY <1>2 DEF Contains
  <2> DEFINE j == IF i < k THEN i ELSE i + n
  <2>2. j \in 1 .. Len(s) /\ s[j] = p /\ j \notin k .. k + n - 1
    BY <1>1, <2>1 DEF Cut
  <2>3. \A o \in k .. k + n - 1 : o \in 1 .. Len(s)
    BY <1>1 DEF Cut
  <2> QED BY <1>1, <2>2, <2>3 DEF Contains, Distinct
<1>3. ASSUME Contains(s, p), \A i \in k .. k + n - 1 : s[i] # p
      PROVE  Contains(t, p)
  <2>1. PICK j \in 1 .. Len(s) : s[j] = p
    BY <1>3 DEF Contains
  <2> DEFINE i == IF j < k THEN j ELSE j - n
  <2>2. j \notin k .. k + n - 1
    BY <1>3, <2>1
  <2>3. i \in 1 .. Len(t) /\ t[i] = s[j]
    BY <1>1, <2>2 DEF Cut
  <2> QED BY <2>1, <2>3 DEF Contains
<1> QED BY <1>2, <1>3

(* A group's worth off the front. *)
LEMMA FrontCut ==
    ASSUME NEW s \in Seq(Players), NEW n \in Nat, n =< Len(s)
    PROVE  /\ Cut(SubSeq(s, n + 1, Len(s)), s, 1, n)
           /\ SubSeq(s, 1, n) \in Seq(Players) /\ Len(SubSeq(s, 1, n)) = n
           /\ \A i \in 1 .. n : SubSeq(s, 1, n)[i] = s[i]
BY DEF Cut

(* One of the group dropped, the rest put back in front. *)
LEMMA SurvivorsCut ==
    ASSUME NEW s \in Seq(Players), NEW n \in Nat, n =< Len(s), NEW k \in 1 .. n
    PROVE  Cut(Survivors(SubSeq(s, 1, n), k, SubSeq(s, n + 1, Len(s))), s, k, 1)
<1> DEFINE group == SubSeq(s, 1, n)
           rest == SubSeq(s, n + 1, Len(s))
           a == SubSeq(group, 1, k - 1)
           b == SubSeq(group, k + 1, n)
<1>1. group \in Seq(Players) /\ Len(group) = n /\ \A i \in 1 .. n : group[i] = s[i]
  BY FrontCut
<1>2. rest \in Seq(Players) /\ Len(rest) = Len(s) - n /\ \A i \in 1 .. Len(s) - n : rest[i] = s[i + n]
  BY FrontCut DEF Cut
<1>3. a \in Seq(Players) /\ Len(a) = k - 1 /\ \A i \in 1 .. k - 1 : a[i] = s[i]
  <2> HIDE DEF group
  <2> QED BY <1>1
<1>4. b \in Seq(Players) /\ Len(b) = n - k /\ \A i \in 1 .. n - k : b[i] = s[i + k]
  <2> HIDE DEF group
  <2> QED BY <1>1
<1>5. Survivors(group, k, rest) = (a \o b) \o rest
  <2> HIDE DEF group, rest
  <2> QED BY <1>1 DEF Survivors, RemoveAt
<1> HIDE DEF group, rest, a, b
<1>6. /\ a \o b \in Seq(Players) /\ Len(a \o b) = n - 1
      /\ \A i \in 1 .. n - 1 : (a \o b)[i] = IF i < k THEN s[i] ELSE s[i + 1]
  <2>1. /\ a \o b \in Seq(Players) /\ Len(a \o b) = Len(a) + Len(b)
        /\ \A i \in 1 .. Len(a) + Len(b) : (a \o b)[i] = IF i =< Len(a) THEN a[i] ELSE b[i - Len(a)]
    BY <1>3, <1>4, ConcatProperties
  <2>2. \A i \in 1 .. n - 1 : (a \o b)[i] = IF i =< k - 1 THEN a[i] ELSE b[i - (k - 1)]
    BY <1>3, <1>4, <2>1
  <2>3. \A i \in 1 .. n - 1 : i >= k => i - (k - 1) \in 1 .. n - k /\ (i - (k - 1)) + k = i + 1
    OBVIOUS
  <2> QED BY <1>3, <1>4, <2>1, <2>2, <2>3
<1> DEFINE ab == a \o b
<1> HIDE DEF ab
<1>7. /\ ab \o rest \in Seq(Players) /\ Len(ab \o rest) = Len(s) - 1
      /\ \A i \in 1 .. Len(s) - 1 : (ab \o rest)[i] = IF i < k THEN s[i] ELSE s[i + 1]
  <2>1. ab \in Seq(Players) /\ Len(ab) = n - 1
    BY <1>6 DEF ab
  <2>2. /\ ab \o rest \in Seq(Players) /\ Len(ab \o rest) = Len(ab) + Len(rest)
        /\ \A i \in 1 .. Len(ab) + Len(rest) :
              (ab \o rest)[i] = IF i =< Len(ab) THEN ab[i] ELSE rest[i - Len(ab)]
    BY <1>2, <2>1, ConcatProperties
  <2>3. \A i \in 1 .. Len(s) - 1 : (ab \o rest)[i] = IF i =< n - 1 THEN ab[i] ELSE rest[i - (n - 1)]
    BY <1>2, <2>1, <2>2
  <2>4. \A i \in 1 .. Len(s) - 1 : i > n - 1 =>
            i - (n - 1) \in 1 .. Len(s) - n /\ (i - (n - 1)) + n = i + 1
    OBVIOUS
  <2> QED BY <1>2, <1>6, <2>1, <2>2, <2>3, <2>4 DEF ab
<1>8. Cut(ab \o rest, s, k, 1)
  BY <1>7 DEF Cut
<1> QED BY <1>5, <1>8 DEF ab, group, rest


LEMMA Places ==
    ASSUME NEW n \in Nat
    PROVE  /\ Cardinality(1 .. n) = n
           /\ \A k \in 1 .. n : Cardinality((1 .. n) \ {k}) = n - 1
<1>1. IsFiniteSet(1 .. n) /\ Cardinality(1 .. n) = n
  BY FS_Interval
<1>2. ASSUME NEW k \in 1 .. n PROVE Cardinality((1 .. n) \ {k}) = n - 1
  BY <1>1, FS_RemoveElement
<1> QED BY <1>1, <1>2

(* A player taken out wherever they stand: one place, or nothing. *)
LEMMA WithoutCut ==
    ASSUME NEW s \in Seq(Players), Distinct(s), NEW p
    PROVE  /\ ~Contains(s, p) => Without(s, p) = s
           /\ Contains(s, p) =>
                 \E k \in 1 .. Len(s) : s[k] = p /\ Cut(Without(s, p), s, k, 1)
<1> DEFINE kept == {i \in DOMAIN s : s[i] # p}
           nth(j) == CHOOSE i \in kept : Cardinality({o \in kept : o < i}) = j - 1
<1>1. DOMAIN s = 1 .. Len(s) /\ Len(s) \in Nat
  OBVIOUS
<1>2. Without(s, p) = [j \in 1 .. Cardinality(kept) |-> s[nth(j)]]
  BY DEF Without
<1>3. ASSUME ~Contains(s, p)
      PROVE  Without(s, p) = s
  <2>1. kept = 1 .. Len(s)
    BY <1>1, <1>3 DEF Contains
  <2>2. Cardinality(kept) = Len(s)
    BY <1>1, <2>1, Places
  <2>3. ASSUME NEW i \in kept
        PROVE  Cardinality({o \in kept : o < i}) = i - 1
    <3>1. {o \in kept : o < i} = 1 .. i - 1
      BY <1>1, <2>1
    <3>2. i - 1 \in Nat
      BY <1>1, <2>1
    <3> HIDE DEF kept
    <3> QED BY <3>1, <3>2, Places
  <2>4. \A j \in 1 .. Len(s) : nth(j) = j
    BY <1>1, <2>1, <2>3
  <2> HIDE DEF nth, kept
  <2>5. Without(s, p) = [j \in 1 .. Len(s) |-> s[j]]
    BY <1>2, <2>2, <2>4
  <2> QED BY <2>5
<1>4. ASSUME Contains(s, p)
      PROVE  \E k \in 1 .. Len(s) : s[k] = p /\ Cut(Without(s, p), s, k, 1)
  <2>1. PICK k \in 1 .. Len(s) : s[k] = p
    BY <1>4 DEF Contains
  <2>2. kept = (1 .. Len(s)) \ {k}
    BY <1>1, <2>1 DEF Distinct
  <2>3. Cardinality(kept) = Len(s) - 1
    BY <1>1, <2>2, Places
  <2> DEFINE rank(i) == IF i < k THEN i ELSE i - 1
  <2>4. ASSUME NEW i \in kept
        PROVE  Cardinality({o \in kept : o < i}) = rank(i) - 1
    <3>1. CASE i < k
      <4>1. {o \in kept : o < i} = 1 .. i - 1
        BY <1>1, <2>2, <3>1
      <4>2. i - 1 \in Nat
        BY <1>1, <2>2
      <4> HIDE DEF kept
      <4> QED BY <3>1, <4>1, <4>2, Places
    <3>2. CASE i > k
      <4>1. {o \in kept : o < i} = (1 .. i - 1) \ {k} /\ k \in 1 .. i - 1
        BY <1>1, <2>2, <3>2
      <4>2. i - 1 \in Nat /\ i \in Nat /\ ~(i < k)
        BY <1>1, <2>2, <3>2
      <4>3. Cardinality((1 .. i - 1) \ {k}) = (i - 1) - 1
        BY <4>1, <4>2, Places
      <4> HIDE DEF kept
      <4> QED BY <4>1, <4>2, <4>3
    <3> QED BY <1>1, <2>2, <3>1, <3>2
  <2> DEFINE from(j) == IF j < k THEN j ELSE j + 1
  <2>5. ASSUME NEW j \in 1 .. Len(s) - 1
        PROVE  nth(j) = from(j)
    <3>1. from(j) \in kept /\ rank(from(j)) = j
      BY <1>1, <2>2
    <3>2. \A i \in kept : rank(i) = j => i = from(j)
      BY <1>1, <2>2
    <3>3. \A i \in kept : rank(i) \in Nat
      BY <1>1, <2>2
    <3> HIDE DEF rank, from, kept
    <3>4. \A i \in kept : Cardinality({o \in kept : o < i}) = j - 1 <=> i = from(j)
      BY <2>4, <3>1, <3>2, <3>3
    <3> QED BY <3>1, <3>4
  <2> HIDE DEF nth, kept
  <2>6. Without(s, p) = [j \in 1 .. Len(s) - 1 |-> s[from(j)]]
    BY <1>2, <2>3, <2>5
  <2>7. \A j \in 1 .. Len(s) - 1 : from(j) \in 1 .. Len(s)
    BY <1>1
  <2>8. Without(s, p) \in Seq(Players) /\ Len(Without(s, p)) = Len(s) - 1
    BY <1>1, <2>1, <2>6, <2>7
  <2>9. Cut(Without(s, p), s, k, 1)
    BY <1>1, <2>6, <2>8 DEF Cut
  <2> QED BY <2>1, <2>9
<1> QED BY <1>3, <1>4

(* The first of some places. *)
LEMMA FirstPlace ==
    ASSUME NEW I, I \subseteq Nat, I # {}
    PROVE  Min(I) \in I
<1>1. IsWellFoundedOn(OpToRel(<, Nat), Nat)
  BY NatLessThanWellFounded
<1>2. PICK x \in I : \A y \in I : ~(<<y, x>> \in OpToRel(<, Nat))
  BY <1>1, WFMin
<1>3. \A y, z \in Nat : <<y, z>> \in OpToRel(<, Nat) <=> y < z
  BY DEF OpToRel
<1>4. \A y \in I : x =< y
  <2>1. SUFFICES ASSUME NEW y \in I PROVE x =< y
    OBVIOUS
  <2>2. x \in Nat /\ y \in Nat
    OBVIOUS
  <2>3. ~(y < x)
    BY <1>2, <1>3, <2>2, Zenon
  <2> QED BY <2>2, <2>3
<1> QED BY <1>4 DEF Min

---------------------------------------------------------------------------
(* How a step disturbs the invariant. *)

MatchRecs ==
    [state : MatchStates, by : Pods \cup {None}, host : Pods \cup {None},
     pod : [Players -> Pods \cup {None}], local : SUBSET Players,
     answer : {"none", "made", "taken", "unknown"}, released : BOOLEAN]

LEMMA OverFacts ==
    ASSUME TypeOK, NEW m \in Matches
    PROVE  /\ Over(m) \in MatchRecs
           /\ Over(m).state = "over" /\ Over(m).local = {} /\ Over(m).pod = [p \in Players |-> None]
           /\ Over(m).answer = match[m].answer /\ Over(m).host = match[m].host
BY DEF TypeOK, Over, NoMatch, MatchRecs, MatchStates

(* A match that goes on keeps its type. *)
LEMMA RecordKept ==
    ASSUME NEW r \in MatchRecs, NEW st \in MatchStates, NEW ps \in SUBSET Players
    PROVE  /\ [r EXCEPT !.state = st, !.by = None, !.local = ps] \in MatchRecs
           /\ [r EXCEPT !.state = st, !.local = ps] \in MatchRecs
           /\ \A a \in {"made", "taken", "unknown"} :
                 [r EXCEPT !.state = st, !.answer = a] \in MatchRecs
           /\ [r EXCEPT !.released = TRUE] \in MatchRecs
BY DEF MatchRecs

LEMMA MatchTyped ==
    ASSUME TypeOK, NEW m \in Matches, NEW it \in MatchRecs, Becomes(m, it)
    PROVE  /\ match' \in [Matches -> MatchRecs] /\ match'[m] = it
           /\ \A n \in Matches \ {m} : match'[n] = match[n]
BY DEF TypeOK, Becomes, MatchRecs

(* A match nothing happens to keeps its invariant while nobody joins or
   leaves its party. *)
LEMMA OtherMatch ==
    ASSUME NEW n \in Matches, MatchOK(n),
           match'[n] = match[n], seat'[n] = seat[n], leaving'[n] = leaving[n],
           \A p \in Players : party[p] = n <=> party'[p] = n,
           up' \subseteq up, match[n].local \subseteq Players
    PROVE  MatchOK(n)'
<1> USE DEF MatchOK, Open
<1>1. Fresh(n)' /\ Answers(n)' /\ Owed(n)'
  BY DEF Fresh, Answers, Owed, NoMatch
<1>2. Remote(n)' = Remote(n) /\ Joiners(n)' = Joiners(n) /\ Joiners(n) \subseteq Players
  BY DEF Remote, Joiners, Group
<1>3. Sides(n)'
  BY <1>2 DEF Sides
<1>4. Held(n)'
  BY <1>2 DEF Held
<1>5. \A p \in Players : InRun(p, n)' <=> InRun(p, n)
  BY DEF InRun, Seated, Expected
<1>6. Bound(n)'
  BY <1>2, <1>5 DEF Bound
<1> QED BY <1>1, <1>3, <1>4, <1>6

(* A match that is over owes its party's members their release, unless its
   host went with it. *)
LEMMA OverOK ==
    ASSUME TypeOK, NEW m \in Matches, MatchOK(m), match[m].state # "none", match'[m] = Over(m),
           \A p \in Players : party'[p] = m /\ match[m].host \in up' => p \in leaving'[m],
           \A p \in Players : party'[p] = m => match[m].state \notin {"popped", "forming"}
    PROVE  MatchOK(m)'
<1>1. Fresh(m)' /\ Sides(m)' /\ Answers(m)' /\ Owed(m)' /\ Held(m)'
  BY OverFacts DEF MatchOK, Fresh, Sides, Answers, Owed, Held, Open
<1>2. Bound(m)'
  BY OverFacts DEF Bound
<1> QED BY <1>1, <1>2 DEF MatchOK

LEMMA QuietStep ==
    ASSUME IInv, TypeOK', UNCHANGED <<queue, entry, joins, match, seat, leaving, party>>,
           up' \subseteq up
    PROVE  IInv'
<1>1. ListAgrees'
  BY DEF IInv, ListAgrees, Listed
<1>2. Counted'
  BY DEF IInv, Counted, Used
<1>3. ASSUME NEW n \in Matches PROVE MatchOK(n)'
  BY OtherMatch DEF IInv, TypeOK
<1> QED BY <1>1, <1>2, <1>3 DEF IInv

LEMMA MatchStep ==
    ASSUME IInv, TypeOK', NEW m \in Matches, UNCHANGED <<queue, entry, joins>>, up' \subseteq up,
           match[m].state # "none", match'[m].state # "none", MatchOK(m)',
           \A n \in Matches \ {m} :
               /\ match'[n] = match[n] /\ seat'[n] = seat[n] /\ leaving'[n] = leaving[n]
               /\ \A p \in Players : party[p] = n <=> party'[p] = n
    PROVE  IInv'
<1>1. ListAgrees'
  BY DEF IInv, ListAgrees, Listed
<1>2. Counted'
  <2>1. Used' = Used
    BY DEF Used
  <2> QED BY <2>1 DEF IInv, Counted
<1>3. ASSUME NEW n \in Matches \ {m} PROVE MatchOK(n)'
  BY OtherMatch DEF IInv, TypeOK
<1> QED BY <1>1, <1>2, <1>3 DEF IInv

(* A queue script touches no match. *)
LEMMA ListStep ==
    ASSUME IInv, TypeOK', ListAgrees', UNCHANGED <<match, seat, leaving, party, up>>,
           \/ joins' = joins /\ Len(queue') =< Len(queue)
           \/ joins' = joins + 1 /\ joins < MaxJoins /\ Len(queue') =< Len(queue) + 1
    PROVE  IInv'
<1>1. Counted'
  <2>1. Used' = Used
    BY DEF Used
  <2>2. IsFiniteSet(Used)
    BY MatchQueueConstants, FS_Subset DEF Used
  <2> DEFINE cost == MatchSize * Cardinality(Used)
  <2>3. cost \in Nat /\ cost' = cost
    BY <2>1, <2>2, FS_CardinalityType, MatchQueueConstants
  <2>4. Len(queue) \in Nat /\ Len(queue') \in Nat /\ joins \in Nat /\ MaxJoins \in Nat
    BY MatchQueueConstants, FS_CardinalityType DEF IInv, TypeOK
  <2> HIDE DEF cost
  <2>5. joins =< MaxJoins /\ Len(queue) + cost =< joins
    BY DEF IInv, Counted, cost
  <2>6. joins' =< MaxJoins /\ Len(queue') + cost' =< joins'
    BY <2>3, <2>4, <2>5
  <2> QED BY <2>6 DEF Counted, cost
<1>2. ASSUME NEW n \in Matches PROVE MatchOK(n)'
  BY OtherMatch DEF IInv, TypeOK
<1> QED BY <1>1, <1>2 DEF IInv

---------------------------------------------------------------------------
(* The invariant holds at the start. *)

LEMMA InitIInv == Init => IInv
<1> SUFFICES ASSUME Init PROVE IInv
  OBVIOUS
<1>1. TypeOK
  BY MatchQueueConstants DEF Init, TypeOK, NoMatch, MatchStates, SeatStates
<1>2. ListAgrees
  BY DEF Init, ListAgrees, Listed, Contains
<1>3. Counted
  <2>1. Used = {}
    BY DEF Init, Used, NoMatch
  <2>2. Cardinality(Used) = 0
    BY <2>1, FS_EmptySet
  <2>3. MatchSize * 0 = 0 /\ 0 =< MaxJoins
    BY MatchQueueConstants, FS_CardinalityType
  <2> QED BY <2>2, <2>3 DEF Init, Counted
<1>4. ASSUME NEW m \in Matches PROVE MatchOK(m)
  BY MatchQueueConstants
     DEF Init, MatchOK, Fresh, Sides, Answers, Owed, Held, Bound, Open, Remote, NoMatch
<1> QED BY <1>1, <1>2, <1>3, <1>4 DEF IInv

---------------------------------------------------------------------------
(* The queue scripts. *)

\* what a step may do to a waiting player
Fair ==
    /\ \A i, j \in DOMAIN queue' : i < j /\ Listed(queue'[j]) =>
          \E k, l \in DOMAIN queue : k < l /\ queue[k] = queue'[i] /\ queue[l] = queue'[j]
    /\ \A p \in Players : Listed(p) /\ ~Listed(p)' =>
          \/ \E m \in Matches : p \in Group(m)' \ Group(m)
          \/ \E d \in Pods : p \in dequeues[d]
          \/ entry[p] \notin beat

LEMMA QueueKept ==
    ASSUME queue' = queue
    PROVE  Fair
BY DEF Fair, Listed, Contains

LEMMA CutFair ==
    ASSUME TypeOK, NEW k, NEW n, Cut(queue', queue, k, n),
           \A p \in Players : Listed(p) /\ ~Listed(p)' =>
              \/ \E m \in Matches : p \in Group(m)' \ Group(m)
              \/ \E d \in Pods : p \in dequeues[d]
              \/ entry[p] \notin beat
    PROVE  Fair
<1>1. InOrder(queue', queue)
  BY CutOrder DEF TypeOK
<1> QED BY <1>1 DEF Fair, InOrder

LEMMA AgreesDistinct == ASSUME ListAgrees PROVE Distinct(queue)
BY DEF ListAgrees, Distinct

(* A player in the list keeps their place, another is put behind it. *)
LEMMA FindGameStep ==
    ASSUME IInv, NEW p \in Players, NEW d \in Pods, FindGame(p, d)
    PROVE  IInv' /\ Fair
<1> USE DEF FindGame
<1>0. TypeOK /\ ListAgrees /\ queue \in Seq(Players) /\ Len(queue) \in Nat
  BY DEF IInv, TypeOK
<1>1. /\ queue' \in Seq(Players) /\ Len(queue') =< Len(queue) + 1
      /\ \A i \in DOMAIN queue' :
            \/ i \in DOMAIN queue /\ queue'[i] = queue[i]
            \/ i = Len(queue) + 1 /\ queue'[i] = p /\ ~Listed(p)
      /\ \A i \in DOMAIN queue : i \in DOMAIN queue' /\ queue'[i] = queue[i]
      /\ DOMAIN queue = 1 .. Len(queue)
  <2>1. CASE Listed(p)
    <3>1. queue' = queue
      BY <2>1 DEF Placed
    <3> QED BY <1>0, <3>1
  <2>2. CASE ~Listed(p)
    <3>1. queue' = Append(queue, p)
      BY <2>2 DEF Placed
    <3> QED BY <1>0, <2>2, <3>1
  <2> QED BY <2>1, <2>2
<1>2. Listed(p)' /\ \A q \in Players \ {p} : Listed(q)' <=> Listed(q)
  <2>1. \A q \in Players : Listed(q) <=> \E i \in DOMAIN queue : queue[i] = q
    BY <1>0 DEF Listed, Contains
  <2>2. \A q \in Players : Listed(q)' <=> \E i \in DOMAIN queue' : queue'[i] = q
    BY <1>1 DEF Listed, Contains
  <2>3. Listed(p)'
    <3>1. CASE Listed(p)
      BY <1>1, <2>1, <2>2, <3>1
    <3>2. CASE ~Listed(p)
      <4>1. queue' = Append(queue, p)
        BY <3>2 DEF Placed
      <4>2. Len(queue) + 1 \in DOMAIN queue' /\ queue'[Len(queue) + 1] = p
        BY <1>0, <4>1
      <4> QED BY <2>2, <4>2
    <3> QED BY <3>1, <3>2
  <2> QED BY <1>1, <2>1, <2>2, <2>3
<1>3. Distinct(queue')
  <2>1. SUFFICES ASSUME NEW i \in DOMAIN queue', NEW j \in DOMAIN queue', queue'[i] = queue'[j]
                 PROVE  i = j
    BY DEF Distinct
  <2>2. ~Listed(p) => \A k \in DOMAIN queue : queue[k] # p
    BY <1>0 DEF Listed, Contains
  <2>3. Distinct(queue)
    BY <1>0, AgreesDistinct
  <2> QED BY <1>1, <2>1, <2>2, <2>3 DEF Distinct
<1>4. ListAgrees'
  <2>1. \A q \in Players : Listed(q)' <=> entry'[q] # None
    BY <1>0, <1>2, MatchQueueConstants DEF ListAgrees, TypeOK
  <2> QED BY <1>3, <2>1 DEF ListAgrees, Distinct
<1>5. TypeOK'
  BY <1>0, <1>1 DEF TypeOK
<1>6. IInv'
  <2>1. joins' = joins + 1 /\ joins < MaxJoins /\ UNCHANGED <<match, seat, leaving, party, up>>
    OBVIOUS
  <2> QED BY <1>1, <1>4, <1>5, <2>1, ListStep
<1>7. Fair
  <2>1. \A q \in Players : Listed(q) => Listed(q)'
    BY <1>2
  <2>2. ASSUME NEW i \in DOMAIN queue', NEW j \in DOMAIN queue', i < j, Listed(queue'[j])
        PROVE  i \in DOMAIN queue /\ j \in DOMAIN queue /\ queue[i] = queue'[i] /\ queue[j] = queue'[j]
    <3>1. j \in DOMAIN queue
      BY <1>1, <2>2
    <3>2. i \in Nat /\ j \in 1 .. Len(queue)
      BY <1>1, <2>2, <3>1
    <3>3. i # Len(queue) + 1
      BY <1>0, <2>2, <3>2
    <3> QED BY <1>1, <3>1, <3>3
  <2> QED BY <2>1, <2>2 DEF Fair
<1> QED BY <1>6, <1>7

LEMMA DequeueStep ==
    ASSUME IInv, NEW p \in Players, NEW d \in Pods, Dequeue(p, d)
    PROVE  IInv' /\ Fair
<1> USE DEF Dequeue
<1>0. TypeOK /\ ListAgrees /\ queue \in Seq(Players) /\ Len(queue) \in Nat /\ Distinct(queue)
  BY AgreesDistinct DEF IInv, TypeOK
<1>1. /\ queue' \in Seq(Players) /\ Len(queue') =< Len(queue) /\ Distinct(queue')
      /\ \A q : Contains(queue', q) <=> Contains(queue, q) /\ q # p
      /\ Fair
  <2>1. CASE ~Contains(queue, p)
    <3>1. queue' = queue
      BY <1>0, <2>1, WithoutCut
    <3> QED BY <1>0, <2>1, <3>1, QueueKept
  <2>2. CASE Contains(queue, p)
    <3>1. PICK k \in 1 .. Len(queue) : queue[k] = p /\ Cut(queue', queue, k, 1)
      BY <1>0, <2>2, WithoutCut
    <3>2. queue' \in Seq(Players) /\ Len(queue') = Len(queue) - 1 /\ Distinct(queue')
      <4>1. Distinct(queue')
        BY <1>0, <3>1, CutOrder
      <4> QED BY <3>1, <4>1 DEF Cut
    <3>3. \A i \in k .. k + 1 - 1 : i = k
      OBVIOUS
    <3>4. k \in k .. k + 1 - 1
      OBVIOUS
    <3>5. ASSUME NEW q PROVE Contains(queue', q) <=> Contains(queue, q) /\ q # p
      <4>1. Contains(queue', q) <=> Contains(queue, q) /\ \A i \in k .. k + 1 - 1 : queue[i] # q
        BY <1>0, <3>1, CutLeaves
      <4> QED BY <3>1, <3>3, <3>4, <4>1
    <3>6. Fair
      <4>1. \A q \in Players : Listed(q) /\ ~Listed(q)' => q \in dequeues[d]
        BY <3>5 DEF Listed
      <4> QED BY <1>0, <3>1, <4>1, CutFair
    <3> QED BY <1>0, <3>2, <3>5, <3>6
  <2> QED BY <2>1, <2>2
<1>2. ListAgrees'
  <2>1. \A q \in Players : Listed(q)' <=> entry'[q] # None
    BY <1>0, <1>1 DEF ListAgrees, Listed, TypeOK
  <2> QED BY <1>1, <2>1 DEF ListAgrees, Distinct
<1>3. TypeOK'
  BY <1>0, <1>1 DEF TypeOK, bounds
<1>4. IInv'
  <2>1. joins' = joins /\ UNCHANGED <<match, seat, leaving, party, up>>
    BY DEF bounds
  <2> QED BY <1>1, <1>2, <1>3, <2>1, ListStep
<1> QED BY <1>1, <1>4

(* A group popped takes a number of its own: the find_games made so far
   leave one. *)
LEMMA FreeNumber ==
    ASSUME IInv, Len(queue) >= MatchSize
    PROVE  \E m \in Matches : match[m].state = "none"
<1> SUFFICES ASSUME \A m \in Matches : match[m].state # "none" PROVE FALSE
  OBVIOUS
<1> DEFINE N == Cardinality(Matches)
<1>1. Used = Matches
  BY DEF Used
<1>2. N \in Nat /\ MatchSize \in Nat /\ joins \in Nat /\ Len(queue) \in Nat /\ MaxJoins \in Int
  BY MatchQueueConstants, FS_CardinalityType DEF IInv, TypeOK
<1>3. Len(queue) + MatchSize * N =< joins /\ joins =< MaxJoins
  BY <1>1 DEF IInv, Counted
<1>4. MaxJoins =< MatchSize * (N + 1) - 1
  BY MatchQueueConstants
<1> HIDE DEF N
<1>5. MatchSize * (N + 1) = MatchSize * N + MatchSize /\ MatchSize * N \in Nat
  BY <1>2
<1> QED BY <1>2, <1>3, <1>4, <1>5

LEMMA PopStep ==
    ASSUME IInv, NEW d \in Pods, Pop(d)
    PROVE  IInv' /\ Fair
<1> DEFINE group == SubSeq(queue, 1, MatchSize)
           rest == SubSeq(queue, MatchSize + 1, Len(queue))
           dead == Dead(group)
           m == CHOOSE n \in Matches : match[n].state = "none"
           popped == [NoMatch EXCEPT
               !.state = "popped", !.by = d, !.host = entry[group[1]],
               !.pod = [p \in Players |-> IF Contains(group, p) THEN entry[p] ELSE None]]
<1>0. /\ TypeOK /\ ListAgrees /\ queue \in Seq(Players) /\ Len(queue) \in Nat /\ Distinct(queue)
      /\ MatchSize \in Nat /\ MatchSize > 0 /\ MatchSize =< Len(queue)
  BY AgreesDistinct, MatchQueueConstants DEF IInv, TypeOK, Pop
<1>1. /\ group \in Seq(Players) /\ Len(group) = MatchSize
      /\ \A i \in 1 .. MatchSize : group[i] = queue[i] /\ queue[i] \in Players
      /\ Cut(rest, queue, 1, MatchSize)
  BY <1>0, FrontCut
<1>2. /\ dead \in 0 .. MatchSize
      /\ dead # 0 => entry[group[dead]] \notin beat
      /\ dead = 0 => \A i \in 1 .. MatchSize : entry[group[i]] \in beat
  <2> DEFINE I == {i \in 1 .. Len(group) : entry[group[i]] \notin beat}
  <2>1. dead = IF I # {} THEN Min(I) ELSE 0
    BY DEF Dead, SelectInSeq
  <2>2. I # {} => Min(I) \in I
    <3>1. I \subseteq Nat
      OBVIOUS
    <3> QED BY <3>1, FirstPlace
  <2> HIDE DEF group
  <2> QED BY <1>0, <1>1, <2>1, <2>2
<1>3. CASE dead # 0
  <2>1. /\ queue' = Survivors(group, dead, rest)
        /\ entry' = [entry EXCEPT ![group[dead]] = None]
        /\ UNCHANGED <<match, beat, party, up, at, dequeues, seat, leaving, joins, trouble>>
    BY <1>3 DEF Pop, bounds
  <2>2. Cut(queue', queue, dead, 1)
    BY <1>0, <1>2, <1>3, <2>1, SurvivorsCut
  <2> DEFINE q == queue[dead]
  <2>3. q \in Players /\ group[dead] = q /\ entry[q] \notin beat
    BY <1>1, <1>2, <1>3
  <2> HIDE DEF dead, group, rest
  <2>4. queue' \in Seq(Players) /\ Len(queue') =< Len(queue)
    BY <1>0, <2>2 DEF Cut
  <2>5. Distinct(queue')
    BY <1>0, <2>2, CutOrder
  <2>6. ASSUME NEW p PROVE Contains(queue', p) <=> Contains(queue, p) /\ p # q
    <3>1. Contains(queue', p) <=> Contains(queue, p) /\ \A i \in dead .. dead + 1 - 1 : queue[i] # p
      BY <1>0, <2>2, CutLeaves
    <3>2. dead \in Nat
      BY <1>0, <1>2
    <3>3. \A i : i \in dead .. dead + 1 - 1 <=> i = dead
      BY <3>2
    <3> QED BY <3>1, <3>3
  <2> HIDE DEF q
  <2>7. ListAgrees'
    <3>1. \A p \in Players : Listed(p)' <=> entry'[p] # None
      BY <1>0, <2>1, <2>3, <2>6 DEF ListAgrees, Listed, TypeOK
    <3> QED BY <2>5, <3>1 DEF ListAgrees, Distinct
  <2>8. TypeOK'
    BY <1>0, <2>1, <2>3, <2>4 DEF TypeOK
  <2>9. IInv'
    BY <2>1, <2>4, <2>7, <2>8, ListStep
  <2>10. Fair
    <3>1. \A p \in Players : Listed(p) /\ ~Listed(p)' => entry[p] \notin beat
      BY <2>3, <2>6 DEF Listed
    <3> QED BY <1>0, <2>2, <3>1, CutFair
  <2> QED BY <2>9, <2>10
<1>4. CASE dead = 0
  <2>1. /\ queue' = rest
        /\ entry' = [p \in Players |-> IF Contains(group, p) THEN None ELSE entry[p]]
        /\ match' = [match EXCEPT ![m] = popped]
        /\ UNCHANGED <<beat, party, up, at, dequeues, seat, leaving, joins, trouble>>
    BY <1>4 DEF Pop, bounds
  <2>2. m \in Matches /\ match[m].state = "none"
    BY <1>0, FreeNumber
  <2>3. \A i \in 1 .. MatchSize : entry[group[i]] \in Pods
    BY <1>0, <1>2, <1>4 DEF TypeOK
  <2>4. /\ popped \in MatchRecs
        /\ popped.state = "popped" /\ popped.answer = "none" /\ popped.local = {}
        /\ popped.host \in Pods
        /\ \A p \in Players : popped.pod[p] = IF Contains(group, p) THEN entry[p] ELSE None
    <3>1. entry[group[1]] \in Pods /\ entry \in [Players -> Pods \cup {None}]
      BY <1>0, <2>3 DEF TypeOK
    <3> HIDE DEF group
    <3> QED BY <3>1 DEF NoMatch, MatchRecs, MatchStates
  <2>5. \A p : Contains(group, p) <=> \E i \in 1 .. MatchSize : queue[i] = p
    <3> HIDE DEF group
    <3> QED BY <1>1 DEF Contains
  <2> HIDE DEF group, rest, dead, m, popped
  <2>6. queue' \in Seq(Players) /\ Len(queue') = Len(queue) - MatchSize /\ Distinct(queue')
    <3>1. Distinct(queue')
      BY <1>0, <1>1, <2>1, CutOrder
    <3> QED BY <1>1, <2>1, <3>1 DEF Cut
  <2>7. ASSUME NEW p PROVE Contains(queue', p) <=> Contains(queue, p) /\ ~Contains(group, p)
    <3>1. Contains(queue', p) <=> Contains(queue, p) /\ \A i \in 1 .. 1 + MatchSize - 1 : queue[i] # p
      <4>1. Cut(queue', queue, 1, MatchSize)
        BY <1>1, <2>1
      <4> QED BY <1>0, <4>1, CutLeaves
    <3>2. 1 .. 1 + MatchSize - 1 = 1 .. MatchSize
      BY <1>0
    <3> QED BY <2>5, <3>1, <3>2
  <2>8. ListAgrees'
    <3>1. \A p \in Players : Listed(p)' <=> entry'[p] # None
      BY <1>0, <2>1, <2>7 DEF ListAgrees, Listed
    <3> QED BY <2>6, <3>1 DEF ListAgrees, Distinct
  <2>9. TypeOK'
    <3>1. match' \in [Matches -> MatchRecs]
      BY <1>0, <2>1, <2>4 DEF TypeOK, MatchRecs
    <3>2. entry' \in [Players -> Pods \cup {None}]
      BY <1>0, <2>1 DEF TypeOK
    <3> QED BY <1>0, <2>1, <2>6, <3>1, <3>2 DEF TypeOK, MatchRecs
  <2>10. Counted'
    <3>1. Used' = Used \cup {m} /\ m \notin Used /\ IsFiniteSet(Used)
      <4>1. \A n \in Matches : match'[n].state # "none" <=> match[n].state # "none" \/ n = m
        BY <1>0, <2>1, <2>2, <2>4 DEF TypeOK
      <4>2. IsFiniteSet(Used)
        BY MatchQueueConstants, FS_Subset DEF Used
      <4> QED BY <2>2, <4>1, <4>2 DEF Used
    <3> DEFINE n == Cardinality(Used)
    <3>2. Cardinality(Used)' = n + 1 /\ n \in Nat
      BY <3>1, FS_AddElement, FS_CardinalityType
    <3> HIDE DEF n
    <3>3. MatchSize * (n + 1) = MatchSize * n + MatchSize /\ MatchSize * n \in Nat
      BY <1>0, <3>2
    <3>4. Len(queue) + MatchSize * n =< joins /\ joins =< MaxJoins /\ joins \in Nat
      BY DEF IInv, Counted, TypeOK, n
    <3>5. (Len(queue) - MatchSize) + MatchSize * (n + 1) =< joins
      BY <1>0, <3>3, <3>4
    <3>6. Len(queue') + MatchSize * Cardinality(Used)' =< joins
      BY <2>6, <3>2, <3>5
    <3> QED BY <2>1, <3>4, <3>6 DEF Counted
  <2>11. ASSUME NEW n \in Matches PROVE MatchOK(n)'
    <3>1. CASE n = m
      <4>1. match'[n] = popped /\ leaving'[n] = {}
        <5>1. leaving[m] = {}
          BY <2>2 DEF IInv, MatchOK, Owed
        <5> QED BY <1>0, <2>1, <2>2, <3>1, <5>1 DEF TypeOK
      <4>2. \A p \in Players : party'[p] # n
        BY <2>1, <2>2, <3>1 DEF IInv, MatchOK, Bound
      <4>3. Bound(n)'
        BY <4>2 DEF Bound
      <4> QED BY <2>4, <4>1, <4>3 DEF MatchOK, Fresh, Sides, Answers, Owed, Held, Open
    <3>2. CASE n # m
      <4>1. match'[n] = match[n] /\ UNCHANGED <<seat, leaving, party, up>>
        BY <1>0, <2>1, <3>2 DEF TypeOK
      <4> QED BY <1>0, <4>1, OtherMatch DEF IInv, TypeOK
    <3> QED BY <3>1, <3>2
  <2>12. Fair
    <3>1. ASSUME NEW p \in Players, Listed(p), ~Listed(p)'
          PROVE  \E n \in Matches : p \in Group(n)' \ Group(n)
      <4>1. Contains(group, p) /\ entry[p] # None
        BY <1>0, <2>7, <3>1 DEF Listed, ListAgrees
      <4>2. match'[m].pod[p] = entry[p]
        BY <1>0, <2>1, <2>2, <2>4, <4>1 DEF TypeOK
      <4>3. match[m].pod[p] = None
        BY <2>2 DEF IInv, MatchOK, Fresh, NoMatch
      <4> QED BY <2>2, <4>1, <4>2, <4>3 DEF Group
    <3> QED BY <1>0, <1>1, <2>1, <3>1, CutFair
  <2> QED BY <2>8, <2>9, <2>10, <2>11, <2>12 DEF IInv
<1> QED BY <1>3, <1>4

---------------------------------------------------------------------------
(* The announcement and the host. *)

LEMMA AnnounceIInv == ASSUME IInv, NEW m \in Matches, Announce(m) PROVE IInv'
<1> DEFINE local == {p \in Group(m) : match[m].pod[p] = match[m].host /\ match[m].host \in at[p]}
<1>0. TypeOK /\ MatchOK(m) /\ match[m].state = "popped"
  BY DEF IInv, Announce
<1>1. /\ UNCHANGED <<queue, entry, beat, party, up, at, dequeues, seat, leaving, joins, trouble>>
      /\ \A n \in Matches \ {m} : match'[n] = match[n]
      /\ \A p \in Players : party'[p] # m
  BY <1>0 DEF Announce, Becomes, redis, bounds, TypeOK, MatchOK, Bound
<1>2. CASE match'[m] = Over(m)
  <2>1. TypeOK'
    BY <1>0, <1>1, <1>2, OverFacts DEF TypeOK, Announce, Becomes, MatchRecs
  <2> QED BY <1>0, <1>1, <1>2, <2>1, OverOK, OverFacts, MatchStep
<1>3. CASE match'[m] = [To(m, "forming") EXCEPT !.by = None, !.local = local]
  <2>1. match'[m] = [match[m] EXCEPT !.state = "forming", !.by = None, !.local = local]
    BY <1>0, <1>3 DEF To, TypeOK
  <2>2. match'[m] \in MatchRecs
    <3>1. local \in SUBSET Players /\ "forming" \in MatchStates
      BY DEF Group, MatchStates
    <3>2. match[m] \in MatchRecs
      BY <1>0 DEF TypeOK, MatchRecs
    <3> HIDE DEF local
    <3>3. [match[m] EXCEPT !.state = "forming", !.by = None, !.local = local] \in MatchRecs
      BY <3>1, <3>2, RecordKept
    <3> QED BY <2>1, <3>3
  <2>3. TypeOK'
    BY <1>0, <1>1, <2>2 DEF TypeOK, Announce, Becomes, MatchRecs
  <2>4. /\ match'[m].state = "forming" /\ match'[m].local = local /\ match'[m].answer = match[m].answer
        /\ match'[m].pod = match[m].pod /\ match'[m].host = match[m].host
    BY <1>0, <2>1 DEF TypeOK
  <2>5. Sides(m)'
    BY <2>4 DEF Sides, Remote, Group
  <2>6. MatchOK(m)'
    BY <1>0, <1>1, <2>4, <2>5 DEF MatchOK, Fresh, Answers, Owed, Held, Bound, Open
  <2> QED BY <1>0, <1>1, <2>3, <2>4, <2>6, MatchStep
<1> QED BY <1>0, <1>2, <1>3 DEF Announce, Becomes, TypeOK

LEMMA AnnounceLostIInv == ASSUME IInv, NEW m \in Matches, AnnounceLost(m) PROVE IInv'
<1>0. TypeOK /\ MatchOK(m) /\ match[m].state = "popped"
  BY DEF IInv, AnnounceLost
<1>1. /\ UNCHANGED <<queue, entry, beat, party, up, at, dequeues, seat, leaving, joins>>
      /\ trouble' = trouble + 1
      /\ match' = [match EXCEPT ![m] = Over(m)]
      /\ match'[m] = Over(m) /\ \A n \in Matches \ {m} : match'[n] = match[n]
      /\ \A p \in Players : party'[p] # m
  BY <1>0 DEF AnnounceLost, Becomes, Fails, redis, TypeOK, MatchOK, Bound
<1>2. TypeOK'
  BY <1>0, <1>1, OverFacts DEF TypeOK, MatchRecs
<1> QED BY <1>0, <1>1, <1>2, OverOK, OverFacts, MatchStep

(* What the host has been told of the party it asked for. *)
LEMMA FormedIInv ==
    ASSUME IInv, NEW m \in Matches, match[m].state = "forming",
           NEW answer \in {"made", "taken", "unknown"},
           Becomes(m, [To(m, "formed") EXCEPT !.answer = answer]),
           \/ party' = party /\ answer # "made"
           \/ ~InParty(m) /\ party' = Joined(m) /\ answer # "taken",
           UNCHANGED <<queue, entry, beat, up, at, dequeues, seat, leaving, joins>>,
           trouble' \in Nat
    PROVE  IInv'
<1>0. TypeOK /\ MatchOK(m) /\ m # 0
  BY MatchQueueConstants DEF IInv
<1>1. /\ match'[m] = [match[m] EXCEPT !.state = "formed", !.answer = answer]
      /\ \A n \in Matches \ {m} : match'[n] = match[n]
      /\ match' \in [Matches -> MatchRecs]
  <2> DEFINE it == [match[m] EXCEPT !.state = "formed", !.answer = answer]
  <2>1. match[m] \in MatchRecs /\ "formed" \in MatchStates
    BY <1>0 DEF TypeOK, MatchRecs, MatchStates
  <2>2. it \in MatchRecs
    BY <2>1, RecordKept
  <2>3. [To(m, "formed") EXCEPT !.answer = answer] = it
    BY <2>1 DEF To, MatchRecs
  <2> QED BY <1>0, <2>2, <2>3, MatchTyped
<1>2. /\ match'[m].state = "formed" /\ match'[m].answer = answer /\ match'[m].local = match[m].local
      /\ match'[m].pod = match[m].pod /\ match'[m].host = match[m].host
  BY <1>0, <1>1 DEF TypeOK
<1>3. Remote(m)' = Remote(m) /\ Joiners(m)' = Joiners(m) /\ Joiners(m) \subseteq Players
  BY <1>0, <1>2 DEF Remote, Joiners, Group, TypeOK
<1>4. party' \in [Players -> Matches \cup {0}]
  BY <1>0 DEF Joined, TypeOK
<1>5. TypeOK'
  BY <1>0, <1>1, <1>4 DEF TypeOK, MatchRecs
<1>6. \A n \in Matches \ {m}, p \in Players : party[p] = n <=> party'[p] = n
  BY <1>0, <1>3, MatchQueueConstants DEF Joined, InParty, TypeOK
<1>7. MatchOK(m)'
  <2>1. Fresh(m)' /\ Answers(m)' /\ Owed(m)'
    BY <1>0, <1>2 DEF MatchOK, Fresh, Answers, Owed, Open
  <2>2. Sides(m)'
    BY <1>0, <1>2, <1>3 DEF MatchOK, Sides
  <2>3. Held(m)'
    <3>1. answer = "made" => \A p \in Joiners(m) : party'[p] = m
      BY <1>3 DEF Joined
    <3> QED BY <1>2, <1>3, <3>1 DEF Held, Open
  <2>4. Bound(m)'
    <3>1. \A p \in Players : party'[p] = m => answer # "taken" /\ p \in Joiners(m)
      <4>1. \A p \in Players : party[p] # m
        BY <1>0 DEF MatchOK, Bound
      <4>2. \A p \in Players : party'[p] = m => answer # "taken"
        BY <4>1
      <4>3. \A p \in Players : party'[p] = m => p \in Joiners(m)
        BY <4>1 DEF Joined
      <4> QED BY <4>2, <4>3
    <3> QED BY <1>2, <1>3, <3>1 DEF Bound
  <2> QED BY <2>1, <2>2, <2>3, <2>4 DEF MatchOK
<1> QED BY <1>1, <1>2, <1>5, <1>6, <1>7, MatchStep

LEMMA FormIInv == ASSUME IInv, NEW m \in Matches, Form(m) PROVE IInv'
<1>1. trouble' \in Nat /\ UNCHANGED <<queue, entry, beat, up, at, dequeues, seat, leaving, joins>>
  BY DEF Form, IInv, TypeOK, bounds
<1>2. CASE InParty(m) /\ Becomes(m, [To(m, "formed") EXCEPT !.answer = "taken"]) /\ party' = party
  BY <1>1, <1>2, FormedIInv DEF Form
<1>3. CASE ~InParty(m) /\ Becomes(m, [To(m, "formed") EXCEPT !.answer = "made"]) /\ party' = Joined(m)
  BY <1>1, <1>3, FormedIInv DEF Form
<1> QED BY <1>2, <1>3 DEF Form

LEMMA FormFailsIInv == ASSUME IInv, NEW m \in Matches, FormFails(m) PROVE IInv'
<1>1. trouble' \in Nat /\ UNCHANGED <<queue, entry, beat, up, at, dequeues, seat, leaving, joins>>
  BY DEF FormFails, Fails, IInv, TypeOK
<1>2. /\ Becomes(m, [To(m, "formed") EXCEPT !.answer = "unknown"])
      /\ party' = party \/ (~InParty(m) /\ party' = Joined(m))
  BY DEF FormFails
<1> QED BY <1>1, <1>2, FormedIInv DEF FormFails

LEMMA StartIInv == ASSUME IInv, NEW m \in Matches, Start(m) PROVE IInv'
<1> DEFINE present == {p \in match[m].local : InTown(p, match[m].host)}
           seats == [p \in Players |->
               IF p \in present THEN "seated" ELSE IF p \in Remote(m) THEN "expected" ELSE "none"]
<1>0. TypeOK /\ MatchOK(m) /\ match[m].state = "formed"
  BY DEF IInv, Start
<1>1. UNCHANGED <<queue, entry, beat, party, up, at, dequeues, joins, trouble>>
  BY DEF Start, redis, bounds
<1>2. CASE /\ Becomes(m, Over(m)) /\ seat' = seat
           /\ leaving' = [leaving EXCEPT ![m] = leaving'[m]] /\ leaving'[m] \subseteq Players
           /\ \A p \in Players : party[p] = m => p \in leaving'[m]
  <2>1. match'[m] = Over(m) /\ \A n \in Matches \ {m} : match'[n] = match[n] /\ leaving'[n] = leaving[n]
    BY <1>0, <1>2 DEF Becomes, TypeOK
  <2>2. TypeOK'
    BY <1>0, <1>1, <1>2, <2>1, OverFacts DEF TypeOK, MatchRecs, Becomes
  <2> QED BY <1>0, <1>1, <1>2, <2>1, <2>2, OverOK, OverFacts, MatchStep
<1>3. CASE /\ match[m].answer # "taken"
           /\ Becomes(m, [To(m, "open") EXCEPT !.local = {}])
           /\ seat' = [seat EXCEPT ![m] = seats]
           /\ leaving' = [leaving EXCEPT ![m] = match[m].local \ present]
  <2>1. /\ match'[m] = [match[m] EXCEPT !.state = "open", !.local = {}]
        /\ \A n \in Matches \ {m} : match'[n] = match[n] /\ seat'[n] = seat[n] /\ leaving'[n] = leaving[n]
        /\ match' \in [Matches -> MatchRecs]
        /\ seat'[m] = seats /\ leaving'[m] = match[m].local \ present
    <3> DEFINE it == [match[m] EXCEPT !.state = "open", !.local = {}]
    <3>1. match[m] \in MatchRecs /\ "open" \in MatchStates
      BY <1>0 DEF TypeOK, MatchRecs, MatchStates
    <3>2. it \in MatchRecs
      BY <3>1, RecordKept
    <3>3. [To(m, "open") EXCEPT !.local = {}] = it
      BY <3>1 DEF To, MatchRecs
    <3>4. match' \in [Matches -> MatchRecs] /\ match'[m] = it /\ \A n \in Matches \ {m} : match'[n] = match[n]
      BY <1>0, <1>3, <3>2, <3>3, MatchTyped
    <3> HIDE DEF present, seats
    <3> QED BY <1>0, <1>3, <3>4 DEF TypeOK
  <2>2. /\ match'[m].state = "open" /\ match'[m].answer = match[m].answer /\ match'[m].local = {}
        /\ match'[m].host = match[m].host
    BY <1>0, <2>1 DEF TypeOK
  <2>3. seat' \in [Matches -> [Players -> SeatStates]] /\ leaving' \in [Matches -> SUBSET Players]
    BY <1>0, <1>3 DEF TypeOK, SeatStates
  <2>4. TypeOK'
    BY <1>0, <1>1, <2>1, <2>3 DEF TypeOK, MatchRecs
  <2>5. Fresh(m)' /\ Answers(m)' /\ Sides(m)'
    BY <1>0, <1>3, <2>2 DEF MatchOK, Fresh, Answers, Sides, Open, TypeOK
  <2>6. Owed(m)'
    BY <1>0, <2>1, <2>2 DEF MatchOK, Sides, Owed, Open, TypeOK
  <2>7. Held(m)'
    BY <1>0, <1>1, <2>1, <2>2 DEF MatchOK, Held, Joiners, Open, TypeOK
  <2>8. Bound(m)'
    <3>1. ASSUME NEW p \in Players, party'[p] = m, p \notin leaving'[m]
          PROVE  seat'[m][p] \in {"seated", "expected"}
      <4>1. p \in match[m].local \cup Remote(m)
        BY <1>0, <1>1, <3>1 DEF MatchOK, Bound, Joiners
      <4> QED BY <2>1, <3>1, <4>1
    <3>2. ASSUME NEW p \in Players, party'[p] = m, p \notin leaving'[m]
          PROVE  InRun(p, m)'
      BY <2>2, <3>1, <3>2 DEF InRun, Open, Seated, Expected
    <3> QED BY <2>2, <3>2 DEF Bound
  <2> QED BY <1>0, <1>1, <2>1, <2>2, <2>4, <2>5, <2>6, <2>7, <2>8, MatchStep DEF MatchOK
<1>4. Joiners(m) \subseteq Players
  BY <1>0 DEF Joiners, Remote, Group, TypeOK
<1>5. CASE match[m].answer = "taken"
  <2>1. Becomes(m, Over(m)) /\ UNCHANGED <<seat, leaving>>
    BY <1>5 DEF Start
  <2>2. \A p \in Players : party[p] # m
    BY <1>0, <1>5 DEF MatchOK, Bound
  <2> QED BY <1>0, <1>2, <2>1, <2>2 DEF TypeOK
<1>6. CASE match[m].answer # "taken" /\ present = {}
  <2>1. Becomes(m, Over(m)) /\ leaving' = [leaving EXCEPT ![m] = LetGo(m)] /\ seat' = seat
    BY <1>6 DEF Start
  <2>2. \A p \in Players : party[p] = m => p \in Joiners(m)
    BY <1>0 DEF MatchOK, Bound
  <2> QED BY <1>0, <1>2, <1>4, <2>1, <2>2 DEF TypeOK, LetGo
<1>7. CASE match[m].answer # "taken" /\ present # {}
  BY <1>3, <1>7 DEF Start
<1> QED BY <1>5, <1>6, <1>7

---------------------------------------------------------------------------
(* In a run and out of it. *)

(* A match whose run goes on, with seats that are given up owed to the
   party, keeps its invariant; so does one whose run ends. *)
LEMMA RunKept ==
    ASSUME IInv, NEW m \in Matches, Open(m), UNCHANGED <<queue, entry, joins, party, up>>,
           TypeOK',
           \A p \in Players : p \in leaving[m] \/ seat[m][p] # "none" =>
               p \in leaving'[m] \/ (match'[m] # Over(m) /\ seat'[m][p] # "none"),
           \/ match'[m] = Over(m)
           \/ /\ match'[m] = match[m] \/ match'[m] = [match[m] EXCEPT !.released = TRUE]
              /\ \A p \in Players : seat'[m][p] # "none" => seat[m][p] # "none"
              /\ \A p \in leaving'[m] : seat'[m][p] = "none",
           \A n \in Matches \ {m} :
               match'[n] = match[n] /\ seat'[n] = seat[n] /\ leaving'[n] = leaving[n]
    PROVE  IInv'
<1>0. TypeOK /\ MatchOK(m)
  BY DEF IInv
<1>10. \A p \in Players : party[p] = m /\ match[m].host \in up => p \in leaving[m] \/ seat[m][p] # "none"
  BY <1>0 DEF MatchOK, Bound, InRun, Seated, Expected, Open
<1>1. CASE match'[m] = Over(m)
  <2>1. MatchOK(m)'
    BY <1>0, <1>10, <1>1, OverOK DEF Open
  <2> QED BY <1>0, <1>1, <2>1, OverFacts, MatchStep DEF Open
<1>2. CASE /\ match'[m] = match[m] \/ match'[m] = [match[m] EXCEPT !.released = TRUE]
           /\ \A p \in Players : seat'[m][p] # "none" => seat[m][p] # "none"
           /\ \A p \in leaving'[m] : seat'[m][p] = "none"
  <2>1. /\ match'[m].state = "open" /\ match'[m].answer = match[m].answer
        /\ match'[m].local = match[m].local /\ match'[m].pod = match[m].pod
        /\ match'[m].host = match[m].host
    BY <1>0, <1>2 DEF Open, TypeOK
  <2>2. Fresh(m)' /\ Answers(m)' /\ Owed(m)'
    BY <1>0, <1>2, <2>1 DEF MatchOK, Fresh, Answers, Owed, Open
  <2>3. Sides(m)'
    BY <1>0, <2>1 DEF MatchOK, Sides, Remote, Group
  <2>4. Held(m)'
    BY <1>0, <1>2, <2>1 DEF MatchOK, Held, Open
  <2>5. Bound(m)'
    <3>1. match'[m] # Over(m)
      BY <1>0, <2>1, OverFacts
    <3>2. \A p \in Players : seat'[m][p] # "none" => InRun(p, m)'
      BY <2>1 DEF InRun, Open, Seated, Expected, TypeOK, SeatStates
    <3>3. ASSUME NEW p \in Players, party'[p] = m, match'[m].host \in up'
          PROVE  p \in leaving'[m] \/ InRun(p, m)'
      BY <1>10, <2>1, <3>1, <3>2, <3>3
    <3> QED BY <2>1, <3>3 DEF Bound
  <2> QED BY <2>1, <2>2, <2>3, <2>4, <2>5, MatchStep DEF MatchOK, Open
<1> QED BY <1>1, <1>2

LEMMA CrossIInv ==
    ASSUME IInv, NEW p \in Players, NEW m \in Matches, Cross(p, m)
    PROVE  IInv'
<1>0. TypeOK /\ MatchOK(m) /\ Open(m) /\ seat[m][p] = "expected"
  BY DEF IInv, Cross, Expected
<1>1. /\ UNCHANGED <<queue, entry, beat, party, up, dequeues, match, leaving, joins, trouble>>
      /\ seat' = [seat EXCEPT ![m][p] = "seated"]
  BY DEF Cross, redis, bounds
<1>2. /\ seat' \in [Matches -> [Players -> SeatStates]]
      /\ seat'[m] = [seat[m] EXCEPT ![p] = "seated"]
      /\ \A n \in Matches \ {m} : seat'[n] = seat[n]
  BY <1>0, <1>1 DEF TypeOK, SeatStates
<1>3. match[m].host \in Pods
  BY <1>0 DEF MatchOK, Fresh, Open
<1>4. TypeOK'
  BY <1>0, <1>1, <1>2, <1>3 DEF TypeOK, Cross
<1>5. \A q \in Players : seat'[m][q] # "none" => seat[m][q] # "none"
  BY <1>0, <1>2 DEF TypeOK
<1>6. \A q \in leaving'[m] : seat'[m][q] = "none"
  BY <1>0, <1>1, <1>2 DEF TypeOK, MatchOK, Owed
<1>7. match'[m] # Over(m) /\ \A q \in Players : seat[m][q] # "none" => seat'[m][q] # "none"
  BY <1>0, <1>1, <1>2, OverFacts DEF TypeOK, Open
<1> QED BY <1>0, <1>1, <1>2, <1>4, <1>5, <1>6, <1>7, RunKept

LEMMA GoneIInv ==
    ASSUME IInv, NEW m \in Matches, Open(m), NEW ps \in SUBSET Players, NEW ends \in BOOLEAN,
           Gone(m, ps, ends), UNCHANGED <<queue, entry, beat, party, up, joins>>,
           at' \in [Players -> SUBSET Pods], dequeues' \in [Pods -> SUBSET Players], trouble' \in Nat
    PROVE  IInv'
<1>0. TypeOK /\ MatchOK(m)
  BY DEF IInv
<1>1. /\ seat'[m] = [p \in Players |-> IF ends \/ p \in ps THEN "none" ELSE seat[m][p]]
      /\ seat' \in [Matches -> [Players -> SeatStates]]
      /\ \A n \in Matches \ {m} : seat'[n] = seat[n]
  BY <1>0 DEF Gone, TypeOK, SeatStates
<1>2. /\ ~ends => leaving'[m] = leaving[m] \cup ps
      /\ ends => leaving[m] \cup {p \in Players : seat[m][p] # "none"} \subseteq leaving'[m]
      /\ leaving' \in [Matches -> SUBSET Players]
      /\ \A n \in Matches \ {m} : leaving'[n] = leaving[n]
  BY <1>0 DEF Gone, TypeOK
<1>3. /\ match'[m] = IF ends THEN Over(m) ELSE match[m]
      /\ match' \in [Matches -> MatchRecs]
      /\ \A n \in Matches \ {m} : match'[n] = match[n]
  <2>1. match[m] \in MatchRecs /\ Over(m) \in MatchRecs
    BY <1>0, OverFacts DEF TypeOK, MatchRecs
  <2> QED BY <1>0, <2>1, MatchTyped DEF Gone
<1>4. TypeOK'
  BY <1>0, <1>1, <1>2, <1>3 DEF TypeOK, MatchRecs
<1>5. CASE ends
  <2>1. \A p \in Players : p \in leaving[m] \/ seat[m][p] # "none" => p \in leaving'[m]
    BY <1>2, <1>5
  <2> QED BY <1>1, <1>2, <1>3, <1>4, <1>5, <2>1, RunKept
<1>6. CASE ~ends
  <2>1. \A q \in Players : seat'[m][q] # "none" => seat[m][q] # "none"
    BY <1>1
  <2>2. \A q \in leaving'[m] : seat'[m][q] = "none"
    BY <1>0, <1>1, <1>2, <1>6 DEF TypeOK, MatchOK, Owed
  <2>3. /\ match'[m] = match[m] /\ match'[m] # Over(m)
        /\ \A p \in Players : p \in leaving[m] => p \in leaving'[m]
        /\ \A p \in Players : seat[m][p] # "none" => p \in leaving'[m] \/ seat'[m][p] # "none"
    BY <1>0, <1>1, <1>2, <1>3, <1>6, OverFacts DEF Open
  <2> QED BY <1>1, <1>2, <1>3, <1>4, <1>6, <2>1, <2>2, <2>3, RunKept
<1> QED BY <1>5, <1>6

LEMMA LeaveRunIInv ==
    ASSUME IInv, NEW p \in Players, NEW m \in Matches, LeaveRun(p, m)
    PROVE  IInv'
<1>1. /\ UNCHANGED <<queue, entry, beat, party, up, joins>> /\ Open(m)
      /\ at' \in [Players -> SUBSET Pods] /\ dequeues' \in [Pods -> SUBSET Players] /\ trouble' \in Nat
  BY DEF LeaveRun, redis, bounds, IInv, TypeOK
<1>2. Gone(m, {p}, Seated(m) = {p}) /\ {p} \in SUBSET Players /\ (Seated(m) = {p}) \in BOOLEAN
  BY DEF LeaveRun
<1> QED BY <1>1, <1>2, GoneIInv

LEMMA ReleaseSeatsIInv == ASSUME IInv, NEW m \in Matches, ReleaseSeats(m) PROVE IInv'
<1> DEFINE ends == Seated(m) = {}
<1>0. TypeOK /\ MatchOK(m) /\ Open(m)
  BY DEF IInv, ReleaseSeats
<1>1. UNCHANGED <<queue, entry, beat, party, up, at, dequeues, joins, trouble>>
  BY DEF ReleaseSeats, redis, bounds
<1>2. /\ seat'[m] = [p \in Players |-> IF seat[m][p] = "expected" THEN "none" ELSE seat[m][p]]
      /\ seat' \in [Matches -> [Players -> SeatStates]]
      /\ \A n \in Matches \ {m} : seat'[n] = seat[n]
  BY <1>0 DEF ReleaseSeats, TypeOK, SeatStates
<1>3. /\ leaving'[m] = leaving[m] \cup Expected(m)
      /\ leaving' \in [Matches -> SUBSET Players]
      /\ \A n \in Matches \ {m} : leaving'[n] = leaving[n]
  BY <1>0 DEF ReleaseSeats, TypeOK, Expected
<1>4. /\ match'[m] = IF ends THEN Over(m) ELSE [match[m] EXCEPT !.released = TRUE]
      /\ match' \in [Matches -> MatchRecs]
      /\ \A n \in Matches \ {m} : match'[n] = match[n]
  <2>1. match[m] \in MatchRecs /\ Over(m) \in MatchRecs /\ match[m].state \in MatchStates
    BY <1>0, OverFacts DEF TypeOK, MatchRecs
  <2>2. [match[m] EXCEPT !.released = TRUE] \in MatchRecs
    BY <2>1 DEF MatchRecs
  <2> QED BY <1>0, <2>1, <2>2, MatchTyped DEF ReleaseSeats
<1>5. TypeOK'
  BY <1>0, <1>1, <1>2, <1>3, <1>4 DEF TypeOK, MatchRecs
<1>6. \A q \in Players : seat'[m][q] # "none" => seat[m][q] # "none"
  BY <1>2
<1>7. \A q \in leaving'[m] : seat'[m][q] = "none"
  BY <1>0, <1>2, <1>3 DEF TypeOK, MatchOK, Owed, Expected
<1>8. \A p \in Players : p \in leaving[m] \/ seat[m][p] # "none" =>
          p \in leaving'[m] \/ (match'[m] # Over(m) /\ seat'[m][p] # "none")
  <2>1. ASSUME NEW p \in Players, seat[m][p] # "none", p \notin leaving'[m]
        PROVE  match'[m] # Over(m) /\ seat'[m][p] # "none"
    <3>1. seat[m][p] = "seated" /\ p \in Seated(m)
      BY <1>0, <1>3, <2>1 DEF TypeOK, SeatStates, Expected, Seated
    <3>2. match'[m] = [match[m] EXCEPT !.released = TRUE]
      BY <1>4, <3>1
    <3>3. match'[m].state = "open"
      BY <1>0, <3>2 DEF TypeOK, Open
    <3> QED BY <1>0, <1>2, <3>1, <3>3, OverFacts
  <2> QED BY <1>3, <2>1
<1> QED BY <1>0, <1>1, <1>2, <1>3, <1>4, <1>5, <1>6, <1>7, <1>8, RunKept

(* Only the party of the match itself loses the member, and its run does
   not hold them. *)
LEMMA LeaveMatchedIInv ==
    ASSUME IInv, NEW p \in Players, NEW m \in Matches, LeaveMatched(p, m)
    PROVE  IInv'
<1>0. TypeOK /\ MatchOK(m) /\ p \in leaving[m] /\ m # 0
  BY MatchQueueConstants DEF IInv, LeaveMatched
<1>1. /\ UNCHANGED <<queue, entry, beat, up, at, dequeues, match, seat, joins, trouble>>
      /\ leaving' = [leaving EXCEPT ![m] = @ \ {p}]
      /\ party' = [party EXCEPT ![p] = IF @ = m THEN 0 ELSE @]
  BY DEF LeaveMatched, bounds
<1>2. TypeOK'
  BY <1>0, <1>1 DEF TypeOK
<1>3. /\ leaving'[m] = leaving[m] \ {p} /\ \A n \in Matches \ {m} : leaving'[n] = leaving[n]
      /\ \A q \in Players : party'[q] = IF q = p /\ party[q] = m THEN 0 ELSE party[q]
  BY <1>0, <1>1 DEF TypeOK
<1>4. MatchOK(m)'
  <2>1. Fresh(m)' /\ Answers(m)' /\ Owed(m)'
    BY <1>0, <1>1, <1>3 DEF MatchOK, Fresh, Answers, Owed, Open, NoMatch
  <2>2. Sides(m)' /\ Joiners(m)' = Joiners(m) /\ Joiners(m) \subseteq Players
    BY <1>0, <1>1 DEF MatchOK, Sides, Joiners, Remote, Group, TypeOK
  <2>3. match[m].state # "formed" /\ (Open(m) => seat[m][p] = "none")
    BY <1>0 DEF MatchOK, Owed
  <2>4. Held(m)'
    BY <1>0, <1>1, <1>3, <2>2, <2>3 DEF MatchOK, Held, Open
  <2>5. Bound(m)'
    <3>1. \A q \in Players : party'[q] = m => party[q] = m /\ q # p
      BY <1>0, <1>3
    <3>2. \A q \in Players : InRun(q, m)' <=> InRun(q, m)
      BY <1>1 DEF InRun, Open, Seated, Expected
    <3> QED BY <1>0, <1>1, <1>3, <2>2, <3>1, <3>2 DEF MatchOK, Bound
  <2> QED BY <2>1, <2>2, <2>4, <2>5 DEF MatchOK
<1>5. match[m].state # "none"
  BY <1>0 DEF MatchOK, Owed
<1>6. \A n \in Matches \ {m}, q \in Players : party[q] = n <=> party'[q] = n
  BY <1>0, <1>3, MatchQueueConstants
<1> QED BY <1>1, <1>2, <1>3, <1>4, <1>5, <1>6, MatchStep

---------------------------------------------------------------------------
(* Players and pods. *)

LEMMA AskLeaveIInv ==
    ASSUME IInv, NEW p \in Players, NEW d \in Pods, AskLeave(p, d)
    PROVE  IInv'
<1>1. TypeOK'
  BY DEF AskLeave, Fails, IInv, TypeOK, redis
<1> QED BY <1>1, QuietStep DEF AskLeave, redis

LEMMA DequeueGivesUpIInv ==
    ASSUME IInv, NEW p \in Players, NEW d \in Pods, DequeueGivesUp(p, d)
    PROVE  IInv'
<1>1. TypeOK'
  BY DEF DequeueGivesUp, Fails, IInv, TypeOK, redis
<1> QED BY <1>1, QuietStep DEF DequeueGivesUp, redis

LEMMA DepartIInv ==
    ASSUME IInv, NEW p \in Players, NEW d \in Pods, Depart(p, d)
    PROVE  IInv'
<1> DEFINE runs == {m \in Matches : Open(m) /\ match[m].host = d /\ p \in Seated(m)}
<1>1. /\ UNCHANGED <<queue, entry, beat, party, up, joins>>
      /\ at' \in [Players -> SUBSET Pods] /\ dequeues' \in [Pods -> SUBSET Players] /\ trouble' \in Nat
  BY DEF Depart, Fails, Calm, redis, IInv, TypeOK
<1>2. CASE runs = {}
  <2>1. UNCHANGED <<match, seat, leaving>>
    BY <1>2 DEF Depart
  <2>2. TypeOK'
    BY <1>1, <2>1 DEF IInv, TypeOK
  <2> QED BY <1>1, <2>1, <2>2, QuietStep
<1>3. CASE runs # {}
  <2>1. PICK m \in runs : Gone(m, {p}, Seated(m) = {p})
    BY <1>3 DEF Depart
  <2>2. {p} \in SUBSET Players /\ (Seated(m) = {p}) \in BOOLEAN
    OBVIOUS
  <2> QED BY <1>1, <2>1, <2>2, GoneIInv
<1> QED BY <1>2, <1>3

LEMMA ArriveIInv ==
    ASSUME IInv, NEW p \in Players, NEW d \in Pods, Arrive(p, d)
    PROVE  IInv'
<1>1. TypeOK'
  BY DEF Arrive, IInv, TypeOK, redis
<1> QED BY <1>1, QuietStep DEF Arrive, redis

LEMMA LapseIInv == ASSUME IInv, NEW d \in Pods, Lapse(d) PROVE IInv'
<1>1. TypeOK'
  BY DEF Lapse, Fails, Calm, IInv, TypeOK
<1> QED BY <1>1, QuietStep DEF Lapse

LEMMA BeatIInv == ASSUME IInv, NEW d \in Pods, Beat(d) PROVE IInv'
<1>1. TypeOK'
  BY DEF Beat, bounds, IInv, TypeOK
<1> QED BY <1>1, QuietStep DEF Beat, bounds

(* What a pod held goes with it; the parties stay. *)
LEMMA StopIInv == ASSUME IInv, NEW d \in Pods, Stop(d) PROVE IInv'
<1> DEFINE here == {m \in Matches : match[m].host = d /\ match[m].state # "popped"}
           lost == here \cup {m \in Matches : match[m].state = "popped" /\ match[m].by = d}
<1>0. TypeOK /\ ListAgrees /\ Counted
  BY DEF IInv
<1>1. UNCHANGED <<queue, entry, beat, party, joins>> /\ trouble' = trouble + 1
  BY DEF Stop, Fails, redis
<1>2. /\ match' = [m \in Matches |-> IF m \in lost THEN Over(m) ELSE match[m]]
      /\ seat' = [m \in Matches |-> IF m \in lost THEN [p \in Players |-> "none"] ELSE seat[m]]
      /\ leaving' = [m \in Matches |-> IF m \in lost THEN {} ELSE leaving[m]]
  BY DEF Stop
<1>3. \A m \in lost : match[m].state # "none"
  BY MatchQueueConstants DEF IInv, MatchOK, Fresh, NoMatch
<1> HIDE DEF lost
<1>4. TypeOK'
  <2>1. match' \in [Matches -> MatchRecs]
    BY <1>0, <1>2, OverFacts DEF TypeOK, MatchRecs
  <2>2. seat' \in [Matches -> [Players -> SeatStates]] /\ leaving' \in [Matches -> SUBSET Players]
    BY <1>0, <1>2 DEF TypeOK, SeatStates
  <2>3. at' \in [Players -> SUBSET Pods] /\ dequeues' \in [Pods -> SUBSET Players] /\ up' \subseteq Pods
    BY <1>0 DEF Stop, TypeOK
  <2> QED BY <1>0, <1>1, <2>1, <2>2, <2>3 DEF TypeOK, MatchRecs
<1>5. ListAgrees'
  BY <1>0, <1>1 DEF ListAgrees, Listed
<1>6. Counted'
  <2>1. \A m \in Matches : match'[m].state # "none" <=> match[m].state # "none"
    BY <1>0, <1>2, <1>3, OverFacts
  <2>2. Used' = Used
    BY <2>1 DEF Used
  <2> QED BY <1>0, <1>1, <2>2 DEF Counted
<1>7. ASSUME NEW m \in Matches PROVE MatchOK(m)'
  <2>0. MatchOK(m)
    BY DEF IInv
  <2>1. CASE m \in lost
    <3>1. \A p \in Players : party'[p] = m /\ match[m].state = "popped" => FALSE
      BY <1>1, <2>0 DEF MatchOK, Bound
    <3>2. match[m].state # "popped" => match[m].host \notin up'
      BY <2>1 DEF Stop, lost
    <3>3. \A p \in Players : party'[p] = m => match[m].state # "forming"
      BY <1>1, <2>0 DEF MatchOK, Bound
    <3> QED BY <1>0, <1>2, <1>3, <2>0, <2>1, <3>1, <3>2, <3>3, OverOK
  <2>2. CASE m \notin lost
    <3>1. match'[m] = match[m] /\ seat'[m] = seat[m] /\ leaving'[m] = leaving[m] /\ match[m].local \subseteq Players
      BY <1>0, <1>2, <2>2 DEF TypeOK
    <3>2. up' \subseteq up
      BY DEF Stop
    <3> QED BY <1>1, <2>0, <3>1, <3>2, OtherMatch
  <2> QED BY <2>1, <2>2
<1> QED BY <1>4, <1>5, <1>6, <1>7 DEF IInv

---------------------------------------------------------------------------
(* Every step. *)

LEMMA NextIInv == ASSUME IInv, [Next]_vars PROVE IInv' /\ Fair
<1>1. ASSUME UNCHANGED vars PROVE IInv' /\ Fair
  <2>1. UNCHANGED <<queue, entry, joins, match, seat, leaving, party, up>> /\ TypeOK'
    BY <1>1 DEF vars, redis, bounds, IInv, TypeOK
  <2> QED BY <2>1, QuietStep, QueueKept
<1>2. ASSUME NEW m \in Matches, Matching(m) \/ AnnounceLost(m) \/ FormFails(m) PROVE IInv' /\ Fair
  <2>1. queue' = queue
    BY <1>2 DEF Matching, Announce, Form, Start, ReleaseSeats, AnnounceLost, FormFails, redis
  <2>2. IInv'
    BY <1>2, AnnounceIInv, FormIInv, StartIInv, ReleaseSeatsIInv, AnnounceLostIInv, FormFailsIInv
       DEF Matching
  <2> QED BY <2>1, <2>2, QueueKept
<1>3. ASSUME NEW m \in Matches, NEW p \in Players, LeaveMatched(p, m) \/ Cross(p, m) \/ LeaveRun(p, m)
      PROVE  IInv' /\ Fair
  <2>1. queue' = queue
    BY <1>3 DEF LeaveMatched, Cross, LeaveRun, redis
  <2> QED BY <1>3, <2>1, LeaveMatchedIInv, CrossIInv, LeaveRunIInv, QueueKept
<1>4. ASSUME NEW d \in Pods, Pop(d) PROVE IInv' /\ Fair
  BY <1>4, PopStep
<1>5. ASSUME NEW d \in Pods, Beat(d) \/ Lapse(d) \/ Stop(d) PROVE IInv' /\ Fair
  <2>1. queue' = queue
    BY <1>5 DEF Beat, Lapse, Stop, redis
  <2> QED BY <1>5, <2>1, BeatIInv, LapseIInv, StopIInv, QueueKept
<1>6. ASSUME NEW p \in Players, NEW d \in Pods, FindGame(p, d) \/ Dequeue(p, d) PROVE IInv' /\ Fair
  BY <1>6, FindGameStep, DequeueStep
<1>7. ASSUME NEW p \in Players, NEW d \in Pods,
             AskLeave(p, d) \/ DequeueGivesUp(p, d) \/ Depart(p, d) \/ Arrive(p, d)
      PROVE  IInv' /\ Fair
  <2>1. queue' = queue
    BY <1>7 DEF AskLeave, DequeueGivesUp, Depart, Arrive, redis
  <2> QED BY <1>7, <2>1, AskLeaveIInv, DequeueGivesUpIInv, DepartIInv, ArriveIInv, QueueKept
<1> HIDE DEF Fair, IInv
<1> QED BY <1>1, <1>2, <1>3, <1>4, <1>5, <1>6, <1>7 DEF Next, Loops

---------------------------------------------------------------------------
(* The theorems. *)

THEOREM Invariance == Spec => []IInv
<1>1. IInv /\ [Next]_vars => IInv'
  BY NextIInv
<1> QED BY <1>1, InitIInv, PTL DEF Spec

(* Every variable keeps its type (TypeOK). *)
THEOREM TypeCorrect == Spec => []TypeOK
BY Invariance, PTL DEF IInv

(* The list in Redis and the entries agree, whatever pods race, stop or are
   late (ListAgrees): a popped player always has an entry, and nobody waits
   for a place the list has lost. *)
THEOREM ListAgreesCorrect == Spec => []ListAgrees
BY Invariance, PTL DEF IInv

(* Nobody is in two runs, seated or expected, unless a run was opened without
   knowing whether its party was made (OneRunEach). *)
THEOREM OneRunEachCorrect == Spec => []OneRunEach
<1>1. IInv => OneRunEach
  <2> SUFFICES ASSUME IInv, NEW p \in Players, NEW m \in Matches, NEW n \in Matches,
                      InRun(p, m), InRun(p, n), "unknown" \notin {match[m].answer, match[n].answer}
               PROVE  m = n
    BY DEF OneRunEach
  <2>1. ASSUME NEW o \in Matches, InRun(p, o), match[o].answer # "unknown"
        PROVE  party[p] = o
    BY <2>1 DEF InRun, Seated, Expected, IInv, MatchOK, Answers, Held
  <2> QED BY <2>1
<1> QED BY <1>1, Invariance, PTL

(* Nobody comes home in a matched party without their release owed: a
   member whom the run does not hold, because the match failed, their seat
   was released or they left, is on the host's list of removals while the
   host runs (what PartyLetsGo waits for). *)
THEOREM StrandedAreOwed ==
    Spec => [](\A p \in Stranded : p \in leaving[party[p]])
<1>1. IInv => \A p \in Stranded : p \in leaving[party[p]]
  BY DEF IInv, MatchOK, Bound, Stranded
<1> QED BY <1>1, Invariance, PTL

(* Waiting is fair (KeepsPlace): those who wait keep their order, newcomers
   come behind, and a player leaves the list only into a match, by a removal
   asked for them, or because their pod's key had lapsed. *)
THEOREM KeepsPlaceCorrect == Spec => KeepsPlace
<1>1. IInv /\ [Next]_vars => [Fair]_vars
  BY NextIInv
<1> QED BY <1>1, Invariance, PTL DEF Spec, KeepsPlace, Fair

=============================================================================
