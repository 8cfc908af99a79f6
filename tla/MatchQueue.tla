----------------------------- MODULE MatchQueue -----------------------------
(***************************************************************************)
(* Finding a delve across pods (FS-K2HKP, FS-988SM).  Players queue in     *)
(* Redis with the pod that holds them; every pod runs a matcher that pops  *)
(* a group by one script and announces it to the first player's pod, the   *)
(* host.  The host makes the group a party by another script, then opens   *)
(* the run: its own players walk in, those of other pods are handed over   *)
(* to take the seats kept for them.  Each step is another pod's, goroutine *)
(* or player's, and pods die.                                              *)
(*                                                                         *)
(* A pod's id is new at every start (config/pod.go), so a pod that died    *)
(* does not come back.  A player inside the reconnect grace is present.    *)
(* What a player asks without effect (a second find_game) is left out, as  *)
(* are parties that were not matched.                                      *)
(***************************************************************************)
EXTENDS Integers, FiniteSets, Sequences, SequencesExt

CONSTANTS
    Players, Pods, None,
    Home,          \* Home[p]: the pod p connects to first
    Matches,       \* numbers for the groups popped
    MatchSize,
    MaxJoins,      \* bound: find_game sent
    Mortal,        \* bound: the pods that may stop or be late
    Fickle,        \* bound: the players who may leave the queue, or go, on a whim
    MaxTrouble     \* bound: how often any of these or a call fails, or one of those leaves

ASSUME MatchQueueConstants ==
    /\ None \notin Pods /\ Mortal \subseteq Pods /\ Fickle \subseteq Players /\ Home \in [Players -> Pods]
    /\ IsFiniteSet(Matches) /\ 0 \notin Matches
    /\ MatchSize \in Nat \ {0} /\ MaxTrouble \in Nat
    /\ MaxJoins \in 0 .. MatchSize * (Cardinality(Matches) + 1) - 1

VARIABLES
    queue,     \* the list in Redis
    entry,     \* entry[p]: the pod in p's queue entry, or None
    beat,      \* the pods whose liveness key stands
    up,        \* the pods that run
    at,        \* at[p]: the pods with a record of p
    dequeues,  \* dequeues[d]: players pod d is still taking out of the queue
    match,     \* match[m]: how far a popped group has come
    seat,      \* seat[m][p]: p's place in m's run
    party,     \* party[p]: the match whose party p is in, or 0
    leaving,   \* leaving[m]: members m's host is still taking out of m's party
    joins, trouble

redis == <<queue, entry, beat, party>>
bounds == <<joins, trouble>>
vars == <<redis, up, at, dequeues, match, seat, leaving, bounds>>

-----------------------------------------------------------------------------
NoMatch == [state |-> "none", by |-> None, host |-> None, pod |-> [p \in Players |-> None],
            local |-> {}, answer |-> "none", released |-> FALSE]

Init ==
    /\ queue = <<>> /\ entry = [p \in Players |-> None]
    /\ beat = Pods /\ up = Pods
    /\ at = [p \in Players |-> {Home[p]}]
    /\ dequeues = [d \in Pods |-> {}]
    /\ match = [m \in Matches |-> NoMatch]
    /\ seat = [m \in Matches |-> [p \in Players |-> "none"]]
    /\ leaving = [m \in Matches |-> {}]
    /\ party = [p \in Players |-> 0]
    /\ joins = 0 /\ trouble = 0

Fails == trouble < MaxTrouble /\ trouble' = trouble + 1
Calm == UNCHANGED trouble

Group(m) == {p \in Players : match[m].pod[p] # None}
Open(m) == match[m].state = "open"
Seated(m) == {p \in Players : seat[m][p] = "seated"}
Expected(m) == {p \in Players : seat[m][p] = "expected"}
InRun(p, m) == Open(m) /\ p \in Seated(m) \cup Expected(m)
InTown(p, d) == d \in at[p] /\ \A m \in Matches : match[m].host = d /\ Open(m) => p \notin Seated(m)
Listed(p) == Contains(queue, p)

\* the queue scripts ------------------------------------------------------

\* plausible bug: a player whose leftover is replaced is pushed again
PushedAgain(p) == Append(queue, p)

\* they keep their place if they are still in the list
Placed(p) == IF Listed(p) THEN queue ELSE Append(queue, p)

\* find_game from town, by a player no party the pod keeps holds; a leftover of a dead pod is
\* replaced in its place in the list, a live entry refuses the second ask
FindGame(p, d) ==
    /\ joins < MaxJoins /\ d \in up /\ InTown(p, d) /\ entry[p] \notin beat
    /\ ~(party[p] # 0 /\ match[party[p]].host = d /\ match[party[p]].answer = "made")
    /\ entry' = [entry EXCEPT ![p] = d]
    /\ queue' = Placed(p)
    /\ joins' = joins + 1
    /\ UNCHANGED <<beat, party, up, at, dequeues, match, seat, leaving, trouble>>

\* leave_queue: the removal runs off the hub's loop
AskLeave(p, d) ==
    /\ d \in up /\ d \in at[p] /\ entry[p] # None /\ p \in Fickle /\ Fails
    /\ dequeues' = [dequeues EXCEPT ![d] = @ \cup {p}]
    /\ UNCHANGED <<redis, up, at, match, seat, leaving, joins>>

\* s without p, wherever p stands in it
Without(s, p) ==
    LET kept == {i \in DOMAIN s : s[i] # p}
    IN  [j \in 1 .. Cardinality(kept) |->
            s[CHOOSE i \in kept : Cardinality({k \in kept : k < i}) = j - 1]]

\* the script names the player alone, whichever pod's entry stands by now
Dequeue(p, d) ==
    /\ p \in dequeues[d]
    /\ dequeues' = [dequeues EXCEPT ![d] = @ \ {p}]
    /\ entry' = [entry EXCEPT ![p] = None]
    /\ queue' = Without(queue, p)
    /\ UNCHANGED <<beat, party, up, at, match, seat, leaving, bounds>>

\* five tries that failed
DequeueGivesUp(p, d) ==
    /\ p \in dequeues[d] /\ Fails
    /\ dequeues' = [dequeues EXCEPT ![d] = @ \ {p}]
    /\ UNCHANGED <<redis, up, at, match, seat, leaving, joins>>

\* a popped player whose pod has no key
Dead(group) == SelectInSeq(group, LAMBDA p : entry[p] \notin beat)

\* plausible bugs: the survivors go to the tail, the dropped player is kept
SurvivorsBehind(group, dead, rest) == rest \o RemoveAt(group, dead)
SurvivorsAndDead(group, dead, rest) == RemoveAt(group, dead) \o rest \o <<group[dead]>>

Survivors(group, dead, rest) == RemoveAt(group, dead) \o rest

\* exactly MatchSize players or none; the first of a dead pod is dropped, the rest go back in front
Pop(d) ==
    LET group == SubSeq(queue, 1, MatchSize)
        rest == SubSeq(queue, MatchSize + 1, Len(queue))
        dead == Dead(group)
        m == CHOOSE n \in Matches : match[n].state = "none"
    IN  /\ d \in up /\ Len(queue) >= MatchSize
        /\ IF dead # 0
             THEN /\ queue' = Survivors(group, dead, rest)
                  /\ entry' = [entry EXCEPT ![group[dead]] = None]
                  /\ UNCHANGED match
             ELSE /\ queue' = rest
                  /\ entry' = [p \in Players |-> IF Contains(group, p) THEN None ELSE entry[p]]
                  /\ match' = [match EXCEPT ![m] = [NoMatch EXCEPT
                         !.state = "popped", !.by = d, !.host = entry[group[1]],
                         !.pod = [p \in Players |-> IF Contains(group, p) THEN entry[p] ELSE None]]]
        /\ UNCHANGED <<beat, party, up, at, dequeues, seat, leaving, bounds>>

\* the announcement and the host ------------------------------------------

To(m, state) == [match[m] EXCEPT !.state = state]

\* of a match that is over only the host and its party are remembered
Over(m) == [NoMatch EXCEPT !.state = "over", !.host = match[m].host, !.answer = match[m].answer]

Becomes(m, it) == match' = [match EXCEPT ![m] = it]

\* Published on the host's channel: with nobody subscribed the group is only logged.  The host's
\* hub tells its own players, connected still, from those of other pods
Announce(m) ==
    LET local == {p \in Group(m) : match[m].pod[p] = match[m].host /\ match[m].host \in at[p]}
    IN  /\ match[m].state = "popped"
        /\ Becomes(m, IF match[m].host \in up /\ local # {}
                         THEN [To(m, "forming") EXCEPT !.by = None, !.local = local]
                         ELSE Over(m))
        /\ UNCHANGED <<redis, up, at, dequeues, seat, leaving, bounds>>

\* the publish fails, the channel's buffer is full for a second, or the hub busy for five
AnnounceLost(m) ==
    /\ match[m].state = "popped" /\ Fails
    /\ Becomes(m, Over(m))
    /\ UNCHANGED <<redis, up, at, dequeues, seat, leaving, joins>>

Remote(m) == {p \in Group(m) : match[m].pod[p] # match[m].host}
Joiners(m) == match[m].local \cup Remote(m)
Joined(m) == [p \in Players |-> IF p \in Joiners(m) THEN m ELSE party[p]]

\* plausible bug: only the host's own players are looked up
LocalInParty(m) == \E p \in match[m].local : party[p] # 0

InParty(m) == \E p \in Joiners(m) : party[p] # 0

\* create_matched, all or nothing
Form(m) ==
    /\ match[m].state = "forming"
    /\ \/ /\ InParty(m)
          /\ Becomes(m, [To(m, "formed") EXCEPT !.answer = "taken"])
          /\ UNCHANGED party
       \/ /\ ~InParty(m)
          /\ Becomes(m, [To(m, "formed") EXCEPT !.answer = "made"])
          /\ party' = Joined(m)
    /\ UNCHANGED <<queue, entry, beat, up, at, dequeues, seat, leaving, bounds>>

\* Redis answers with an error: the script may have committed before the call gave up
FormFails(m) ==
    /\ match[m].state = "forming" /\ Fails
    /\ Becomes(m, [To(m, "formed") EXCEPT !.answer = "unknown"])
    /\ \/ UNCHANGED party
       \/ ~InParty(m) /\ party' = Joined(m)
    /\ UNCHANGED <<queue, entry, beat, up, at, dequeues, seat, leaving, joins>>

\* plausible bug: a failed match lets only its own players go
LetGoLocal(m) == match[m].local

\* the members of a party made for a run that never was
LetGo(m) == Joiners(m)

\* a match cancelled, or a run opened for those still in town and seats kept for the others
Start(m) ==
    LET present == {p \in match[m].local : InTown(p, match[m].host)}
    IN  /\ match[m].state = "formed"
        /\ IF match[m].answer = "taken"
             THEN Becomes(m, Over(m)) /\ UNCHANGED <<seat, leaving>>
             ELSE IF present = {}
             THEN /\ Becomes(m, Over(m))
                  /\ leaving' = [leaving EXCEPT ![m] = LetGo(m)]
                  /\ UNCHANGED seat
             ELSE /\ Becomes(m, [To(m, "open") EXCEPT !.local = {}])
                  /\ seat' = [seat EXCEPT ![m] = [p \in Players |->
                         IF p \in present THEN "seated" ELSE IF p \in Remote(m) THEN "expected" ELSE "none"]]
                  /\ leaving' = [leaving EXCEPT ![m] = match[m].local \ present]
        /\ UNCHANGED <<redis, up, at, dequeues, bounds>>

\* The handoff letter told the player where to go, or was lost and they stay: SeatArrival, on the
\* new socket.  The old one is closed afterwards (Depart)
Cross(p, m) ==
    /\ Open(m) /\ p \in Expected(m) /\ match[m].pod[p] \in at[p]
    /\ seat' = [seat EXCEPT ![m][p] = "seated"]
    /\ at' = [at EXCEPT ![p] = @ \cup {match[m].host}]
    /\ UNCHANGED <<redis, up, dequeues, match, leaving, bounds>>

\* leaving a run ----------------------------------------------------------

\* members gone from m's run are owed their removal from its party; a run that is empty, or its
\* last delver gone, ends, and everyone still on its roster goes with it
Gone(m, ps, ends) ==
    /\ seat' = [seat EXCEPT ![m] = [p \in Players |-> IF ends \/ p \in ps THEN "none" ELSE @[p]]]
    /\ leaving' = [leaving EXCEPT ![m] = @ \cup ps \cup
           (IF ends THEN {p \in Players : seat[m][p] # "none"} ELSE {})]
    /\ Becomes(m, IF ends THEN Over(m) ELSE match[m])

\* once, when the seats' deadline has passed
ReleaseSeats(m) ==
    /\ Open(m) /\ ~match[m].released
    /\ LET ends == Seated(m) = {}
       IN  /\ seat' = [seat EXCEPT ![m] = [p \in Players |-> IF @[p] = "expected" THEN "none" ELSE @[p]]]
           /\ leaving' = [leaving EXCEPT ![m] = @ \cup Expected(m)]
           /\ Becomes(m, IF ends THEN Over(m) ELSE [match[m] EXCEPT !.released = TRUE])
    /\ UNCHANGED <<redis, up, at, dequeues, bounds>>

\* a delver goes home to the host's town; the run ends with its last
LeaveRun(p, m) ==
    /\ Open(m) /\ p \in Seated(m)
    /\ Gone(m, {p}, Seated(m) = {p})
    /\ UNCHANGED <<redis, up, at, dequeues, bounds>>

\* the remove script, of that party only; a removal that failed is tried again each tick
LeaveMatched(p, m) ==
    /\ p \in leaving[m]
    /\ leaving' = [leaving EXCEPT ![m] = @ \ {p}]
    /\ party' = [party EXCEPT ![p] = IF @ = m THEN 0 ELSE @]
    /\ UNCHANGED <<queue, entry, beat, up, at, dequeues, match, seat, bounds>>

\* players and pods -------------------------------------------------------

\* a socket closed for good, or the grace after a drop run out: the pod forgets the player
Depart(p, d) ==
    /\ d \in at[p]
    /\ at[p] = {d} => p \in Fickle /\ Fails
    /\ at[p] # {d} => Calm
    /\ at' = [at EXCEPT ![p] = @ \ {d}]
    /\ dequeues' = [dequeues EXCEPT ![d] = @ \cup {p}]
    /\ LET runs == {m \in Matches : Open(m) /\ match[m].host = d /\ p \in Seated(m)}
       IN  IF runs = {} THEN UNCHANGED <<match, seat, leaving>>
           ELSE \E m \in runs : Gone(m, {p}, Seated(m) = {p})
    /\ UNCHANGED <<redis, up, joins>>

Arrive(p, d) ==
    /\ at[p] = {} /\ d \in up
    /\ at' = [at EXCEPT ![p] = {d}]
    /\ UNCHANGED <<redis, up, dequeues, match, seat, leaving, joins, trouble>>

\* a key lapses, its pod dead, or alive and late for three beats
Lapse(d) ==
    /\ d \in beat
    /\ d \in up => d \in Mortal /\ Fails
    /\ d \notin up => Calm
    /\ beat' = beat \ {d}
    /\ UNCHANGED <<queue, entry, party, up, at, dequeues, match, seat, leaving, joins>>

Beat(d) ==
    /\ d \in up \ beat
    /\ beat' = beat \cup {d}
    /\ UNCHANGED <<queue, entry, party, up, at, dequeues, match, seat, leaving, bounds>>

\* a pod goes, and with it all it held; the key lapses, or a graceful stop deletes it at once (Lapse)
Stop(d) ==
    LET here == {m \in Matches : match[m].host = d /\ match[m].state # "popped"}
        lost == here \cup {m \in Matches : match[m].state = "popped" /\ match[m].by = d}
    IN  /\ d \in up \cap Mortal /\ Fails
        /\ up' = up \ {d}
        /\ at' = [p \in Players |-> at[p] \ {d}]
        /\ dequeues' = [dequeues EXCEPT ![d] = {}]
        /\ match' = [m \in Matches |-> IF m \in lost THEN Over(m) ELSE match[m]]
        /\ seat' = [m \in Matches |-> IF m \in lost THEN [p \in Players |-> "none"] ELSE seat[m]]
        /\ leaving' = [m \in Matches |-> IF m \in lost THEN {} ELSE leaving[m]]
        /\ UNCHANGED <<redis, joins>>

-----------------------------------------------------------------------------
Matching(m) ==
    Announce(m) \/ Form(m) \/ Start(m) \/ ReleaseSeats(m)

\* what the pods' loops go on with by themselves, and Redis with a dead pod's key
Loops ==
    \/ \E m \in Matches : Matching(m) \/ (\E p \in Players : LeaveMatched(p, m))
    \/ \E d \in Pods : Pop(d) \/ Beat(d) \/ (d \notin up /\ Lapse(d)) \/ (\E p \in Players : Dequeue(p, d))

Next ==
    \/ Loops
    \/ \E p \in Players, d \in Pods :
          FindGame(p, d) \/ AskLeave(p, d) \/ DequeueGivesUp(p, d) \/ Depart(p, d) \/ Arrive(p, d)
    \/ \E p \in Players, m \in Matches : Cross(p, m) \/ LeaveRun(p, m)
    \/ \E m \in Matches : AnnounceLost(m) \/ FormFails(m)
    \/ \E d \in Pods : (d \in up /\ Lapse(d)) \/ Stop(d)

\* the loops of the pods that run do not all stand still; players and failures owe nothing
Fairness == WF_vars(Loops)

Spec == Init /\ [][Next]_vars
LiveSpec == Spec /\ Fairness
-----------------------------------------------------------------------------
SeatStates == {"none", "expected", "seated"}
MatchStates == {"none", "popped", "forming", "formed", "open", "over"}

\* every variable has its type
TypeOK ==
    /\ queue \in Seq(Players) /\ entry \in [Players -> Pods \cup {None}]
    /\ beat \subseteq Pods /\ up \subseteq Pods /\ at \in [Players -> SUBSET Pods]
    /\ dequeues \in [Pods -> SUBSET Players]
    /\ match \in [Matches -> [state : MatchStates, by : Pods \cup {None}, host : Pods \cup {None},
                              pod : [Players -> Pods \cup {None}], local : SUBSET Players,
                              answer : {"none", "made", "taken", "unknown"},
                              released : BOOLEAN]]
    /\ seat \in [Matches -> [Players -> SeatStates]]
    /\ leaving \in [Matches -> SUBSET Players]
    /\ party \in [Players -> Matches \cup {0}]
    /\ joins \in Nat /\ trouble \in Nat

\* The list and the entries agree whatever pods race and die: a player is in the list once, and
\* exactly while they have an entry.  So the matchmake script's branch for a popped player with no
\* entry ("CORRUPTED DATA") is never taken, and nobody waits for a place the list has lost.
ListAgrees ==
    /\ \A i, j \in DOMAIN queue : queue[i] = queue[j] => i = j
    /\ \A p \in Players : Listed(p) <=> entry[p] # None

\* No player is in two runs at once, seated or expected, however often they queue again while a
\* match of theirs is on its way: the matched party decides it (FS-988SM R8).  Only a run opened
\* without knowing whether its party was made (R9) may break it.
OneRunEach ==
    \A p \in Players, m, n \in Matches :
        m # n /\ InRun(p, m) /\ InRun(p, n) => "unknown" \in {match[m].answer, match[n].answer}

\* Waiting is fair (FS-K2HKP R12, R13): players who stay queued never change order, those who join
\* come behind them, and a player leaves the list only into a match, by a removal asked for them,
\* or because their pod's key had lapsed.
KeepsPlace == [][
    /\ \A i, j \in DOMAIN queue' : i < j /\ Listed(queue'[j]) =>
          \E k, l \in DOMAIN queue : k < l /\ queue[k] = queue'[i] /\ queue[l] = queue'[j]
    /\ \A p \in Players : Listed(p) /\ ~Listed(p)' =>
          \/ \E m \in Matches : p \in Group(m)' \ Group(m)
          \/ \E d \in Pods : p \in dequeues[d]
          \/ entry[p] \notin beat
    ]_vars

\* A group's worth of players does not wait for ever while a pod runs: dead pods' players, at the
\* head as well, are worked off.
QueueMoves == (Len(queue) >= MatchSize) ~> (Len(queue) < MatchSize \/ up = {})

\* Nobody comes home in a matched party (FS-988SM R8a, R11): a member its run does not hold, because
\* the match failed, their seat was released or they left, is let go, unless the host died.
Stranded ==
    {p \in Players : \E m \in Matches :
        party[p] = m /\ match[m].state \in {"open", "over"} /\ ~InRun(p, m) /\ match[m].host \in up}
PartyLetsGo == (Stranded # {}) ~> (Stranded = {})
=============================================================================
