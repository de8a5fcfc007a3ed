-------------------------- MODULE OperationsProofs ----------------------------
(***************************************************************************)
(* The theorems about what runs behind and beside a departure: EventBus, the*)
(* log of events and its consumers, Boarding, at the door of the bus, TripOps,*)
(* the status of a trip and its alerts, Promo, the coupons, Partners, the   *)
(* deliveries to partners, and Risk, the rules and their alerts, each for every*)
(* value of its constants.  The parts share no state.                       *)
(***************************************************************************)
EXTENDS EventBus, Boarding, TripOps, Promo, Partners, Risk, DataProofs, SequenceTheorems

-----------------------------------------------------------------------------
(* EventBus                                                                 *)

Walks == [at : {"walking"}, todo : Seq(Events), tries : 1 .. Attempts, last : Nat]
DispatchRuns == [at : {"start", "send", "mark", "ok", "error"}, e : Events, rank : Nat,
                 sent : BOOLEAN]
ProviderRows == [down : BOOLEAN, streak : 0 .. Streak, cooling : BOOLEAN]
EventsPages  == [dead : SUBSET Events, error : BOOLEAN, draining : BOOLEAN]
NoticesPages == [down : SUBSET Ranks, log : SUBSET Events, error : BOOLEAN]
Letters  == {"none", "open", "resolved"}
Notices  == {"none", "QUEUED", "SENT", "FAILED", "SUPPRESSED"}

\* A number is given once: the events that are relayed are in the outbox, each in one
\* transaction, and those in the log are not.
LogSound ==
    /\ IsFiniteSet(logged) /\ pending \cap logged = {}
    /\ \A r \in Relays : relaying[r] # NoEvent => relaying[r] \in pending
    /\ \A q, r \in Relays : relaying[q] = relaying[r] => q = r \/ relaying[r] = NoEvent
    /\ \A e \in Events : offset[e] <= lastOffset
    /\ \A d, e \in Events : offset[d] = offset[e] => d = e \/ offset[e] = 0

\* Who has a run at sending has the row, and has it alone: the key of the row is the
\* event.  A row is there once the run is past it.
RunsHonest ==
    /\ \A w \in Workers :
         LET at == worker[w].at
             e  == worker[w].e
         IN  /\ at \in {"start", "send"} => ~ worker[w].sent
             /\ at \in {"send", "mark"} =>
                   notice[e] = "QUEUED" /\ told[e] = IF worker[w].sent THEN 1 ELSE 0
             /\ at = "ok" => notice[e] # "none"
    /\ worker["walk"].at \in {"send", "mark"} /\ worker["replay"].at \in {"send", "mark"} =>
          worker["walk"].e # worker["replay"].e

ToldByNotice == \A e \in Events : notice[e] = "none" => told[e] = 0

Accounted(e) == notice[e] # "none" \/ dead[e] # "none" \/ e \in late
ToHandle == {walk.todo[i] : i \in 1 .. Len(walk.todo)}

\* The walk: what lies under its end was handled, or is still on its list; what it
\* handles is the first of that list.
WalkSound ==
    /\ Walking => /\ position <= walk.last /\ walk.last <= lastOffset
                  /\ \A e \in logged : offset[e] <= walk.last => Accounted(e) \/ e \in ToHandle
    /\ worker["walk"] # NoRun => Walking /\ walk.todo # <<>> /\ worker["walk"].e = Head(walk.todo)

BusSound == /\ BusTypeOK /\ LogSound /\ RunsHonest /\ ToldByNotice /\ ToldOnce
            /\ WalkSound /\ PassedIsAccountedFor


-----------------------------------------------------------------------------
(* InOrder lists a finite set of numbered events                            *)

\* How many of S are numbered up to e.
Upto(e, S) == {d \in S : offset[d] <= offset[e]}
Rank(e, S) == Cardinality(Upto(e, S))

\* Events with different numbers have different ranks, in the same order.
LEMMA RanksDiffer ==
    ASSUME NEW S, IsFiniteSet(S), \A e \in S : offset[e] \in Nat,
           NEW d \in S, NEW e \in S, offset[d] < offset[e]
    PROVE  Rank(d, S) < Rank(e, S)
<1>1. Upto(d, S) \in SUBSET Upto(e, S) /\ Upto(e, S) \in SUBSET S
  BY DEF Upto
<1>2. e \in Upto(e, S) /\ e \notin Upto(d, S)
  BY DEF Upto
<1>3. IsFiniteSet(Upto(e, S)) /\ IsFiniteSet(Upto(d, S))
  BY <1>1, FS_Subset
<1>4. Cardinality(Upto(d, S)) \in Nat /\ Cardinality(Upto(e, S)) \in Nat
  BY <1>3, FS_CardinalityType
<1>5. /\ Cardinality(Upto(d, S)) <= Cardinality(Upto(e, S))
      /\ Cardinality(Upto(e, S)) = Cardinality(Upto(d, S)) => Upto(e, S) = Upto(d, S)
  BY <1>1, <1>3, FS_Subset
<1> QED BY <1>2, <1>4, <1>5 DEF Rank

LEMMA RankInRange ==
    ASSUME NEW S, IsFiniteSet(S), NEW e \in S, offset[e] \in Nat
    PROVE  Rank(e, S) \in 1 .. Cardinality(S)
<1>1. Upto(e, S) \in SUBSET S /\ e \in Upto(e, S)
  BY DEF Upto
<1>2. /\ IsFiniteSet(Upto(e, S)) /\ Cardinality(Upto(e, S)) <= Cardinality(S)
  BY <1>1, FS_Subset
<1>3. Cardinality(Upto(e, S)) \in Nat /\ Cardinality(S) \in Nat
  BY <1>2, FS_CardinalityType
<1>4. Cardinality(Upto(e, S)) # 0
  BY <1>1, <1>2, FS_EmptySet
<1> QED BY <1>2, <1>3, <1>4 DEF Rank

\* So there is a list in the order of the numbers, and it leaves nothing out.
LEMMA OrderExists ==
    ASSUME NEW S, IsFiniteSet(S), \A e \in S : offset[e] \in Nat,
           \A d, e \in S : offset[d] = offset[e] => d = e
    PROVE  \E q \in [1 .. Cardinality(S) -> S] :
              \A i, j \in DOMAIN q : i < j => offset[q[i]] < offset[q[j]]
<1> DEFINE n == Cardinality(S)
           f == [e \in S |-> Rank(e, S)]
<1>1. n \in Nat /\ IsFiniteSet(1 .. n) /\ Cardinality(1 .. n) = n
  <2>1. n \in Nat
    BY FS_CardinalityType
  <2> HIDE DEF n
  <2>2. IsFiniteSet(1 .. n) /\ Cardinality(1 .. n) = IF 1 > n THEN 0 ELSE n - 1 + 1
    BY <2>1, FS_Interval
  <2> QED BY <2>1, <2>2
<1>2. \A e \in S : Rank(e, S) \in 1 .. n
  BY RankInRange
<1>3. \A d, e \in S : Rank(d, S) = Rank(e, S) => d = e
  <2> SUFFICES ASSUME NEW d \in S, NEW e \in S, d # e PROVE Rank(d, S) # Rank(e, S)
    OBVIOUS
  <2>1. Rank(d, S) \in Int /\ Rank(e, S) \in Int
    <3> HIDE DEF n
    <3> QED BY <1>1, <1>2
  <2>2. offset[d] < offset[e] \/ offset[e] < offset[d]
    <3>1. offset[d] \in Nat /\ offset[e] \in Nat /\ offset[d] # offset[e]
      OBVIOUS
    <3> QED BY <3>1
  <2>3. CASE offset[d] < offset[e]
    BY <2>1, <2>3, RanksDiffer
  <2>4. CASE offset[e] < offset[d]
    BY <2>1, <2>4, RanksDiffer
  <2> QED BY <2>2, <2>3, <2>4
<1>4. f \in Injection(S, 1 .. n)
  BY <1>2, <1>3 DEF Injection, IsInjective
<1>5. f \in Surjection(S, 1 .. n)
  <2> HIDE DEF f
  <2> QED BY <1>1, <1>4, FS_Injection
<1>6. \A i \in 1 .. n : \E e \in S : Rank(e, S) = i
  BY <1>5 DEF Surjection
<1> DEFINE q == [i \in 1 .. n |-> CHOOSE e \in S : Rank(e, S) = i]
<1>7. \A i \in 1 .. n : q[i] \in S /\ Rank(q[i], S) = i
  <2> SUFFICES ASSUME NEW i \in 1 .. n PROVE q[i] \in S /\ Rank(q[i], S) = i
    OBVIOUS
  <2>1. \E e \in S : Rank(e, S) = i
    BY <1>6
  <2> QED BY <2>1
<1>8. q \in [1 .. n -> S] /\ DOMAIN q = 1 .. n
  BY <1>7
<1>9. ASSUME NEW i \in 1 .. n, NEW j \in 1 .. n, i < j PROVE offset[q[i]] < offset[q[j]]
  <2>1. q[i] \in S /\ q[j] \in S /\ Rank(q[i], S) = i /\ Rank(q[j], S) = j /\ i # j /\ ~ (j < i)
    <3> HIDE DEF q
    <3> QED BY <1>7, <1>9, <1>1
  <2> HIDE DEF q
  <2>2. offset[q[i]] \in Nat /\ offset[q[j]] \in Nat /\ offset[q[i]] # offset[q[j]]
    BY <2>1
  <2>3. ~ (offset[q[j]] < offset[q[i]])
    BY <2>1, RanksDiffer
  <2> QED BY <2>2, <2>3
<1> HIDE DEF q
<1> QED BY <1>8, <1>9

LEMMA InOrderLists ==
    ASSUME NEW S, IsFiniteSet(S), \A e \in S : offset[e] \in Nat,
           \A d, e \in S : offset[d] = offset[e] => d = e
    PROVE  /\ InOrder(S) \in Seq(S) /\ Len(InOrder(S)) = Cardinality(S)
           /\ \A e \in S : \E i \in 1 .. Len(InOrder(S)) : InOrder(S)[i] = e
<1> DEFINE n == Cardinality(S)
           q == InOrder(S)
<1>1. n \in Nat /\ IsFiniteSet(1 .. n) /\ Cardinality(1 .. n) = n
  <2>1. n \in Nat
    BY FS_CardinalityType
  <2> HIDE DEF n
  <2>2. IsFiniteSet(1 .. n) /\ Cardinality(1 .. n) = IF 1 > n THEN 0 ELSE n - 1 + 1
    BY <2>1, FS_Interval
  <2> QED BY <2>1, <2>2
<1>2. q \in [1 .. n -> S] /\ \A i, j \in DOMAIN q : i < j => offset[q[i]] < offset[q[j]]
  BY OrderExists DEF InOrder
<1> HIDE DEF q
<1>3. q \in Injection(1 .. n, S)
  <2>1. ASSUME NEW i \in 1 .. n, NEW j \in 1 .. n, q[i] = q[j] PROVE i = j
    <3>1. q[i] \in S /\ q[j] \in S /\ offset[q[i]] \in Nat
      BY <1>2
    <3>2. ~ (i < j) /\ ~ (j < i)
      BY <1>2, <2>1, <3>1
    <3> QED BY <3>2, <1>1
  <2> QED BY <1>2, <2>1 DEF Injection, IsInjective
<1>4. q \in Surjection(1 .. n, S)
  <2> DEFINE T == 1 .. n
  <2>1. IsFiniteSet(T) /\ Cardinality(T) = Cardinality(S) /\ q \in Injection(T, S)
    BY <1>1, <1>3
  <2> HIDE DEF T
  <2>2. q \in Surjection(T, S)
    BY <2>1, FS_Injection
  <2> QED BY <2>2 DEF T
<1>5. q \in Seq(S) /\ Len(q) = n
  <2> HIDE DEF n
  <2> QED BY <1>1, <1>2
<1> QED BY <1>4, <1>5 DEF Surjection, q


-----------------------------------------------------------------------------
(* The type                                                                 *)

LEMMA BusTypesSplit ==
    BusTypeOK <=>
      /\ pending \subseteq Events /\ logged \subseteq Events /\ late \subseteq logged
      /\ relaying \in [Relays -> Events \cup {NoEvent}]
      /\ offset \in [Events -> Nat] /\ lastOffset \in Nat /\ position \in 0 .. lastOffset
      /\ walk \in {Resting} \cup Walks
      /\ dead \in [Events -> Letters]
      /\ worker \in [Workers -> {NoRun} \cup DispatchRuns]
      /\ notice \in [Events -> Notices] /\ told \in [Events -> Nat]
      /\ provider \in [Ranks -> ProviderRows] /\ broke \in BOOLEAN
      /\ eventsPage \in EventsPages /\ noticesPage \in NoticesPages
      /\ mishaps \in 0 .. MaxMishaps
BY DEF BusTypeOK, Walks, DispatchRuns, ProviderRows, EventsPages, NoticesPages, Letters, Notices

LEMMA NewRun == ASSUME NEW e \in Events PROVE Run(e) \in DispatchRuns
BY DEF Run, DispatchRuns

LEMMA RestingIsNoWalk == NoRun \notin DispatchRuns /\ Resting \notin Walks
BY DEF NoRun, Resting, DispatchRuns, Walks

\* A run and a walk one can look into.
LEMMA RunParts ==
    ASSUME BusTypeOK, NEW w \in Workers, worker[w].at # "free"
    PROVE  /\ worker[w] \in DispatchRuns /\ worker[w].e \in Events /\ worker[w].rank \in Nat
           /\ worker[w].sent \in BOOLEAN /\ worker[w].at \in {"start", "send", "mark", "ok", "error"}
<1>1. worker[w] \in {NoRun} \cup DispatchRuns
  BY BusTypesSplit
<1>2. worker[w] \in DispatchRuns
  BY <1>1 DEF NoRun
<1> QED BY <1>2 DEF DispatchRuns

LEMMA WalkParts ==
    ASSUME BusTypeOK, Walking
    PROVE  /\ walk \in Walks /\ walk.todo \in Seq(Events) /\ walk.tries \in 1 .. Attempts
           /\ walk.last \in Nat
<1>1. walk \in Walks
  BY BusTypesSplit DEF Walking
<1> QED BY <1>1 DEF Walks

\* The batch ahead of the checkpoint, in its order.
LEMMA Batch ==
    ASSUME BusTypeOK, LogSound, Ahead # {}
    PROVE  LET todo == InOrder(Ahead)
           IN  /\ todo \in Seq(Events) /\ todo # <<>> /\ Len(todo) \in Nat \ {0}
               /\ \A e \in Ahead : \E i \in 1 .. Len(todo) : todo[i] = e
               /\ \A i \in 1 .. Len(todo) : todo[i] \in Ahead
<1> DEFINE S == Ahead
           q == InOrder(S)
<1>1. IsFiniteSet(S) /\ S \subseteq Events
  BY FS_Subset, BusTypesSplit DEF LogSound, Ahead
<1>2. /\ \A e \in S : offset[e] \in Nat
      /\ \A d, e \in S : offset[d] = offset[e] => d = e
  BY BusTypesSplit DEF LogSound, Ahead
<1>3. /\ q \in Seq(S) /\ Len(q) = Cardinality(S)
      /\ \A e \in S : \E i \in 1 .. Len(q) : q[i] = e
  <2> HIDE DEF S
  <2> QED BY <1>1, <1>2, InOrderLists
<1> HIDE DEF q, S
<1>4. S # {}
  BY DEF S
<1>5. Len(q) \in Nat \ {0} /\ q # <<>>
  BY <1>3, <1>4
<1>6. q \in Seq(Events) /\ \A i \in 1 .. Len(q) : q[i] \in S
  BY <1>1, <1>3
<1> QED BY <1>3, <1>5, <1>6 DEF q, S

LEMMA LogTypes == ASSUME BusTypeOK, LogNext PROVE BusTypeOK'
<1>0. /\ pending \subseteq Events /\ logged \subseteq Events /\ late \subseteq logged
      /\ relaying \in [Relays -> Events \cup {NoEvent}]
      /\ offset \in [Events -> Nat] /\ lastOffset \in Nat /\ position \in 0 .. lastOffset
  BY BusTypesSplit
<1>1. PICK r \in Relays : RelayCommits(r) \/ RelayStops(r) \/ \E e \in Events : RelayClaims(r, e)
  BY DEF LogNext
<1>2. UNCHANGED <<walkVars, worker, noticeVars, busPages>>
  BY <1>1 DEF RelayCommits, RelayStops, RelayClaims
<1>3. mishaps' \in 0 .. MaxMishaps
  <2>1. mishaps \in 0 .. MaxMishaps /\ MaxMishaps \in Nat
    BY BusTypesSplit, BusAssumption
  <2> QED BY <1>1, <2>1 DEF RelayCommits, RelayStops, RelayClaims, Mishap
<1>4. /\ pending' \subseteq Events /\ logged' \subseteq Events /\ late' \subseteq logged'
      /\ relaying' \in [Relays -> Events \cup {NoEvent}]
      /\ offset' \in [Events -> Nat] /\ lastOffset' \in Nat /\ position' \in 0 .. lastOffset'
  <2>1. CASE RelayCommits(r)
    BY <1>0, <2>1 DEF RelayCommits, walkVars
  <2>2. CASE RelayStops(r)
    BY <1>0, <2>2 DEF RelayStops, walkVars
  <2>3. ASSUME NEW e \in Events, RelayClaims(r, e)
        PROVE  /\ pending' \subseteq Events /\ logged' \subseteq Events /\ late' \subseteq logged'
               /\ relaying' \in [Relays -> Events \cup {NoEvent}]
               /\ offset' \in [Events -> Nat] /\ lastOffset' \in Nat /\ position' \in 0 .. lastOffset'
    BY <1>0, <2>3 DEF RelayClaims, walkVars
  <2> QED BY <1>1, <2>1, <2>2, <2>3
<1> QED BY <1>2, <1>3, <1>4 DEF BusTypeOK, walkVars, noticeVars, busPages

LEMMA WalkTypes ==
    ASSUME BusTypeOK, LogSound, WalkSound, WalkNext PROVE BusTypeOK'
<1>0. /\ logged \subseteq Events /\ offset \in [Events -> Nat]
      /\ lastOffset \in Nat /\ position \in 0 .. lastOffset
      /\ walk \in {Resting} \cup Walks /\ dead \in [Events -> Letters]
      /\ worker \in [Workers -> {NoRun} \cup DispatchRuns]
      /\ mishaps \in 0 .. MaxMishaps /\ MaxMishaps \in Nat /\ Attempts \in Nat \ {0}
  BY BusTypesSplit, BusAssumption
<1>1. UNCHANGED <<logVars, noticeVars, busPages>>
  BY DEF WalkNext, BeginWalk, Handle, Handled, Checkpoint, WalkStops
<1>2. /\ mishaps' \in 0 .. MaxMishaps /\ dead' \in [Events -> Letters]
      /\ position' \in 0 .. lastOffset
      /\ walk' \in {Resting} \cup Walks
      /\ worker' \in [Workers -> {NoRun} \cup DispatchRuns]
  <2>1. CASE BeginWalk
    <3> DEFINE todo == InOrder(Ahead)
    <3>1. todo \in Seq(Events) /\ Len(todo) \in Nat \ {0} /\ Ahead # {}
      BY <2>1, Batch DEF BeginWalk
    <3>2. offset[todo[Len(todo)]] \in Nat
      <4> HIDE DEF todo
      <4> QED BY <1>0, <3>1
    <3>3. walk' = [at |-> "walking", todo |-> todo, tries |-> 1, last |-> offset[todo[Len(todo)]]]
      BY <2>1 DEF BeginWalk
    <3>4. walk' \in Walks
      <4> HIDE DEF todo
      <4> QED BY <1>0, <3>1, <3>2, <3>3 DEF Walks
    <3> QED BY <1>0, <2>1, <3>4 DEF BeginWalk
  <2>2. CASE Handle
    <3>1. walk.todo \in Seq(Events) /\ walk.todo # <<>>
      BY <2>2, WalkParts DEF Handle
    <3>2. Run(Head(walk.todo)) \in DispatchRuns
      BY <3>1, NewRun
    <3> QED BY <1>0, <2>2, <3>2 DEF Handle, walkVars, Workers
  <2>3. CASE Handled
    <3>1. Walking /\ walk.todo # <<>>
      BY <2>3 DEF Handled, WalkSound, NoRun
    <3>2. walk \in Walks /\ walk.todo \in Seq(Events) /\ walk.tries \in 1 .. Attempts
      BY <3>1, WalkParts
    <3>3. /\ Head(walk.todo) \in Events /\ Tail(walk.todo) \in Seq(Events)
          /\ walk.tries < Attempts => walk.tries + 1 \in 1 .. Attempts
      BY <1>0, <3>1, <3>2
    <3>4. \A d \in Walks, n \in 1 .. Attempts, q \in Seq(Events) :
             [d EXCEPT !.tries = n] \in Walks /\ [d EXCEPT !.todo = q, !.tries = n] \in Walks
      BY DEF Walks
    <3>5. walk' \in Walks
      <4>1. CASE worker["walk"].at = "error" /\ walk.tries < Attempts
        <5>1. walk' = [walk EXCEPT !.tries = walk.tries + 1]
          BY <2>3, <4>1 DEF Handled
        <5> QED BY <3>2, <3>3, <3>4, <4>1, <5>1
      <4>2. CASE ~ (worker["walk"].at = "error" /\ walk.tries < Attempts)
        <5>1. walk' = [walk EXCEPT !.todo = Tail(walk.todo), !.tries = 1]
          BY <2>3, <4>2 DEF Handled
        <5>2. 1 \in 1 .. Attempts
          BY <1>0
        <5> QED BY <3>2, <3>3, <3>4, <5>1, <5>2
      <4> QED BY <4>1, <4>2
    <3>6. dead' \in [Events -> Letters]
      BY <1>0, <2>3, <3>3 DEF Handled, Letters
    <3> QED BY <1>0, <2>3, <3>5, <3>6 DEF Handled, Workers
  <2>4. CASE Checkpoint
    <3>1. walk.last \in 0 .. lastOffset
      BY <1>0, <2>4, WalkParts DEF Checkpoint, WalkSound
    <3> QED BY <1>0, <2>4, <3>1 DEF Checkpoint
  <2>5. CASE WalkStops
    BY <1>0, <2>5 DEF WalkStops, Mishap, Workers
  <2> QED BY <2>1, <2>2, <2>3, <2>4, <2>5 DEF WalkNext
<1> QED BY <1>1, <1>2, BusTypesSplit
        DEF BusTypeOK, logVars, noticeVars, busPages, Walks, DispatchRuns, Letters

LEMMA DispatchTypes == ASSUME BusTypeOK, DispatchNext PROVE BusTypeOK'
<1>0. /\ worker \in [Workers -> {NoRun} \cup DispatchRuns]
      /\ notice \in [Events -> Notices] /\ told \in [Events -> Nat]
      /\ provider \in [Ranks -> ProviderRows] /\ broke \in BOOLEAN
      /\ mishaps \in 0 .. MaxMishaps /\ MaxMishaps \in Nat /\ Streak \in Nat \ {0}
  BY BusTypesSplit, BusAssumption
<1>1. \A d \in DispatchRuns, at \in {"start", "send", "mark", "ok", "error"}, n \in Nat :
         /\ [d EXCEPT !.at = at] \in DispatchRuns /\ [d EXCEPT !.rank = n] \in DispatchRuns
         /\ [d EXCEPT !.at = at, !.sent = TRUE] \in DispatchRuns
  BY DEF DispatchRuns
<1>2. \A p \in ProviderRows, n \in 0 .. Streak, b \in BOOLEAN :
         [p EXCEPT !.streak = n, !.cooling = b] \in ProviderRows
  BY DEF ProviderRows
<1>3. UNCHANGED <<logVars, walkVars, busPages>>
  BY DEF DispatchNext, InsertNotice, DispatchFails, TrySend, MarkNotice, BudgetSpent, CoolsDown
<1>4. /\ worker' \in [Workers -> {NoRun} \cup DispatchRuns]
      /\ notice' \in [Events -> Notices] /\ told' \in [Events -> Nat]
      /\ provider' \in [Ranks -> ProviderRows] /\ broke' \in BOOLEAN
      /\ mishaps' \in 0 .. MaxMishaps
  <2>1. ASSUME NEW w \in Workers, InsertNotice(w) \/ DispatchFails(w) \/ TrySend(w) \/ MarkNotice(w)
        PROVE  /\ worker' \in [Workers -> {NoRun} \cup DispatchRuns]
               /\ notice' \in [Events -> Notices] /\ told' \in [Events -> Nat]
               /\ provider' \in [Ranks -> ProviderRows] /\ broke' \in BOOLEAN
               /\ mishaps' \in 0 .. MaxMishaps
    <3>0. worker[w].at # "free"
      BY <2>1 DEF InsertNotice, DispatchFails, TrySend, MarkNotice
    <3>1. /\ worker[w] \in DispatchRuns /\ worker[w].e \in Events /\ worker[w].rank \in Nat
          /\ worker[w].sent \in BOOLEAN /\ worker[w].rank + 1 \in Nat
      BY <3>0, RunParts
    <3>2. CASE InsertNotice(w)
      BY <1>0, <1>1, <3>1, <3>2 DEF InsertNotice, Step, Notices
    <3>3. CASE DispatchFails(w)
      <4>1. [worker[w] EXCEPT !.at = "error"] \in DispatchRuns
        BY <1>1, <3>1
      <4>2. worker' = [worker EXCEPT ![w] = [worker[w] EXCEPT !.at = "error"]]
        BY <3>3 DEF DispatchFails, Step
      <4>3. mishaps' \in 0 .. MaxMishaps
        BY <1>0, <3>3 DEF DispatchFails, Mishap
      <4> QED BY <1>0, <3>3, <4>1, <4>2, <4>3 DEF DispatchFails, noticeVars
    <3>4. CASE TrySend(w)
      <4>1. worker' \in [Workers -> {NoRun} \cup DispatchRuns]
        <5>1. \E d \in DispatchRuns : worker' = [worker EXCEPT ![w] = d]
          <6>1. \/ worker' = [worker EXCEPT ![w].at = "mark"]
                \/ worker' = [worker EXCEPT ![w].rank = worker[w].rank + 1]
                \/ worker' = [worker EXCEPT ![w].at = "mark", ![w].sent = TRUE]
            BY <3>4 DEF TrySend, Step
          <6>2. \/ worker' = [worker EXCEPT ![w] = [worker[w] EXCEPT !.at = "mark"]]
                \/ worker' = [worker EXCEPT ![w] = [worker[w] EXCEPT !.rank = worker[w].rank + 1]]
                \/ worker' = [worker EXCEPT ![w] = [worker[w] EXCEPT !.at = "mark", !.sent = TRUE]]
            BY <1>0, <6>1
          <6> QED BY <1>1, <3>1, <6>2
        <5> QED BY <1>0, <5>1
      <4>2. told' \in [Events -> Nat]
        BY <1>0, <3>1, <3>4 DEF TrySend
      <4>3. provider' \in [Ranks -> ProviderRows]
        <5> DEFINE p == worker[w].rank
        <5>1. CASE provider' = provider
          BY <1>0, <5>1
        <5>2. CASE p \in Ranks /\ provider' = [provider EXCEPT ![p] = Up]
          <6>1. Up \in ProviderRows
            BY <1>0 DEF Up, ProviderRows
          <6> QED BY <1>0, <5>2, <6>1
        <5>3. CASE /\ p \in Ranks
                   /\ provider' = [provider EXCEPT ![p].streak = IF @ < Streak THEN @ + 1 ELSE @,
                                              ![p].cooling = provider[p].streak + 1 >= Streak]
          <6>1. provider[p] \in ProviderRows
            BY <1>0, <5>3
          <6>2. provider[p].streak \in 0 .. Streak
            BY <6>1 DEF ProviderRows
          <6>3. (IF provider[p].streak < Streak THEN provider[p].streak + 1 ELSE provider[p].streak)
                  \in 0 .. Streak
            BY <1>0, <6>2
          <6>b. (provider[p].streak + 1 >= Streak) \in BOOLEAN
            OBVIOUS
          <6>4. [provider[p] EXCEPT
                   !.streak = IF provider[p].streak < Streak THEN provider[p].streak + 1
                              ELSE provider[p].streak,
                   !.cooling = provider[p].streak + 1 >= Streak] \in ProviderRows
            BY <1>2, <6>1, <6>3, <6>b, Zenon
          <6> QED BY <1>0, <5>3, <6>4
        <5>4. \/ provider' = provider
              \/ p \in Ranks /\ provider' = [provider EXCEPT ![p] = Up]
              \/ /\ p \in Ranks
                 /\ provider' = [provider EXCEPT ![p].streak = IF @ < Streak THEN @ + 1 ELSE @,
                                              ![p].cooling = provider[p].streak + 1 >= Streak]
          BY <3>4 DEF TrySend
        <5> QED BY <5>1, <5>2, <5>3, <5>4
      <4> QED BY <1>0, <3>4, <4>1, <4>2, <4>3 DEF TrySend
    <3>5. CASE MarkNotice(w)
      BY <1>0, <1>1, <3>1, <3>5 DEF MarkNotice, Step, Notices
    <3> QED BY <2>1, <3>2, <3>3, <3>4, <3>5
  <2>2. CASE BudgetSpent
    BY <1>0, <2>2 DEF BudgetSpent
  <2>3. ASSUME NEW p \in Ranks, CoolsDown(p)
        PROVE  provider' \in [Ranks -> ProviderRows] /\ UNCHANGED <<worker, notice, told, broke, mishaps>>
    <3>1. \A q \in ProviderRows : [q EXCEPT !.cooling = FALSE] \in ProviderRows
      BY DEF ProviderRows
    <3>2. provider[p] \in ProviderRows
      BY <1>0
    <3>3. [provider[p] EXCEPT !.cooling = FALSE] \in ProviderRows
      BY <3>1, <3>2
    <3> QED BY <1>0, <2>3, <3>3 DEF CoolsDown
  <2> QED BY <1>0, <2>1, <2>2, <2>3 DEF DispatchNext
<1> QED BY <1>3, <1>4, BusTypesSplit
        DEF BusTypeOK, logVars, walkVars, busPages, DispatchRuns, Notices, ProviderRows

LEMMA PageTypes == ASSUME BusTypeOK, BusPagesNext PROVE BusTypeOK'
<1>0. /\ dead \in [Events -> Letters] /\ worker \in [Workers -> {NoRun} \cup DispatchRuns]
      /\ provider \in [Ranks -> ProviderRows]
      /\ eventsPage \in EventsPages /\ noticesPage \in NoticesPages
      /\ mishaps \in 0 .. MaxMishaps /\ MaxMishaps \in Nat /\ Streak \in Nat
  BY BusTypesSplit, BusAssumption
<1>1. \A d \in EventsPages, D \in SUBSET Events, b \in BOOLEAN :
         /\ [d EXCEPT !.dead = D] \in EventsPages /\ [d EXCEPT !.error = b] \in EventsPages
         /\ [d EXCEPT !.draining = b] \in EventsPages
  BY DEF EventsPages
<1>2. \A d \in NoticesPages, D \in SUBSET Ranks, S \in SUBSET Events, b \in BOOLEAN :
         /\ [d EXCEPT !.down = D, !.log = S] \in NoticesPages /\ [d EXCEPT !.down = D] \in NoticesPages
         /\ [d EXCEPT !.error = b] \in NoticesPages
  BY DEF NoticesPages
<1>3. UNCHANGED <<logVars, position, walk, notice, told, broke>>
  BY DEF BusPagesNext, LoadEvents, LoadEventsFails, PressDrain, Drained, Replayed, ReplayStops,
         LoadNotices, LoadNoticesFails, PressReplay, SwitchProvider, walkVars, noticeVars
<1> DEFINE Goal == /\ dead' \in [Events -> Letters]
                   /\ worker' \in [Workers -> {NoRun} \cup DispatchRuns]
                   /\ provider' \in [Ranks -> ProviderRows]
                   /\ eventsPage' \in EventsPages /\ noticesPage' \in NoticesPages
                   /\ mishaps' \in 0 .. MaxMishaps
<1>4. Goal
  <2>1. CASE LoadEvents \/ PressDrain \/ Drained
    <3>1. {e \in Events : dead[e] = "open"} \in SUBSET Events
      OBVIOUS
    <3> QED BY <1>0, <1>1, <2>1, <3>1 DEF LoadEvents, PressDrain, Drained, walkVars, noticeVars
  <2>2. CASE LoadEventsFails \/ LoadNoticesFails \/ ReplayStops
    <3>1. mishaps' \in 0 .. MaxMishaps
      BY <1>0, <2>2 DEF LoadEventsFails, LoadNoticesFails, ReplayStops, Mishap
    <3> QED BY <1>0, <1>1, <1>2, <2>2, <3>1
            DEF LoadEventsFails, LoadNoticesFails, ReplayStops, walkVars, noticeVars, busPages, Workers
  <2>3. CASE Replayed
    <3>0. worker["replay"].e \in Events
      BY <2>3, RunParts DEF Replayed, Workers
    <3>1. dead' \in [Events -> Letters]
      BY <1>0, <2>3, <3>0 DEF Replayed, Letters
    <3>2. {e \in Events : dead'[e] = "open"} \in SUBSET Events
      OBVIOUS
    <3> QED BY <1>0, <1>1, <2>3, <3>1, <3>2 DEF Replayed, noticeVars, Workers
  <2>4. ASSUME NEW f \in Filters, LoadNotices(f) PROVE Goal
    <3>1. Down \in SUBSET Ranks /\ ShownNotices(f) \in SUBSET Events
      BY DEF Down, ShownNotices
    <3> QED BY <1>0, <1>2, <2>4, <3>1 DEF LoadNotices, walkVars, noticeVars
  <2>5. ASSUME NEW e \in Events, PressReplay(e) PROVE Goal
    BY <1>0, <2>5, NewRun DEF PressReplay, walkVars, noticeVars, busPages, Workers
  <2>6. ASSUME NEW p \in Ranks, SwitchProvider(p) PROVE Goal
    <3>1. [Up EXCEPT !.down = p \notin noticesPage.down] \in ProviderRows
      <4>1. Up \in ProviderRows
        BY <1>0 DEF Up, ProviderRows
      <4>2. \A d \in ProviderRows, b \in BOOLEAN : [d EXCEPT !.down = b] \in ProviderRows
        BY DEF ProviderRows
      <4>3. (p \notin noticesPage.down) \in BOOLEAN
        OBVIOUS
      <4> QED BY <4>1, <4>2, <4>3, Zenon
    <3>2. {q \in Ranks : provider'[q].down} \in SUBSET Ranks
      OBVIOUS
    <3> QED BY <1>0, <1>2, <2>6, <3>1, <3>2 DEF SwitchProvider, walkVars
  <2> HIDE DEF Goal
  <2> QED BY <2>1, <2>2, <2>3, <2>4, <2>5, <2>6 DEF BusPagesNext
<1> QED BY <1>3, <1>4, BusTypesSplit
        DEF BusTypeOK, logVars, walkVars, busPages, DispatchRuns, Letters, ProviderRows,
            EventsPages, NoticesPages


-----------------------------------------------------------------------------
(* The invariant                                                            *)

LEMMA BusInitSound == BusInit => BusSound
<1> SUFFICES ASSUME BusInit PROVE BusSound
    OBVIOUS
<1> USE BusAssumption DEF BusInit
<1>1. provider \in [Ranks -> ProviderRows]
  BY DEF ProviderRows, Up
<1>2. eventsPage \in EventsPages /\ noticesPage \in NoticesPages
  BY DEF EventsPages, NoticesPages
<1>3. BusTypeOK
  <2>1. dead \in [Events -> Letters] /\ notice \in [Events -> Notices] /\ told \in [Events -> Nat]
    BY DEF Letters, Notices
  <2>2. worker \in [Workers -> {NoRun} \cup DispatchRuns] /\ walk \in {Resting} \cup Walks
    OBVIOUS
  <2>3. /\ relaying \in [Relays -> Events \cup {NoEvent}] /\ offset \in [Events -> Nat]
        /\ lastOffset \in Nat /\ position \in 0 .. lastOffset /\ mishaps \in 0 .. MaxMishaps
    OBVIOUS
  <2>4. pending \subseteq Events /\ logged \subseteq Events /\ late \subseteq logged /\ broke \in BOOLEAN
    OBVIOUS
  <2> HIDE DEF BusInit
  <2> QED BY <1>1, <1>2, <2>1, <2>2, <2>3, <2>4, BusTypesSplit
<1>4. LogSound
  BY FS_EmptySet DEF LogSound
<1>5. RunsHonest /\ ToldByNotice /\ ToldOnce
  <2>1. \A w \in Workers : worker[w].at = "free"
    BY DEF NoRun
  <2>2. RunsHonest
    BY <2>1 DEF RunsHonest, Workers
  <2>3. \A e \in Events : told[e] = 0 /\ notice[e] = "none"
    OBVIOUS
  <2> QED BY <2>2, <2>3 DEF ToldByNotice, ToldOnce
<1>6. WalkSound /\ PassedIsAccountedFor
  BY DEF WalkSound, PassedIsAccountedFor, Walking, Workers
<1> QED BY <1>3, <1>4, <1>5, <1>6 DEF BusSound

\* The log, when a relay claims, publishes or stops.
LEMMA LogSoundKept == BusTypeOK /\ LogSound /\ LogNext => LogSound'
<1> SUFFICES ASSUME BusTypeOK, LogSound, LogNext PROVE LogSound'
    OBVIOUS
<1>0. /\ pending \subseteq Events /\ logged \subseteq Events /\ NoEvent \notin Events
      /\ relaying \in [Relays -> Events \cup {NoEvent}]
      /\ offset \in [Events -> Nat] /\ lastOffset \in Nat
  BY BusTypesSplit, BusAssumption
<1>1. PICK r \in Relays : RelayCommits(r) \/ RelayStops(r) \/ \E e \in Events : RelayClaims(r, e)
  BY DEF LogNext
<1>2. CASE RelayCommits(r)
  <2>1. IsFiniteSet(logged')
    BY <1>2, FS_AddElement DEF RelayCommits, LogSound
  <2>2. /\ relaying[r] \in pending /\ relaying' = [relaying EXCEPT ![r] = NoEvent]
        /\ pending' = pending \ {relaying[r]} /\ logged' = logged \cup {relaying[r]}
    BY <1>2 DEF RelayCommits, LogSound
  <2>3. pending' \cap logged' = {}
    BY <2>2 DEF LogSound
  <2>4. \A s \in Relays : relaying'[s] # NoEvent => relaying'[s] \in pending'
    BY <1>0, <2>2 DEF LogSound
  <2>5. \A q, s \in Relays : relaying'[q] = relaying'[s] => q = s \/ relaying'[s] = NoEvent
    BY <1>0, <2>2 DEF LogSound
  <2>6. UNCHANGED <<offset, lastOffset>>
    BY <1>2 DEF RelayCommits
  <2> QED BY <2>1, <2>3, <2>4, <2>5, <2>6 DEF LogSound
<1>3. CASE RelayStops(r)
  <2>1. relaying' = [relaying EXCEPT ![r] = NoEvent]
        /\ offset' = [offset EXCEPT ![relaying[r]] = 0]
        /\ UNCHANGED <<pending, lastOffset, logged>>
    BY <1>3 DEF RelayStops
  <2>2. \A e \in Events : offset'[e] = offset[e] \/ offset'[e] = 0
    BY <1>0, <2>1
  <2>3. \A e \in Events : offset'[e] <= lastOffset'
    BY <1>0, <2>1, <2>2 DEF LogSound
  <2>4. \A d, e \in Events : offset'[d] = offset'[e] => d = e \/ offset'[e] = 0
    BY <2>2 DEF LogSound
  <2>5. \A q, s \in Relays : relaying'[q] = relaying'[s] => q = s \/ relaying'[s] = NoEvent
    BY <1>0, <2>1 DEF LogSound
  <2>6. \A s \in Relays : relaying'[s] # NoEvent => relaying'[s] \in pending'
    BY <1>0, <2>1 DEF LogSound
  <2> QED BY <2>1, <2>3, <2>4, <2>5, <2>6 DEF LogSound
<1>4. ASSUME NEW e \in Events, RelayClaims(r, e) PROVE LogSound'
  <2>1. CASE e \in Malformed
    <3>1. /\ pending' = pending \ {e} /\ UNCHANGED <<relaying, offset, lastOffset, logged>>
          /\ \A s \in Relays : relaying[s] # e
      BY <1>4, <2>1 DEF RelayClaims
    <3> QED BY <3>1 DEF LogSound
  <2>2. CASE e \notin Malformed
    <3>1. /\ relaying' = [relaying EXCEPT ![r] = e] /\ lastOffset' = lastOffset + 1
          /\ offset' = [offset EXCEPT ![e] = lastOffset + 1] /\ UNCHANGED <<pending, logged>>
          /\ e \in pending /\ \A s \in Relays : relaying[s] # e
      BY <1>4, <2>2 DEF RelayClaims
    <3>2. \A d \in Events : offset[d] <= lastOffset /\ offset[d] \in Nat
      BY <1>0 DEF LogSound
    <3>3. \A d \in Events : offset'[d] <= lastOffset'
      BY <1>0, <3>1, <3>2
    <3>4. \A d, f \in Events : offset'[d] = offset'[f] => d = f \/ offset'[f] = 0
      <4> SUFFICES ASSUME NEW d \in Events, NEW f \in Events, offset'[d] = offset'[f], d # f
                   PROVE  offset'[f] = 0
        OBVIOUS
      <4>1. d # e /\ f # e
        BY <1>0, <3>1, <3>2
      <4> QED BY <1>0, <3>1, <4>1 DEF LogSound
    <3>5. \A q, s \in Relays : relaying'[q] = relaying'[s] => q = s \/ relaying'[s] = NoEvent
      BY <1>0, <3>1 DEF LogSound
    <3>6. \A s \in Relays : relaying'[s] # NoEvent => relaying'[s] \in pending'
      BY <1>0, <3>1 DEF LogSound
    <3> QED BY <3>1, <3>3, <3>4, <3>5, <3>6 DEF LogSound
  <2> QED BY <2>1, <2>2
<1> QED BY <1>1, <1>2, <1>3, <1>4

\* And what the checkpoint and the walk have passed: what comes in behind is late.
LEMMA LogPasses == BusSound /\ LogNext => WalkSound' /\ PassedIsAccountedFor'
<1> SUFFICES ASSUME BusSound, LogNext PROVE WalkSound' /\ PassedIsAccountedFor'
    OBVIOUS
<1> USE DEF BusSound
<1>0. /\ pending \subseteq Events /\ logged \subseteq Events
      /\ relaying \in [Relays -> Events \cup {NoEvent}]
      /\ offset \in [Events -> Nat] /\ lastOffset \in Nat /\ position \in 0 .. lastOffset
      /\ pending \cap logged = {}
  BY BusTypesSplit DEF LogSound
<1>1. PICK r \in Relays : RelayCommits(r) \/ RelayStops(r) \/ \E e \in Events : RelayClaims(r, e)
  BY DEF LogNext
<1>2. UNCHANGED <<position, walk, dead, worker, notice>>
  BY <1>1 DEF RelayCommits, RelayStops, RelayClaims, walkVars, noticeVars
<1>3. late \subseteq late' /\ lastOffset <= lastOffset' /\ lastOffset' \in Nat
  BY <1>0, <1>1 DEF RelayCommits, RelayStops, RelayClaims
<1>4. \A e \in logged : offset'[e] = offset[e]
  <2>1. CASE RelayCommits(r)
    BY <2>1 DEF RelayCommits
  <2>2. CASE RelayStops(r)
    BY <1>0, <2>2 DEF RelayStops, LogSound
  <2>3. ASSUME NEW e \in Events, RelayClaims(r, e) PROVE \A d \in logged : offset'[d] = offset[d]
    BY <1>0, <2>3 DEF RelayClaims
  <2> QED BY <1>1, <2>1, <2>2, <2>3
<1>5. \A e \in logged' : e \in logged \/ (offset'[e] <= WalkEnd => e \in late')
  BY <1>1 DEF RelayCommits, RelayStops, RelayClaims
<1>5a. \A e \in logged' : offset'[e] \in Nat
  <2>1. BusTypeOK'
    BY LogTypes
  <2> QED BY <2>1, BusTypesSplit DEF BusTypeOK
<1>6. Walking => /\ WalkEnd = walk.last /\ position <= walk.last /\ walk.last <= lastOffset
                 /\ walk.last \in Nat
  BY WalkParts DEF WalkEnd, WalkSound, Walking
<1>7. ~ Walking => WalkEnd = position
  BY DEF WalkEnd, Walking
<1>8. \A e \in Events : Accounted(e) => Accounted(e)'
  BY <1>2, <1>3 DEF Accounted
<1>9. PassedIsAccountedFor'
  <2> SUFFICES ASSUME NEW e \in logged', offset'[e] <= position' PROVE Accounted(e)'
    BY DEF PassedIsAccountedFor, Accounted
  <2>1. CASE e \in logged
    BY <1>0, <1>2, <1>4, <1>8, <2>1 DEF PassedIsAccountedFor, Accounted
  <2>2. CASE e \notin logged
    <3>1. offset'[e] <= WalkEnd
      BY <1>0, <1>2, <1>5a, <1>6, <1>7
    <3> QED BY <1>5, <2>2, <3>1 DEF Accounted
  <2> QED BY <2>1, <2>2
<1>10. WalkSound'
  <2>1. ASSUME Walking'
        PROVE  /\ position' <= walk'.last /\ walk'.last <= lastOffset'
               /\ \A e \in logged' : offset'[e] <= walk'.last => Accounted(e)' \/ e \in ToHandle'
    <3>1. Walking
      BY <1>2, <2>1 DEF Walking
    <3>2. position' <= walk'.last /\ walk'.last <= lastOffset'
      BY <1>0, <1>2, <1>3, <1>6, <3>1
    <3>3. ASSUME NEW e \in logged', offset'[e] <= walk'.last PROVE Accounted(e)' \/ e \in ToHandle'
      <4>1. CASE e \in logged
        BY <1>0, <1>2, <1>4, <1>8, <3>1, <3>3, <4>1 DEF WalkSound, ToHandle
      <4>2. CASE e \notin logged
        BY <1>2, <1>5, <1>6, <3>1, <3>3, <4>2 DEF Accounted
      <4> QED BY <4>1, <4>2
    <3> QED BY <3>2, <3>3
  <2>2. worker'["walk"] # NoRun =>
           Walking' /\ walk'.todo # <<>> /\ worker'["walk"].e = Head(walk'.todo)
    BY <1>2 DEF WalkSound, Walking
  <2> QED BY <2>1, <2>2 DEF WalkSound
<1> QED BY <1>9, <1>10

\* A step of the log keeps the whole.
LEMMA BusLogKept == BusSound /\ LogNext => BusSound'
<1> SUFFICES ASSUME BusSound, LogNext PROVE BusSound'
    OBVIOUS
<1>1. BusTypeOK' /\ LogSound' /\ WalkSound' /\ PassedIsAccountedFor'
  BY LogTypes, LogSoundKept, LogPasses DEF BusSound
<1>2. UNCHANGED <<worker, notice, told>>
  BY DEF LogNext, RelayCommits, RelayStops, RelayClaims, noticeVars
<1>3. RunsHonest' /\ ToldByNotice' /\ ToldOnce'
  BY <1>2 DEF BusSound, RunsHonest, ToldByNotice, ToldOnce
<1> QED BY <1>1, <1>3 DEF BusSound


\* A step that leaves the log, the walk and its run where they are, and takes nothing
\* back that was handled.
LEMMA HandledStays ==
    ASSUME WalkSound, PassedIsAccountedFor,
           UNCHANGED <<logged, late, offset, lastOffset, position, walk>>,
           \A e \in Events : Accounted(e) => Accounted(e)', logged \subseteq Events,
           worker'["walk"] # NoRun => /\ worker["walk"] # NoRun
                                      /\ worker'["walk"].e = worker["walk"].e
    PROVE  WalkSound' /\ PassedIsAccountedFor'
<1>1. PassedIsAccountedFor'
  <2> SUFFICES ASSUME NEW e \in logged', offset'[e] <= position' PROVE Accounted(e)'
    BY DEF PassedIsAccountedFor, Accounted
  <2>1. e \in Events /\ Accounted(e)
    BY DEF PassedIsAccountedFor, Accounted
  <2> QED BY <2>1
<1>2. WalkSound'
  BY DEF WalkSound, Walking, ToHandle
<1> QED BY <1>1, <1>2

\* The walk: the batch is what lies ahead of the checkpoint, and its first event
\* leaves it with a row or a dead letter.
LEMMA WalkKept == BusSound /\ WalkNext => BusSound'
<1> SUFFICES ASSUME BusSound, WalkNext PROVE BusSound'
    OBVIOUS
<1> USE DEF BusSound
<1>0. /\ logged \subseteq Events /\ offset \in [Events -> Nat] /\ lastOffset \in Nat
      /\ position \in 0 .. lastOffset /\ dead \in [Events -> Letters]
      /\ worker \in [Workers -> {NoRun} \cup DispatchRuns]
      /\ "walk" \in Workers /\ "replay" \in Workers
  BY BusTypesSplit DEF Workers
<1>1. BusTypeOK'
  BY WalkTypes
<1>2. UNCHANGED <<pending, relaying, offset, lastOffset, logged, late, notice, told>>
  BY DEF WalkNext, BeginWalk, Handle, Handled, Checkpoint, WalkStops, logVars, noticeVars
<1>3. LogSound'
  BY <1>2 DEF LogSound
<1>4. ToldByNotice' /\ ToldOnce'
  BY <1>2 DEF ToldByNotice, ToldOnce
<1>5. \/ worker' = worker
      \/ worker' = [worker EXCEPT !["walk"] = NoRun]
      \/ \E e \in Events : worker' = [worker EXCEPT !["walk"] = Run(e)]
  <2>1. CASE Handle
    <3>1. walk.todo \in Seq(Events) /\ walk.todo # <<>>
      BY <2>1, WalkParts DEF Handle
    <3>2. Head(walk.todo) \in Events
      BY <3>1
    <3> QED BY <2>1, <3>2 DEF Handle
  <2> QED BY <2>1 DEF WalkNext, BeginWalk, Handled, Checkpoint, WalkStops
<1>6. RunsHonest'
  <2>1. CASE worker' = worker
    BY <1>2, <2>1 DEF RunsHonest
  <2>2. CASE worker' = [worker EXCEPT !["walk"] = NoRun]
    <3>1. worker'["walk"].at = "free" /\ worker'["replay"] = worker["replay"]
      BY <1>0, <2>2 DEF NoRun
    <3> QED BY <1>2, <3>1 DEF RunsHonest, Workers
  <2>3. ASSUME NEW e \in Events, worker' = [worker EXCEPT !["walk"] = Run(e)] PROVE RunsHonest'
    <3>1. /\ worker'["walk"].at = "start" /\ ~ worker'["walk"].sent
          /\ worker'["replay"] = worker["replay"]
      BY <1>0, <2>3 DEF Run
    <3> QED BY <1>2, <3>1 DEF RunsHonest, Workers
  <2> QED BY <1>5, <2>1, <2>2, <2>3
<1>7. WalkSound' /\ PassedIsAccountedFor'
  <2>1. CASE BeginWalk
    <3> DEFINE todo == InOrder(Ahead)
               end  == offset[todo[Len(todo)]]
    <3>1. /\ todo \in Seq(Events) /\ todo # <<>> /\ Len(todo) \in Nat \ {0}
          /\ \A e \in Ahead : \E i \in 1 .. Len(todo) : todo[i] = e
          /\ \A i \in 1 .. Len(todo) : todo[i] \in Ahead
      BY <2>1, Batch DEF BeginWalk
    <3>2. walk = Resting /\ UNCHANGED <<position, dead, worker>>
          /\ walk' = [at |-> "walking", todo |-> todo, tries |-> 1, last |-> end]
      BY <2>1 DEF BeginWalk
    <3> HIDE DEF todo
    <3>3. position <= end /\ end <= lastOffset
      <4>1. todo[Len(todo)] \in Ahead
        BY <3>1
      <4>2. todo[Len(todo)] \in Events /\ offset[todo[Len(todo)]] > position
        BY <1>0, <4>1 DEF Ahead
      <4>3. offset[todo[Len(todo)]] \in Nat /\ offset[todo[Len(todo)]] <= lastOffset
        BY <1>0, <4>2 DEF LogSound
      <4> QED BY <1>0, <4>2, <4>3
    <3>4. walk'.todo = todo /\ walk'.last = end
      BY <3>2
    <3>5. worker'["walk"] = NoRun
      BY <3>2 DEF WalkSound, Walking
    <3>6. \A e \in logged : Accounted(e) \/ e \in ToHandle'
      <4> SUFFICES ASSUME NEW e \in logged, ~ Accounted(e) PROVE e \in ToHandle'
        OBVIOUS
      <4>1. offset[e] \in Nat /\ ~ (offset[e] <= position)
        BY <1>0 DEF PassedIsAccountedFor, Accounted
      <4>2. e \in Ahead
        BY <1>0, <4>1 DEF Ahead
      <4>3. \E i \in 1 .. Len(todo) : todo[i] = e
        BY <3>1, <4>2
      <4> QED BY <3>4, <4>3 DEF ToHandle
    <3>7. \A e \in logged : Accounted(e) => Accounted(e)'
      BY <1>2, <3>2 DEF Accounted
    <3>8. WalkSound'
      BY <1>2, <3>2, <3>3, <3>4, <3>5, <3>6, <3>7 DEF WalkSound
    <3>9. PassedIsAccountedFor'
      BY <1>2, <3>2 DEF PassedIsAccountedFor
    <3> QED BY <3>8, <3>9
  <2>2. CASE Handle
    <3>1. Walking /\ walk.todo # <<>> /\ UNCHANGED <<position, walk, dead>>
          /\ worker'["walk"] = Run(Head(walk.todo))
      BY <1>0, <2>2 DEF Handle, walkVars
    <3>2. worker'["walk"].e = Head(walk.todo)
      BY <3>1 DEF Run
    <3>3. \A e \in logged : Accounted(e) => Accounted(e)'
      BY <1>2, <3>1 DEF Accounted
    <3> QED BY <1>2, <3>1, <3>2, <3>3
            DEF WalkSound, Walking, ToHandle, PassedIsAccountedFor
  <2>3. CASE Handled
    <3>1. /\ Walking /\ walk.todo # <<>> /\ worker["walk"].e = Head(walk.todo)
          /\ worker["walk"].at \in {"ok", "error"}
      BY <2>3 DEF Handled, WalkSound, NoRun
    <3>2. /\ walk \in Walks /\ walk.todo \in Seq(Events) /\ walk.last \in Nat
      BY <3>1, WalkParts
    <3>3. worker'["walk"] = NoRun /\ UNCHANGED position
      BY <1>0, <2>3 DEF Handled
    <3>4. \A e \in Events : Accounted(e) => Accounted(e)'
      BY <1>0, <1>2, <2>3 DEF Accounted, Handled, Letters
    <3>5. PassedIsAccountedFor'
      <4> SUFFICES ASSUME NEW e \in logged', offset'[e] <= position' PROVE Accounted(e)'
        BY DEF PassedIsAccountedFor, Accounted
      <4>1. e \in Events /\ Accounted(e)
        BY <1>0, <1>2, <3>3 DEF PassedIsAccountedFor, Accounted
      <4> QED BY <3>4, <4>1
    <3>6. CASE worker["walk"].at = "error" /\ walk.tries < Attempts
      <4>1. walk' = [walk EXCEPT !.tries = walk.tries + 1] /\ dead' = dead
        BY <2>3, <3>6 DEF Handled
      <4>2. walk'.todo = walk.todo /\ walk'.last = walk.last /\ Walking'
        <5>1. walk'.todo = walk.todo /\ walk'.last = walk.last /\ walk'.at = "walking"
          BY <3>2, <4>1 DEF Walks
        <5> QED BY <5>1 DEF Walking, Resting
      <4>3. ToHandle' = ToHandle
        BY <4>2 DEF ToHandle
      <4> QED BY <1>0, <1>2, <3>1, <3>3, <3>4, <3>5, <4>2, <4>3 DEF WalkSound
    <3>7. CASE ~ (worker["walk"].at = "error" /\ walk.tries < Attempts)
      <4>0. PICK h \in Events : h = Head(walk.todo)
        BY <3>1, <3>2
      <4>1. /\ walk' = [walk EXCEPT !.todo = Tail(walk.todo), !.tries = 1]
            /\ dead' = IF worker["walk"].at = "error" /\ dead[h] = "none"
                       THEN [dead EXCEPT ![h] = "open"] ELSE dead
        BY <2>3, <3>7, <4>0 DEF Handled
      <4>2. walk'.todo = Tail(walk.todo) /\ walk'.last = walk.last /\ Walking'
        <5>1. walk'.todo = Tail(walk.todo) /\ walk'.last = walk.last /\ walk'.at = "walking"
          BY <3>2, <4>1 DEF Walks
        <5> QED BY <5>1 DEF Walking, Resting
      <4>3. Accounted(h)'
        <5>2. CASE worker["walk"].at = "ok"
          <6>1. notice[h] # "none"
            BY <1>0, <3>1, <4>0, <5>2 DEF RunsHonest
          <6> QED BY <1>2, <6>1 DEF Accounted
        <5>3. CASE worker["walk"].at = "error"
          <6>1. dead'[h] # "none"
            BY <1>0, <4>1, <5>3
          <6> QED BY <6>1 DEF Accounted
        <5> QED BY <3>1, <5>2, <5>3
      <4>4. \A e \in ToHandle : e = h \/ e \in ToHandle'
        <5> SUFFICES ASSUME NEW i \in 1 .. Len(walk.todo), walk.todo[i] # h
                     PROVE  walk.todo[i] \in ToHandle'
          BY DEF ToHandle
        <5>1. i # 1 /\ i \in Nat /\ Len(walk.todo) \in Nat /\ i <= Len(walk.todo)
          BY <3>1, <3>2, <4>0
        <5>2. i - 1 \in 1 .. Len(Tail(walk.todo)) /\ Tail(walk.todo)[i - 1] = walk.todo[i]
          BY <3>1, <3>2, <5>1
        <5> QED BY <4>2, <5>2 DEF ToHandle
      <4>5. \A e \in logged' : offset'[e] <= walk'.last => Accounted(e)' \/ e \in ToHandle'
        <5> SUFFICES ASSUME NEW e \in logged', offset'[e] <= walk'.last, e \notin ToHandle'
                     PROVE  Accounted(e)'
          OBVIOUS
        <5>1. Accounted(e) \/ e \in ToHandle
          BY <1>2, <3>1, <4>2 DEF WalkSound
        <5>2. e \in Events
          BY <1>0, <1>2
        <5>3. CASE Accounted(e)
          BY <3>4, <5>2, <5>3
        <5>4. CASE e \in ToHandle
          <6>1. e = h
            BY <4>4, <5>4
          <6> QED BY <4>3, <6>1
        <5> QED BY <5>1, <5>3, <5>4
      <4>6. position' <= walk'.last /\ walk'.last <= lastOffset'
        BY <1>2, <3>1, <3>3, <4>2 DEF WalkSound
      <4>7. WalkSound'
        BY <3>3, <4>5, <4>6 DEF WalkSound
      <4> QED BY <3>5, <4>7
    <3> QED BY <3>6, <3>7
  <2>4. CASE Checkpoint
    <3>1. /\ Walking /\ walk.todo = <<>> /\ position' = walk.last /\ walk' = Resting
          /\ UNCHANGED <<dead, worker>>
      BY <2>4 DEF Checkpoint
    <3>2. ToHandle = {} /\ worker["walk"] = NoRun
      BY <3>1 DEF ToHandle, WalkSound
    <3>3. PassedIsAccountedFor'
      BY <1>2, <3>1, <3>2 DEF PassedIsAccountedFor, WalkSound, Accounted
    <3>4. WalkSound'
      BY <3>1, <3>2 DEF WalkSound, Walking
    <3> QED BY <3>3, <3>4
  <2>5. CASE WalkStops
    <3>1. walk' = Resting /\ worker'["walk"] = NoRun /\ UNCHANGED <<position, dead>>
      BY <1>0, <2>5 DEF WalkStops
    <3> QED BY <1>2, <3>1 DEF WalkSound, Walking, PassedIsAccountedFor
  <2> QED BY <2>1, <2>2, <2>3, <2>4, <2>5 DEF WalkNext
<1> QED BY <1>1, <1>3, <1>4, <1>6, <1>7


\* A run of Dispatch: the row is inserted by one run, which alone sends and marks.
LEMMA DispatchKept == BusSound /\ DispatchNext => BusSound'
<1> SUFFICES ASSUME BusSound, DispatchNext PROVE BusSound'
    OBVIOUS
<1> USE DEF BusSound
<1>0. /\ logged \subseteq Events
      /\ worker \in [Workers -> {NoRun} \cup DispatchRuns]
      /\ notice \in [Events -> Notices] /\ told \in [Events -> Nat]
  BY BusTypesSplit
<1>1. BusTypeOK'
  BY DispatchTypes
<1>2. UNCHANGED <<pending, relaying, offset, lastOffset, logged, late, position, walk, dead>>
  BY DEF DispatchNext, InsertNotice, DispatchFails, TrySend, MarkNotice, BudgetSpent, CoolsDown,
         logVars, walkVars
<1>3. LogSound'
  BY <1>2 DEF LogSound
<1> DEFINE Goal == RunsHonest' /\ ToldByNotice' /\ ToldOnce' /\ WalkSound' /\ PassedIsAccountedFor'
<1>4. ASSUME UNCHANGED <<worker, notice, told>> PROVE Goal
  <2>1. RunsHonest' /\ ToldByNotice' /\ ToldOnce'
    BY <1>4 DEF RunsHonest, ToldByNotice, ToldOnce
  <2>2. \A e \in Events : Accounted(e) => Accounted(e)'
    BY <1>2, <1>4 DEF Accounted
  <2>3. WalkSound' /\ PassedIsAccountedFor'
    BY <1>0, <1>2, <1>4, <2>2, HandledStays
  <2> QED BY <2>1, <2>3
<1>5. ASSUME NEW w \in Workers, InsertNotice(w) \/ DispatchFails(w) \/ TrySend(w) \/ MarkNotice(w)
      PROVE  Goal
  <2>0. worker[w].at # "free"
    BY <1>5 DEF InsertNotice, DispatchFails, TrySend, MarkNotice
  <2>1. worker[w] \in DispatchRuns /\ worker[w].e \in Events
    BY <2>0, RunParts
  <2>2. PICK e \in Events : e = worker[w].e
    BY <2>1
  <2>3. PICK v \in Workers : v # w /\ Workers = {v, w}
    BY DEF Workers
  <2>4. /\ worker'[v] = worker[v] /\ worker'[w].e = e /\ worker'[w] # NoRun
        /\ worker[w] # NoRun
        /\ DOMAIN worker = Workers
        /\ worker'[w].at \in {"send", "mark", "ok", "error"}
        /\ worker'[w].at \in {"send", "mark"} =>
              (worker'[w].at = "send" /\ worker[w].at = "start") \/ worker[w].at = "send"
    <3>1. \A d \in DispatchRuns, x \in STRING, n \in Nat :
             /\ [d EXCEPT !.at = x].e = d.e /\ [d EXCEPT !.at = x].at = x
             /\ [d EXCEPT !.rank = n].e = d.e /\ [d EXCEPT !.rank = n].at = d.at
             /\ [d EXCEPT !.at = x, !.sent = TRUE].e = d.e
             /\ [d EXCEPT !.at = x, !.sent = TRUE].at = x
      BY DEF DispatchRuns
    <3>2. CASE InsertNotice(w)
      BY <1>0, <2>1, <2>2, <2>3, <3>2 DEF InsertNotice, Step, NoRun, DispatchRuns
    <3>3. CASE DispatchFails(w)
      BY <1>0, <2>1, <2>2, <2>3, <3>3 DEF DispatchFails, Step, NoRun, DispatchRuns
    <3>4. CASE TrySend(w)
      BY <1>0, <2>1, <2>2, <2>3, <3>4 DEF TrySend, Step, NoRun, DispatchRuns
    <3>5. CASE MarkNotice(w)
      BY <1>0, <2>1, <2>2, <2>3, <3>5 DEF MarkNotice, Step, NoRun, DispatchRuns
    <3> QED BY <1>5, <3>2, <3>3, <3>4, <3>5
  <2>5. /\ \A d \in Events : notice[d] # "none" => notice'[d] # "none"
        /\ \A d \in Events \ {e} : notice'[d] = notice[d] /\ told'[d] = told[d]
    BY <1>0, <1>5, <2>1, <2>2
       DEF InsertNotice, DispatchFails, TrySend, MarkNotice, noticeVars
  <2>6. \A d \in Events : Accounted(d) => Accounted(d)'
    BY <1>2, <2>5 DEF Accounted
  <2>7. worker'["walk"] # NoRun => worker["walk"] # NoRun /\ worker'["walk"].e = worker["walk"].e
    BY <2>2, <2>3, <2>4 DEF Workers
  <2>8. WalkSound' /\ PassedIsAccountedFor'
    BY <1>0, <1>2, <2>6, <2>7, HandledStays
  <2> DEFINE Fits(u) ==
        /\ worker[u].at \in {"start", "send"} => ~ worker[u].sent
        /\ worker[u].at \in {"send", "mark"} =>
              notice[worker[u].e] = "QUEUED" /\ told[worker[u].e] = IF worker[u].sent THEN 1 ELSE 0
        /\ worker[u].at = "ok" => notice[worker[u].e] # "none"
  <2>9. Fits(w) /\ Fits(v)
        /\ (worker[v].at \in {"send", "mark"} /\ worker[w].at \in {"send", "mark"} =>
               worker[v].e # worker[w].e)
    BY <2>3 DEF RunsHonest, Workers
  <2>10. SUFFICES
           /\ Fits(w)' /\ Fits(v)'
           /\ worker'[v].at \in {"send", "mark"} /\ worker'[w].at \in {"send", "mark"} =>
                 worker'[v].e # worker'[w].e
           /\ (notice'[e] = "none" => told'[e] = 0) /\ told'[e] <= 1
           /\ (notice'[e] = "SENT" => told'[e] = 1)
    <3>1. ASSUME /\ Fits(w)' /\ Fits(v)'
                 /\ worker'[v].at \in {"send", "mark"} /\ worker'[w].at \in {"send", "mark"} =>
                       worker'[v].e # worker'[w].e
          PROVE  RunsHonest'
      <4> "walk" \in Workers /\ "replay" \in Workers /\ Workers = {"walk", "replay"}
        BY DEF Workers
      <4>1. CASE v = "walk" /\ w = "replay"
        BY <3>1, <4>1 DEF RunsHonest
      <4>2. CASE v = "replay" /\ w = "walk"
        BY <3>1, <4>2 DEF RunsHonest
      <4> QED BY <2>3, <4>1, <4>2
    <3>2. ASSUME (notice'[e] = "none" => told'[e] = 0) /\ told'[e] <= 1
                 /\ (notice'[e] = "SENT" => told'[e] = 1)
          PROVE  ToldByNotice' /\ ToldOnce'
      BY <2>5, <3>2 DEF ToldByNotice, ToldOnce
    <3> HIDE DEF Fits
    <3> QED BY <2>8, <3>1, <3>2
  <2>11. told[e] \in Nat /\ told[e] <= 1 /\ (notice[e] = "none" => told[e] = 0)
         /\ (notice[e] = "SENT" => told[e] = 1)
    BY <1>0 DEF ToldByNotice, ToldOnce
  <2>12. CASE InsertNotice(w)
    <3>0. worker[w].at = "start" /\ ~ worker[w].sent /\ UNCHANGED told
      BY <2>9, <2>12 DEF InsertNotice
    <3>1. CASE notice[e] # "none"
      <4>1. worker'[w].at = "ok" /\ notice' = notice
        BY <1>0, <2>1, <2>2, <2>12, <3>1 DEF InsertNotice, Step, DispatchRuns
      <4> QED BY <2>4, <2>9, <2>11, <3>0, <3>1, <4>1
    <3>2. CASE notice[e] = "none" /\ e \in Marketing /\ broke
      <4>1. worker'[w].at = "ok" /\ notice' = [notice EXCEPT ![e] = "SUPPRESSED"]
        BY <1>0, <2>1, <2>2, <2>12, <3>2 DEF InsertNotice, Step, DispatchRuns
      <4>2. notice'[e] = "SUPPRESSED"
        BY <1>0, <4>1
      <4>3. worker[v].at \in {"send", "mark", "ok"} => worker[v].e # e
        BY <2>9, <3>2
      <4>4. worker[v].at \in {"send", "mark", "ok"} => notice'[worker[v].e] = notice[worker[v].e]
        BY <1>0, <4>1, <4>3
      <4> QED BY <2>4, <2>9, <2>11, <3>0, <3>2, <4>1, <4>2, <4>4
    <3>3. CASE notice[e] = "none" /\ ~ (e \in Marketing /\ broke)
      <4>1. /\ worker'[w].at = "send" /\ worker'[w].sent = worker[w].sent
            /\ notice' = [notice EXCEPT ![e] = "QUEUED"]
        BY <1>0, <2>1, <2>2, <2>12, <3>3 DEF InsertNotice, Step, DispatchRuns
      <4>2. notice'[e] = "QUEUED"
        BY <1>0, <4>1
      <4>3. worker[v].at \in {"send", "mark", "ok"} => worker[v].e # e
        BY <2>9, <3>3
      <4>4. worker[v].at \in {"send", "mark", "ok"} => notice'[worker[v].e] = notice[worker[v].e]
        BY <1>0, <4>1, <4>3
      <4> QED BY <2>4, <2>9, <2>11, <3>0, <3>3, <4>1, <4>2, <4>3, <4>4
    <3> QED BY <3>1, <3>2, <3>3
  <2>13. CASE DispatchFails(w)
    <3>1. worker'[w].at = "error" /\ UNCHANGED <<notice, told>>
      BY <1>0, <2>1, <2>13 DEF DispatchFails, Step, DispatchRuns, noticeVars
    <3> QED BY <2>4, <2>9, <2>11, <3>1
  <2>14. CASE TrySend(w)
    <3>0. /\ worker[w].at = "send" /\ ~ worker[w].sent /\ notice[e] = "QUEUED" /\ told[e] = 0
          /\ UNCHANGED notice
      BY <2>2, <2>9, <2>14 DEF TrySend
    <3>0a. worker[v].at \in {"send", "mark"} => worker[v].e # e
      BY <2>2, <2>9, <3>0
    <3>1. CASE told' = told /\ worker' \in {[worker EXCEPT ![w].at = "mark"],
                                            [worker EXCEPT ![w].rank = worker[w].rank + 1]}
      <4>1. worker'[w].at \in {"send", "mark"} /\ worker'[w].sent = worker[w].sent
        BY <1>0, <2>1, <3>0, <3>1 DEF DispatchRuns
      <4> QED BY <2>4, <2>9, <2>11, <3>0, <3>0a, <3>1, <4>1
    <3>2. CASE /\ worker' = [worker EXCEPT ![w].at = "mark", ![w].sent = TRUE]
               /\ told' = [told EXCEPT ![e] = @ + 1]
      <4>1. worker'[w].at = "mark" /\ worker'[w].sent = TRUE /\ told'[e] = 1
        BY <1>0, <2>1, <3>0, <3>2 DEF DispatchRuns
      <4>2. worker[v].at \in {"send", "mark"} => told'[worker[v].e] = told[worker[v].e]
        BY <1>0, <3>0a, <3>2
      <4> QED BY <2>4, <2>9, <2>11, <3>0, <3>0a, <4>1, <4>2
    <3> QED BY <2>2, <2>14, <3>1, <3>2 DEF TrySend, Step
  <2>15. CASE MarkNotice(w)
    <3>0. /\ worker[w].at = "mark" /\ notice[e] = "QUEUED" /\ UNCHANGED told
          /\ told[e] = IF worker[w].sent THEN 1 ELSE 0
          /\ notice' = [notice EXCEPT ![e] = IF worker[w].sent THEN "SENT" ELSE "FAILED"]
      BY <2>2, <2>9, <2>15 DEF MarkNotice
    <3>1. worker[v].at \in {"send", "mark"} => worker[v].e # e
      BY <2>2, <2>9, <3>0
    <3>2. worker'[w].at \in {"ok", "error"}
      BY <1>0, <2>1, <2>15 DEF MarkNotice, Step, DispatchRuns
    <3>3. notice'[e] = IF worker[w].sent THEN "SENT" ELSE "FAILED"
      BY <1>0, <3>0
    <3>4. worker[v].at \in {"send", "mark"} => notice'[worker[v].e] = notice[worker[v].e]
      BY <1>0, <3>0, <3>1
    <3>5. worker[v].at = "ok" => notice'[worker[v].e] # "none"
      <4>1. CASE worker[v].e = e
        BY <3>3, <4>1
      <4>2. CASE worker[v].e # e
        BY <1>0, <2>9, <3>0, <4>2
      <4> QED BY <4>1, <4>2
    <3> QED BY <2>4, <2>9, <2>11, <3>0, <3>1, <3>2, <3>3, <3>4, <3>5
  <2> QED BY <1>5, <2>12, <2>13, <2>14, <2>15
<1>6. ASSUME BudgetSpent \/ \E p \in Ranks : CoolsDown(p) PROVE Goal
  <2>1. UNCHANGED <<worker, notice, told>>
    BY <1>6 DEF BudgetSpent, CoolsDown
  <2> QED BY <1>4, <2>1
<1>7. Goal
  <2> HIDE DEF Goal
  <2> QED BY <1>5, <1>6 DEF DispatchNext
<1> QED BY <1>1, <1>3, <1>7

\* The pages: a replay runs beside the walk, and may find the row there.
LEMMA PagesKept == BusSound /\ BusPagesNext => BusSound'
<1> SUFFICES ASSUME BusSound, BusPagesNext PROVE BusSound'
    OBVIOUS
<1> USE DEF BusSound
<1>0. /\ logged \subseteq Events /\ dead \in [Events -> Letters]
      /\ worker \in [Workers -> {NoRun} \cup DispatchRuns]
      /\ "walk" \in Workers /\ "replay" \in Workers
  BY BusTypesSplit DEF Workers
<1>1. BusTypeOK'
  BY PageTypes
<1>2. UNCHANGED <<pending, relaying, offset, lastOffset, logged, late, position, walk, notice, told>>
  BY DEF BusPagesNext, LoadEvents, LoadEventsFails, PressDrain, Drained, Replayed, ReplayStops,
         LoadNotices, LoadNoticesFails, PressReplay, SwitchProvider, logVars, walkVars, noticeVars
<1>3. LogSound' /\ ToldByNotice' /\ ToldOnce'
  BY <1>2 DEF LogSound, ToldByNotice, ToldOnce
<1>4. \/ worker' = worker
      \/ worker' = [worker EXCEPT !["replay"] = NoRun]
      \/ \E e \in Events : worker' = [worker EXCEPT !["replay"] = Run(e)]
  BY DEF BusPagesNext, LoadEvents, LoadEventsFails, PressDrain, Drained, Replayed, ReplayStops,
         LoadNotices, LoadNoticesFails, PressReplay, SwitchProvider
<1>5. worker'["walk"] = worker["walk"]
  BY <1>0, <1>4
<1>6. RunsHonest'
  <2>1. CASE worker' = worker
    BY <1>2, <2>1 DEF RunsHonest
  <2>2. CASE worker' = [worker EXCEPT !["replay"] = NoRun]
    <3>1. worker'["replay"].at = "free"
      BY <1>0, <2>2 DEF NoRun
    <3> QED BY <1>2, <1>5, <3>1 DEF RunsHonest, Workers
  <2>3. ASSUME NEW e \in Events, worker' = [worker EXCEPT !["replay"] = Run(e)] PROVE RunsHonest'
    <3>1. worker'["replay"].at = "start" /\ ~ worker'["replay"].sent
      BY <1>0, <2>3 DEF Run
    <3> QED BY <1>2, <1>5, <3>1 DEF RunsHonest, Workers
  <2> QED BY <1>4, <2>1, <2>2, <2>3
<1>7. \A e \in Events : dead[e] # "none" => dead'[e] # "none"
  <2>1. CASE Replayed
    BY <1>0, <2>1 DEF Replayed
  <2>2. CASE dead' = dead
    BY <2>2
  <2> QED BY <2>1, <2>2
          DEF BusPagesNext, LoadEvents, LoadEventsFails, PressDrain, Drained, ReplayStops,
              LoadNotices, LoadNoticesFails, PressReplay, SwitchProvider, walkVars
<1>8. \A e \in Events : Accounted(e) => Accounted(e)'
  BY <1>2, <1>7 DEF Accounted
<1>9. WalkSound' /\ PassedIsAccountedFor'
  BY <1>0, <1>2, <1>5, <1>8, HandledStays
<1> QED BY <1>1, <1>3, <1>6, <1>9

LEMMA BusSoundKept == BusSound /\ [BusNext]_busVars => BusSound'
<1> SUFFICES ASSUME BusSound, [BusNext]_busVars PROVE BusSound'
    OBVIOUS
<1>1. CASE UNCHANGED busVars
  <2>1. UNCHANGED <<pending, relaying, offset, lastOffset, logged, late, position, walk, dead,
                    worker, notice, told, provider, broke, eventsPage, noticesPage, mishaps>>
    BY <1>1 DEF busVars, logVars, walkVars, noticeVars, busPages
  <2>2. BusTypeOK' /\ LogSound'
    BY <2>1 DEF BusSound, BusTypeOK, LogSound
  <2>3. RunsHonest' /\ ToldByNotice' /\ ToldOnce' /\ WalkSound' /\ PassedIsAccountedFor'
    BY <2>1 DEF BusSound, RunsHonest, ToldByNotice, ToldOnce, WalkSound, Walking, ToHandle,
                Accounted, PassedIsAccountedFor
  <2> QED BY <2>2, <2>3 DEF BusSound
<1> QED BY <1>1, BusLogKept, WalkKept, DispatchKept, PagesKept DEF BusNext

\* The type of the event backbone (bus.go, notify.go) holds in every state.
THEOREM BusTypes == BusSpec => []BusTypeOK
<1>1. BusSound => BusTypeOK
  BY DEF BusSound
<1> QED BY <1>1, BusInitSound, BusSoundKept, PTL DEF BusSpec

\* However many relays, retries, crashes and replays there are, nobody is told twice of
\* an event, and what the log calls SENT was sent (notify.go:89-91): ToldOnce.
THEOREM ToldOnceAlways == BusSpec => []ToldOnce
<1>1. BusSound => ToldOnce
  BY DEF BusSound
<1> QED BY <1>1, BusInitSound, BusSoundKept, PTL DEF BusSpec

\* Whatever number of relays and events, the checkpoint leaves behind only what was
\* handled, is a dead letter, or was committed late (bus.go:208-214):
\* PassedIsAccountedFor.
THEOREM PassedIsAlwaysAccountedFor == BusSpec => []PassedIsAccountedFor
<1>1. BusSound => PassedIsAccountedFor
  BY DEF BusSound
<1> QED BY <1>1, BusInitSound, BusSoundKept, PTL DEF BusSpec

-----------------------------------------------------------------------------
(* Boarding                                                                 *)

\* The server has the boarding of scan r on record, or has made it.
KnownToServer(r) == row[r] # NoVerdict \/ marked[r] # {}

\* A ticket that is marked is valid never again, so no other scan marks it; and what a
\* scan has on record as having boarded is a ticket it has marked.
MarksSound ==
    /\ \A r \in Scans : \A t \in marked[r] : ticket[t] # "VALID"
    /\ \A q, r \in Scans : q # r => marked[q] \cap marked[r] = {}
    /\ \A r \in Scans : row[r].result = "BOARDED" => row[r].ticket \in marked[r]

\* What a request has settled or is about to record of the scan it is at.
RequestSound(c) ==
    conn[c] # NoRequest =>
        /\ conn[c].kind = "scan" => conn[c].todo # <<>>
        /\ \A r \in conn[c].done : KnownToServer(r)
        /\ conn[c].todo # <<>> =>
             /\ conn[c].at = "mark" =>
                   conn[c].verdict.result = "BOARDED" /\ conn[c].verdict.ticket \in Tickets
             /\ conn[c].at = "record" /\ conn[c].verdict.result = "BOARDED" =>
                   conn[c].verdict.ticket \in marked[CurrentScan(c)]
             /\ conn[c].at = "answer" /\ conn[c].ok => KnownToServer(CurrentScan(c))

RequestsSound == \A c \in Conns : RequestSound(c)

BoardingSound == BoardingTypeOK /\ MarksSound /\ RequestsSound /\ NoBoardingForgotten


LEMMA NumberedTickets == Tickets \subseteq Nat \ {0} /\ 0 \notin Tickets /\ OnTrip \subseteq Tickets
BY BoardingConstants

\* The first of a set of tickets is one of them.
LEMMA FirstOf == ASSUME NEW S \in SUBSET Tickets, S # {} PROVE Min(S) \in S
<1>1. S \in SUBSET Nat
  BY NumberedTickets
<1>2. PICK s : s \in S
  OBVIOUS
<1>3. \E n \in S : \A m \in S : n <= m
  BY <1>1, <1>2, LeastNat
<1> QED BY <1>3 DEF Min

LEMMA FirstTicketIn ==
    ASSUME NEW S \in SUBSET Tickets, S # {} PROVE FirstTicket(S) \in S
<1> DEFINE waiting == {t \in S : ticket[t] = "VALID"}
<1>1. waiting \in SUBSET Tickets /\ waiting \in SUBSET S
  OBVIOUS
<1>2. waiting # {} => Min(waiting) \in waiting
  <2> HIDE DEF waiting
  <2> QED BY <1>1, FirstOf
<1>3. Min(S) \in S
  BY FirstOf
<1> QED BY <1>1, <1>2, <1>3 DEF FirstTicket

\* A request one can look into.
LEMMA RequestParts ==
    ASSUME BoardingTypeOK, NEW c \in Conns, conn[c] # NoRequest
    PROVE  /\ conn[c] \in ScanRequests /\ conn[c].from \in Devices /\ conn[c].todo \in Seq(Scans)
           /\ conn[c].kind \in {"scan", "flush"}
           /\ conn[c].done \in SUBSET Scans /\ conn[c].verdict \in Verdicts \cup {NoVerdict}
           /\ conn[c].at \in {"prior", "find", "mark", "record", "answer"} /\ conn[c].ok \in BOOLEAN
           /\ conn[c].todo # <<>> => CurrentScan(c) \in Scans /\ Tail(conn[c].todo) \in Seq(Scans)
<1>1. conn[c] \in ScanRequests
  BY DEF BoardingTypeOK
<1>2. /\ conn[c].from \in Devices /\ conn[c].todo \in Seq(Scans)
      /\ conn[c].kind \in {"scan", "flush"}
      /\ conn[c].done \in SUBSET Scans /\ conn[c].verdict \in Verdicts \cup {NoVerdict}
      /\ conn[c].at \in {"prior", "find", "mark", "record", "answer"} /\ conn[c].ok \in BOOLEAN
  BY <1>1 DEF ScanRequests
<1> QED BY <1>1, <1>2 DEF CurrentScan

\* What a request may become: each of the updates its handlers make.
LEMMA RequestUpdates ==
    ASSUME NEW q \in ScanRequests
    PROVE  /\ \A at \in {"prior", "find", "mark", "record", "answer"},
                 v \in Verdicts \cup {NoVerdict}, b \in BOOLEAN :
                 /\ [q EXCEPT !.at = at, !.verdict = v] \in ScanRequests
                 /\ [q EXCEPT !.at = at, !.verdict = v, !.ok = b] \in ScanRequests
           /\ \A todo \in Seq(Scans), D \in SUBSET Scans :
                 [q EXCEPT !.todo = todo, !.at = "prior", !.verdict = NoVerdict, !.ok = FALSE,
                           !.done = D] \in ScanRequests
BY DEF ScanRequests

LEMMA NewRequest ==
    ASSUME NEW k \in {"scan", "flush"}, NEW d \in Devices, NEW q \in Seq(Scans)
    PROVE  Request(k, d, q) \in ScanRequests
BY DEF Request, ScanRequests

LEMMA ServerListType == ServerList \in Lists
BY NumberedTickets DEF ServerList, Lists

LEMMA JudgeType == ASSUME NEW t PROVE Judge(t) \in ScanResults \ {"NOT_FOUND", "BAD_TOKEN"}
BY DEF Judge, ScanResults

-----------------------------------------------------------------------------

\* A step of one connection on what it carries, the devices and the rows apart.
Carries(c) == conn' \in [Conns -> ScanRequests \cup {NoRequest}]

LEMMA BoardingTypeKept ==
    ASSUME BoardingTypeOK, RequestsSound, [BoardingNext]_boardingVars PROVE BoardingTypeOK'
<1>0. /\ ticket \in [Tickets -> {"VALID", "BOARDED", "CANCELLED"}]
      /\ row \in [Scans -> Verdicts \cup {NoVerdict}]
      /\ scan \in [Scans -> Payloads \cup {Unread}] /\ provisional \subseteq Scans
      /\ manifest \in [Devices -> Lists] /\ queue \in [Devices -> Seq(Scans)]
      /\ conn \in [Conns -> ScanRequests \cup {NoRequest}]
      /\ marked \in [Scans -> SUBSET Tickets]
  BY DEF BoardingTypeOK
<1>a. \A d \in Devices : ReloadList(d) => manifest' \in [Devices -> Lists]
  BY <1>0, ServerListType DEF ReloadList
<1>b. NoRequest.kind = "idle" /\ NoRequest \notin ScanRequests
  BY DEF NoRequest, ScanRequests
<1>c. NoVerdict \in Verdicts \cup {NoVerdict}
  OBVIOUS
<1>1. CASE UNCHANGED boardingVars
  BY <1>0, <1>1 DEF BoardingTypeOK, boardingVars, records, device
<1>2. ASSUME NEW d \in Devices, LoadManifest(d) PROVE BoardingTypeOK'
  BY <1>0, <1>2, ServerListType DEF LoadManifest, BoardingTypeOK, records
<1>3. ASSUME NEW d \in Devices, NEW c \in Conns, FlushQueue(d, c) PROVE BoardingTypeOK'
  <2>1. Request("flush", d, queue[d]) \in ScanRequests
    BY <1>0, NewRequest
  <2>2. conn' \in [Conns -> ScanRequests \cup {NoRequest}]
    BY <1>0, <1>3, <2>1 DEF FlushQueue
  <2> QED BY <1>0, <1>3, <2>2 DEF FlushQueue, BoardingTypeOK, records, device
<1>4. ASSUME NEW d \in Devices, NEW c \in Conns, NEW r \in Scans, NEW p \in Pnrs,
             NEW seat \in {t \in Tickets : PnrOf[t] = p} \cup {AnySeat}, Scan(d, c, r, p, seat)
      PROVE  BoardingTypeOK'
  <2>1. Request("scan", d, <<r>>) \in ScanRequests
    <3>1. <<r>> \in Seq(Scans)
      OBVIOUS
    <3> QED BY <3>1, NewRequest
  <2>2. conn' \in [Conns -> ScanRequests \cup {NoRequest}]
    BY <1>0, <1>4, <2>1 DEF Scan
  <2>3. [pnr |-> p, seat |-> seat, by |-> d] \in Payloads
    BY DEF Payloads
  <2>4. scan' \in [Scans -> Payloads \cup {Unread}]
    BY <1>0, <1>4, <2>3 DEF Scan
  <2> QED BY <1>0, <1>4, <2>2, <2>4 DEF Scan, BoardingTypeOK, records
<1>5. ASSUME NEW c \in Conns,
             VerdictShown(c) \/ NoLineScanning(c) \/ FlushedOne(c) \/ NoLineFlushing(c) \/ FlushEnds(c)
      PROVE  BoardingTypeOK'
  <2>0. conn[c] # NoRequest
    BY <1>5, <1>b DEF VerdictShown, NoLineScanning, FlushedOne, NoLineFlushing, FlushEnds, Flushing
  <2>1. /\ conn[c] \in ScanRequests /\ conn[c].from \in Devices /\ conn[c].todo \in Seq(Scans)
        /\ conn[c].done \in SUBSET Scans
        /\ conn[c].todo # <<>> => CurrentScan(c) \in Scans /\ Tail(conn[c].todo) \in Seq(Scans)
    BY <2>0, RequestParts
  <2>2. CASE VerdictShown(c)
    BY <1>0, <1>a, <2>1, <2>2 DEF VerdictShown, BoardingTypeOK, records
  <2>3. CASE NoLineScanning(c)
    <3>1. conn[c].todo # <<>>
      BY <2>0, <2>3 DEF NoLineScanning, RequestsSound, RequestSound
    <3>2. Append(queue[conn[c].from], CurrentScan(c)) \in Seq(Scans)
      BY <1>0, <2>1, <3>1
    <3> QED BY <1>0, <2>1, <2>3, <3>1, <3>2 DEF NoLineScanning, CurrentScan, BoardingTypeOK, records
  <2>4. ASSUME NEW S \in SUBSET Scans, NextScan(c, S), Flushing(c), UNCHANGED <<records, device>>
        PROVE  BoardingTypeOK'
    <3>1. Tail(conn[c].todo) \in Seq(Scans) /\ conn[c].done \cup S \in SUBSET Scans
      BY <2>1, <2>4 DEF Flushing
    <3>2. [conn[c] EXCEPT !.todo = Tail(conn[c].todo), !.at = "prior", !.verdict = NoVerdict,
                          !.ok = FALSE, !.done = conn[c].done \cup S] \in ScanRequests
      BY <2>1, <3>1, RequestUpdates
    <3>3. conn' = [conn EXCEPT ![c] =
             [conn[c] EXCEPT !.todo = Tail(conn[c].todo), !.at = "prior", !.verdict = NoVerdict,
                             !.ok = FALSE, !.done = conn[c].done \cup S]]
      BY <1>0, <2>4 DEF NextScan
    <3> QED BY <1>0, <2>4, <3>2, <3>3 DEF BoardingTypeOK, records, device
  <2>5. CASE FlushedOne(c)
    BY <2>1, <2>4, <2>5 DEF FlushedOne, Flushing, CurrentScan
  <2>6. CASE NoLineFlushing(c)
    BY <2>4, <2>6 DEF NoLineFlushing
  <2>7. CASE FlushEnds(c)
    <3>1. Without(queue[conn[c].from], conn[c].done) \in Seq(Scans)
      BY <1>0, <2>1, WithoutLeaves
    <3> QED BY <1>0, <1>a, <2>1, <2>7, <3>1 DEF FlushEnds, BoardingTypeOK, records
  <2> QED BY <1>5, <2>2, <2>3, <2>5, <2>6, <2>7
<1>6. ASSUME NEW c \in Conns, Prior(c) \/ Find(c) \/ Mark(c) \/ RecordScan(c)
      PROVE  BoardingTypeOK'
  <2>0. conn[c] # NoRequest /\ conn[c].todo # <<>>
    BY <1>6 DEF Prior, Find, Mark, RecordScan, AtStep
  <2>1. /\ conn[c] \in ScanRequests /\ conn[c].verdict \in Verdicts \cup {NoVerdict}
        /\ CurrentScan(c) \in Scans
    BY <2>0, RequestParts
  <2>2. ASSUME NEW at \in {"find", "mark", "record"}, NEW v \in Verdicts \cup {NoVerdict},
               GoesOn(c, at, v)
        PROVE  Carries(c)
    <3>1. conn' = [conn EXCEPT ![c] = [conn[c] EXCEPT !.at = at, !.verdict = v]]
      BY <1>0, <2>2 DEF GoesOn
    <3>2. [conn[c] EXCEPT !.at = at, !.verdict = v] \in ScanRequests
      BY <2>1, RequestUpdates
    <3> QED BY <1>0, <3>1, <3>2 DEF Carries
  <2>3. ASSUME NEW b \in BOOLEAN, Respond(c, b) PROVE Carries(c)
    <3>1. (b /\ conn[c].kind = "flush") \in BOOLEAN
      OBVIOUS
    <3>2. conn' = [conn EXCEPT ![c] = [conn[c] EXCEPT !.at = "answer", !.verdict = NoVerdict,
                                                      !.ok = b /\ conn[c].kind = "flush"]]
      BY <1>0, <2>3 DEF Respond
    <3>3. [conn[c] EXCEPT !.at = "answer", !.verdict = NoVerdict,
                          !.ok = b /\ conn[c].kind = "flush"] \in ScanRequests
      BY <2>1, <3>1, RequestUpdates, Zenon
    <3> QED BY <1>0, <3>2, <3>3 DEF Carries
  <2>4. ASSUME NEW res \in ScanResults, NEW t \in Tickets \cup {0}
        PROVE  Verdict(res, t) \in Verdicts \cup {NoVerdict}
    BY DEF Verdict, Verdicts
  <2>5. CASE Prior(c)
    <3>1. Carries(c)
      BY <1>c, <2>2, <2>3, <2>5 DEF Prior
    <3> QED BY <1>0, <2>5, <3>1 DEF Prior, Carries, BoardingTypeOK, records, device
  <2>6. CASE Find(c)
    <3> DEFINE found == TicketsFor(scan[CurrentScan(c)])
               t     == FirstTicket(found)
    <3>1. found \in SUBSET Tickets
      BY DEF TicketsFor
    <3>2. found # {} => t \in Tickets
      <4> HIDE DEF found
      <4> QED BY <3>1, FirstTicketIn
    <3>3. /\ \/ GoesOn(c, "record", Verdict("BAD_TOKEN", 0))
             \/ GoesOn(c, "record", Verdict("NOT_FOUND", 0))
             \/ /\ found # {}
                /\ \/ GoesOn(c, "mark", Verdict(Judge(t), t))
                   \/ GoesOn(c, "record", Verdict(Judge(t), t))
          /\ UNCHANGED <<records, device>>
      BY <2>6 DEF Find
    <3> HIDE DEF found, t
    <3>4. ASSUME GoesOn(c, "record", Verdict("BAD_TOKEN", 0)) PROVE Carries(c)
      BY <2>2, <2>4, <3>4 DEF ScanResults
    <3>5. ASSUME GoesOn(c, "record", Verdict("NOT_FOUND", 0)) PROVE Carries(c)
      BY <2>2, <2>4, <3>5 DEF ScanResults
    <3>6. ASSUME found # {}, NEW at \in {"mark", "record"}, GoesOn(c, at, Verdict(Judge(t), t))
          PROVE  Carries(c)
      <4>1. Verdict(Judge(t), t) \in Verdicts \cup {NoVerdict}
        BY <2>4, <3>2, <3>6, JudgeType
      <4> QED BY <2>2, <3>6, <4>1
    <3>7. Carries(c)
      BY <3>3, <3>4, <3>5, <3>6
    <3> QED BY <1>0, <3>3, <3>7 DEF Carries, BoardingTypeOK, records, device
  <2>7. CASE Mark(c)
    <3>0. conn[c].verdict.ticket \in Tickets
      BY <2>0, <2>7 DEF Mark, AtStep, RequestsSound, RequestSound
    <3>1. Carries(c)
      <4>1. Verdict("ALREADY_BOARDED", conn[c].verdict.ticket) \in Verdicts \cup {NoVerdict}
        BY <2>4, <3>0 DEF ScanResults
      <4> QED BY <2>1, <2>2, <2>7, <4>1 DEF Mark
    <3>2. ticket' \in [Tickets -> {"VALID", "BOARDED", "CANCELLED"}]
          /\ marked' \in [Scans -> SUBSET Tickets]
      <4> DEFINE u == conn[c].verdict.ticket
                 r == CurrentScan(c)
      <4>1. \/ ticket' = [ticket EXCEPT ![u] = "BOARDED"] /\ marked' = [marked EXCEPT ![r] = @ \cup {u}]
            \/ ticket' = ticket /\ marked' = marked
        BY <2>7 DEF Mark
      <4> HIDE DEF u, r
      <4>2. u \in Tickets /\ r \in Scans
        BY <2>1, <3>0 DEF u, r
      <4>3. ticket' \in [Tickets -> {"VALID", "BOARDED", "CANCELLED"}]
        BY <1>0, <4>1, <4>2
      <4>4. marked[r] \cup {u} \in SUBSET Tickets
        BY <1>0, <4>2
      <4>5. marked' \in [Scans -> SUBSET Tickets]
        BY <1>0, <4>1, <4>2, <4>4
      <4> QED BY <4>3, <4>5
    <3> QED BY <1>0, <2>7, <3>1, <3>2 DEF Mark, Carries, BoardingTypeOK, device
  <2>8. CASE RecordScan(c)
    <3>1. Carries(c)
      BY <2>3, <2>8 DEF RecordScan
    <3>2. row' \in [Scans -> Verdicts \cup {NoVerdict}]
      BY <1>0, <2>1, <2>8 DEF RecordScan
    <3> QED BY <1>0, <2>8, <3>1, <3>2 DEF RecordScan, Carries, BoardingTypeOK, device
  <2> QED BY <1>6, <2>5, <2>6, <2>7, <2>8
<1>7. ASSUME NEW p \in Pnrs, CancelBooking(p) PROVE BoardingTypeOK'
  <2>1. ticket' \in [Tickets -> {"VALID", "BOARDED", "CANCELLED"}]
    BY <1>0, <1>7 DEF CancelBooking
  <2> QED BY <1>0, <1>7, <2>1 DEF CancelBooking, BoardingTypeOK, device
<1> QED BY <1>1, <1>2, <1>3, <1>4, <1>5, <1>6, <1>7 DEF BoardingNext


-----------------------------------------------------------------------------
(* The invariant                                                            *)

LEMMA BoardingInitSound == BoardingInit => BoardingSound
<1> SUFFICES ASSUME BoardingInit PROVE BoardingSound
    OBVIOUS
<1> USE DEF BoardingInit
<1>1. /\ ticket \in [Tickets -> {"VALID", "BOARDED", "CANCELLED"}]
      /\ row \in [Scans -> Verdicts \cup {NoVerdict}] /\ scan \in [Scans -> Payloads \cup {Unread}]
      /\ provisional \subseteq Scans /\ queue \in [Devices -> Seq(Scans)]
      /\ conn \in [Conns -> ScanRequests \cup {NoRequest}] /\ marked \in [Scans -> SUBSET Tickets]
  OBVIOUS
<1>2. manifest \in [Devices -> Lists]
  BY DEF Lists
<1>3. \A r \in Scans : row[r].result # "BOARDED" /\ marked[r] = {}
  BY DEF NoVerdict
<1>4. MarksSound
  BY <1>3 DEF MarksSound
<1>5. RequestsSound /\ NoBoardingForgotten
  BY DEF RequestsSound, RequestSound, NoBoardingForgotten
<1> QED BY <1>1, <1>2, <1>4, <1>5 DEF BoardingSound, BoardingTypeOK

\* A step of one connection that takes nothing from the server's records.
LEMMA OthersSound ==
    ASSUME RequestsSound, NEW c \in Conns, NEW x, conn \in [Conns -> ScanRequests \cup {NoRequest}],
           conn' = [conn EXCEPT ![c] = x],
           \A c2 \in Conns : conn[c2] # NoRequest => conn[c2].done \subseteq Scans
               /\ (conn[c2].todo # <<>> => CurrentScan(c2) \in Scans),
           \A r \in Scans : (KnownToServer(r) => KnownToServer(r)') /\ marked[r] \subseteq marked'[r],
           RequestSound(c)'
    PROVE  RequestsSound'
<1> SUFFICES ASSUME NEW c2 \in Conns PROVE RequestSound(c2)'
    BY DEF RequestsSound, RequestSound, KnownToServer, CurrentScan
<1>1. CASE c2 = c
  BY <1>1
<1>2. CASE c2 # c
  <2>1. conn'[c2] = conn[c2]
    BY <1>2
  <2>2. RequestSound(c2)
    BY DEF RequestsSound
  <2> QED BY <2>1, <2>2 DEF RequestSound, CurrentScan
<1> QED BY <1>1, <1>2


\* Nothing that was in a queue, on record or marked is lost.
LEMMA NothingLost ==
    ASSUME NoBoardingForgotten,
           \A r \in Scans : KnownToServer(r) => KnownToServer(r)',
           \A r \in Scans : r \in provisional' =>
              \/ r \in provisional
              \/ \E d \in Devices : Contains(queue'[d], r),
           \A r \in Scans, d \in Devices : Contains(queue[d], r) =>
              (\E e \in Devices : Contains(queue'[e], r)) \/ KnownToServer(r)'
    PROVE  NoBoardingForgotten'
<1> HIDE DEF Contains
<1> QED BY DEF NoBoardingForgotten, KnownToServer

\* What the devices do: the records of the server stay, and a scan leaves a queue only
\* when it is known to the server.
LEMMA DevicesKept ==
    ASSUME BoardingSound, BoardingTypeOK', UNCHANGED records,
           \/ \E d \in Devices : LoadManifest(d)
           \/ \E d \in Devices, c \in Conns : FlushQueue(d, c)
           \/ \E d \in Devices, c \in Conns, r \in Scans, p \in Pnrs :
                 \E seat \in {t \in Tickets : PnrOf[t] = p} \cup {AnySeat} : Scan(d, c, r, p, seat)
           \/ \E c \in Conns : VerdictShown(c) \/ NoLineScanning(c) \/ FlushedOne(c)
                               \/ NoLineFlushing(c) \/ FlushEnds(c)
    PROVE  BoardingSound'
<1> USE DEF BoardingSound
<1>0. /\ queue \in [Devices -> Seq(Scans)] /\ conn \in [Conns -> ScanRequests \cup {NoRequest}]
      /\ queue' \in [Devices -> Seq(Scans)]
  BY DEF BoardingTypeOK
<1>b. NoRequest.kind = "idle" /\ NoRequest \notin ScanRequests
  BY DEF NoRequest, ScanRequests
<1>1. MarksSound'
  BY DEF MarksSound, records
<1>2. \A r \in Scans : (KnownToServer(r) <=> KnownToServer(r)') /\ marked[r] \subseteq marked'[r]
  BY DEF KnownToServer, records
<1>3. \A c2 \in Conns : conn[c2] # NoRequest => conn[c2].done \subseteq Scans
         /\ (conn[c2].todo # <<>> => CurrentScan(c2) \in Scans)
  BY RequestParts
<1>4. ASSUME UNCHANGED <<queue, provisional>> PROVE NoBoardingForgotten'
  BY <1>4 DEF NoBoardingForgotten, records
<1>5. ASSUME NEW d \in Devices, LoadManifest(d) PROVE BoardingSound'
  <2>1. UNCHANGED <<queue, provisional, conn>>
    BY <1>5 DEF LoadManifest
  <2>2. RequestsSound'
    BY <2>1 DEF RequestsSound, RequestSound, KnownToServer, CurrentScan, records
  <2> QED BY <1>1, <1>4, <2>1, <2>2
<1>6. ASSUME NEW c \in Conns, NEW k \in {"scan", "flush"}, NEW d \in Devices, NEW q \in Seq(Scans),
             conn' = [conn EXCEPT ![c] = Request(k, d, q)], q # <<>>,
             UNCHANGED <<queue, provisional>>
      PROVE  BoardingSound'
  <2>1. conn'[c] = Request(k, d, q)
    BY <1>0, <1>6
  <2>2. RequestSound(c)'
    BY <1>6, <2>1 DEF RequestSound, Request
  <2>3. RequestsSound'
    BY <1>0, <1>2, <1>3, <1>6, <2>2, OthersSound
  <2> QED BY <1>1, <1>4, <1>6, <2>3
<1>7. ASSUME NEW d \in Devices, NEW c \in Conns, FlushQueue(d, c) PROVE BoardingSound'
  <2>1. UNCHANGED <<queue, provisional>> /\ conn' = [conn EXCEPT ![c] = Request("flush", d, queue[d])]
        /\ queue[d] \in Seq(Scans) /\ queue[d] # <<>>
    BY <1>0, <1>7 DEF FlushQueue, device
  <2> QED BY <1>6, <2>1
<1>8. ASSUME NEW d \in Devices, NEW c \in Conns, NEW r \in Scans, NEW p \in Pnrs,
             NEW seat \in {t \in Tickets : PnrOf[t] = p} \cup {AnySeat}, Scan(d, c, r, p, seat)
      PROVE  BoardingSound'
  <2>1. UNCHANGED <<queue, provisional>> /\ conn' = [conn EXCEPT ![c] = Request("scan", d, <<r>>)]
        /\ <<r>> \in Seq(Scans) /\ <<r>> # <<>>
    BY <1>8 DEF Scan
  <2> QED BY <1>6, <2>1
<1>9. ASSUME NEW c \in Conns, conn' = [conn EXCEPT ![c] = NoRequest] PROVE RequestsSound'
  <2>1. RequestSound(c)'
    BY <1>0, <1>9 DEF RequestSound
  <2> QED BY <1>0, <1>2, <1>3, <1>9, <2>1, OthersSound
<1>10. ASSUME NEW c \in Conns, VerdictShown(c) PROVE BoardingSound'
  <2>1. UNCHANGED <<queue, provisional>> /\ conn' = [conn EXCEPT ![c] = NoRequest]
    BY <1>10 DEF VerdictShown
  <2> QED BY <1>1, <1>4, <1>9, <2>1
<1>11. ASSUME NEW c \in Conns, NoLineScanning(c) PROVE BoardingSound'
  <2>0. conn' = [conn EXCEPT ![c] = NoRequest] /\ conn[c] # NoRequest /\ conn[c].kind = "scan"
    BY <1>11, <1>b DEF NoLineScanning
  <2>1. conn[c].from \in Devices /\ conn[c].todo # <<>> /\ CurrentScan(c) \in Scans
    BY <2>0, RequestParts DEF RequestsSound, RequestSound
  <2>2. CASE UNCHANGED <<queue, provisional>>
    BY <1>1, <1>4, <1>9, <2>0, <2>2
  <2>3. CASE /\ queue' = [queue EXCEPT ![conn[c].from] = Append(@, CurrentScan(c))]
             /\ provisional' = provisional \cup {CurrentScan(c)}
    <3>1. PICK d \in Devices, r \in Scans : d = conn[c].from /\ r = CurrentScan(c)
      BY <2>1
    <3>2. queue[d] \in Seq(Scans) /\ queue'[d] = Append(queue[d], r)
          /\ \A e \in Devices : e # d => queue'[e] = queue[e]
      BY <1>0, <2>3, <3>1
    <3>3. Contains(queue'[d], r) /\ \A s \in Scans : Contains(queue[d], s) => Contains(queue'[d], s)
      <4>1. Len(queue'[d]) = Len(queue[d]) + 1 /\ Len(queue[d]) \in Nat
            /\ queue'[d][Len(queue[d]) + 1] = r
            /\ \A i \in 1 .. Len(queue[d]) : queue'[d][i] = queue[d][i]
        BY <3>2
      <4> QED BY <4>1 DEF Contains
    <3>4. NoBoardingForgotten'
      <4>1. \A s \in Scans : s \in provisional' => s \in provisional \/ Contains(queue'[d], s)
        BY <2>3, <3>1, <3>3
      <4>2. \A s \in Scans, f \in Devices :
               Contains(queue[f], s) => \E e \in Devices : Contains(queue'[e], s)
        BY <3>2, <3>3
      <4> QED BY <1>2, <4>1, <4>2, NothingLost
    <3> QED BY <1>1, <1>9, <2>0, <3>4
  <2> QED BY <1>11, <2>2, <2>3 DEF NoLineScanning, CurrentScan
<1>12. ASSUME NEW c \in Conns, NEW S \in SUBSET Scans, Flushing(c), NextScan(c, S),
              \A r \in S : KnownToServer(r), UNCHANGED <<queue, provisional>>
       PROVE  BoardingSound'
  <2>0. conn[c] # NoRequest /\ conn[c] \in ScanRequests /\ conn[c].kind = "flush"
        /\ conn[c].done \in SUBSET Scans
    BY <1>12, <1>b, RequestParts DEF Flushing
  <2> DEFINE x == [conn[c] EXCEPT !.todo = Tail(conn[c].todo), !.at = "prior", !.verdict = NoVerdict,
                                  !.ok = FALSE, !.done = conn[c].done \cup S]
  <2>1. conn' = [conn EXCEPT ![c] = x]
    BY <1>0, <1>12 DEF NextScan
  <2>2. x.kind = "flush" /\ x.at = "prior" /\ x.done = conn[c].done \cup S
    BY <2>0 DEF ScanRequests
  <2>3. conn'[c] = x
    BY <1>0, <2>1
  <2> HIDE DEF x
  <2>4. RequestSound(c)'
    <3>1. \A r \in conn[c].done : KnownToServer(r)
      BY <2>0 DEF RequestsSound, RequestSound
    <3>2. \A r \in x.done : KnownToServer(r)'
      BY <1>2, <1>12, <2>0, <2>2, <3>1
    <3> QED BY <2>2, <2>3, <3>2 DEF RequestSound, KnownToServer
  <2>5. RequestsSound'
    BY <1>0, <1>2, <1>3, <2>1, <2>4, OthersSound
  <2> QED BY <1>1, <1>4, <1>12, <2>5
<1>13. ASSUME NEW c \in Conns, FlushedOne(c) PROVE BoardingSound'
  <2>0. conn[c] # NoRequest
    BY <1>13, <1>b DEF FlushedOne, Flushing
  <2>1. CurrentScan(c) \in Scans
    BY <1>13, <2>0, RequestParts DEF FlushedOne, Flushing
  <2>2. conn[c].ok => KnownToServer(CurrentScan(c))
    BY <1>13, <2>0 DEF FlushedOne, Flushing, RequestsSound, RequestSound
  <2>3. NextScan(c, IF conn[c].ok THEN {CurrentScan(c)} ELSE {}) /\ Flushing(c)
        /\ UNCHANGED <<queue, provisional>>
    BY <1>13 DEF FlushedOne, CurrentScan, device
  <2> QED BY <1>12, <2>1, <2>2, <2>3
<1>14. ASSUME NEW c \in Conns, NoLineFlushing(c) PROVE BoardingSound'
  BY <1>12, <1>14 DEF NoLineFlushing, device
<1>15. ASSUME NEW c \in Conns, FlushEnds(c) PROVE BoardingSound'
  <2>0. conn' = [conn EXCEPT ![c] = NoRequest] /\ conn[c] # NoRequest
        /\ queue' = [queue EXCEPT ![conn[c].from] = Without(@, conn[c].done)]
        /\ UNCHANGED provisional
    BY <1>15, <1>b DEF FlushEnds
  <2>1. conn[c].from \in Devices /\ \A r \in conn[c].done : KnownToServer(r)
    BY <2>0, RequestParts DEF RequestsSound, RequestSound
  <2>2. PICK d \in Devices : d = conn[c].from
    BY <2>1
  <2>3. queue[d] \in Seq(Scans) /\ queue'[d] = Without(queue[d], conn[c].done)
        /\ \A e \in Devices : e # d => queue'[e] = queue[e]
    BY <1>0, <2>0, <2>2
  <2>4. \A r \in Scans : Contains(queue[d], r) => Contains(queue'[d], r) \/ r \in conn[c].done
    BY <2>3, WithoutLeaves DEF Contains
  <2>5. \A r \in Scans, f \in Devices : Contains(queue[f], r) =>
           (\E e \in Devices : Contains(queue'[e], r)) \/ KnownToServer(r)'
    BY <1>2, <2>1, <2>3, <2>4
  <2>6. NoBoardingForgotten'
    BY <1>2, <2>0, <2>5, NothingLost
  <2> QED BY <1>1, <1>9, <2>0, <2>6
<1> QED BY <1>5, <1>7, <1>8, <1>10, <1>11, <1>13, <1>14, <1>15


\* What the server does, one statement at a time: only a valid ticket is marked, and
\* what is marked or on record stays.
LEMMA ServerKept ==
    ASSUME BoardingSound, BoardingTypeOK', NEW c \in Conns,
           Prior(c) \/ Find(c) \/ Mark(c) \/ RecordScan(c)
    PROVE  BoardingSound'
<1> USE DEF BoardingSound
<1>0. /\ row \in [Scans -> Verdicts \cup {NoVerdict}] /\ marked \in [Scans -> SUBSET Tickets]
      /\ ticket \in [Tickets -> {"VALID", "BOARDED", "CANCELLED"}]
      /\ conn \in [Conns -> ScanRequests \cup {NoRequest}]
  BY DEF BoardingTypeOK
<1>1. conn[c] # NoRequest /\ conn[c].todo # <<>>
  BY DEF Prior, Find, Mark, RecordScan, AtStep
<1>2. PICK r \in Scans : r = CurrentScan(c)
  BY <1>1, RequestParts
<1>3. \A c2 \in Conns : conn[c2] # NoRequest => conn[c2].done \subseteq Scans
         /\ (conn[c2].todo # <<>> => CurrentScan(c2) \in Scans)
  BY RequestParts
<1>4. /\ conn[c] \in ScanRequests /\ conn[c].verdict \in Verdicts \cup {NoVerdict}
      /\ conn[c].done \in SUBSET Scans
  BY <1>1, RequestParts
<1>5. /\ conn[c].kind = "scan" => conn[c].todo # <<>>
      /\ \A s \in conn[c].done : KnownToServer(s)
  BY <1>1 DEF RequestsSound, RequestSound
\* The request goes on with a verdict, or is answered.
<1> DEFINE Grows == \A s \in Scans : (KnownToServer(s) => KnownToServer(s)')
                                     /\ marked[s] \subseteq marked'[s]
<1>6. ASSUME Grows, NEW at \in {"find", "mark", "record"}, NEW v, GoesOn(c, at, v),
             at = "mark" => v.result = "BOARDED" /\ v.ticket \in Tickets,
             at = "record" /\ v.result = "BOARDED" => v.ticket \in marked'[r]
      PROVE  RequestsSound'
  <2> DEFINE x == [conn[c] EXCEPT !.at = at, !.verdict = v]
  <2>1. conn' = [conn EXCEPT ![c] = x]
    BY <1>0, <1>6 DEF GoesOn
  <2>2. /\ conn'[c] = x /\ x.at = at /\ x.verdict = v /\ x.kind = conn[c].kind
        /\ x.todo = conn[c].todo /\ x.done = conn[c].done
    BY <1>0, <1>4, <2>1 DEF ScanRequests
  <2> HIDE DEF x
  <2>3. CurrentScan(c)' = r
    BY <1>2, <2>2 DEF CurrentScan
  <2>4. RequestSound(c)'
    BY <1>4, <1>5, <1>6, <2>2, <2>3 DEF RequestSound, KnownToServer
  <2> QED BY <1>0, <1>3, <1>6, <2>1, <2>4, OthersSound
<1>7. ASSUME Grows, NEW b \in BOOLEAN, Respond(c, b), b => KnownToServer(r)'
      PROVE  RequestsSound'
  <2> DEFINE x == [conn[c] EXCEPT !.at = "answer", !.verdict = NoVerdict,
                                  !.ok = b /\ conn[c].kind = "flush"]
  <2>1. conn' = [conn EXCEPT ![c] = x]
    BY <1>0, <1>7 DEF Respond
  <2>2. /\ conn'[c] = x /\ x.at = "answer" /\ x.kind = conn[c].kind
        /\ x.ok = (b /\ conn[c].kind = "flush")
        /\ x.todo = conn[c].todo /\ x.done = conn[c].done
    BY <1>0, <1>4, <2>1 DEF ScanRequests
  <2> HIDE DEF x
  <2>3. CurrentScan(c)' = r
    BY <1>2, <2>2 DEF CurrentScan
  <2>4. RequestSound(c)'
    BY <1>4, <1>5, <1>7, <2>2, <2>3 DEF RequestSound, KnownToServer
  <2> QED BY <1>0, <1>3, <1>7, <2>1, <2>4, OthersSound
<1>8. ASSUME UNCHANGED <<row, marked>> PROVE Grows
  BY <1>8 DEF KnownToServer
<1>9. ASSUME Grows, UNCHANGED <<queue, provisional>> PROVE NoBoardingForgotten'
  <2>1. \A s \in Scans : KnownToServer(s) => KnownToServer(s)'
    BY <1>9
  <2> QED BY <1>9, <2>1, NothingLost
<1> HIDE DEF Grows
<1>10. CASE Prior(c)
  <2>1. UNCHANGED <<ticket, row, marked, queue, provisional>>
    BY <1>10 DEF Prior, records, device
  <2>2. Grows /\ MarksSound' /\ NoBoardingForgotten'
    BY <1>8, <1>9, <2>1 DEF MarksSound
  <2>3. CASE row[r] # NoVerdict
    <3>1. Respond(c, TRUE) /\ KnownToServer(r)'
      BY <1>2, <1>10, <2>1, <2>3 DEF Prior, KnownToServer
    <3> QED BY <1>7, <2>2, <3>1
  <2>4. CASE row[r] = NoVerdict
    <3>1. GoesOn(c, "find", NoVerdict)
      BY <1>2, <1>10, <2>4 DEF Prior
    <3> QED BY <1>6, <2>2, <3>1
  <2> QED BY <2>3, <2>4
<1>11. CASE Find(c)
  <2> DEFINE found == TicketsFor(scan[CurrentScan(c)])
             t     == FirstTicket(found)
  <2>1. UNCHANGED <<ticket, row, marked, queue, provisional>>
    BY <1>11 DEF Find, records, device
  <2>2. Grows /\ MarksSound' /\ NoBoardingForgotten'
    BY <1>8, <1>9, <2>1 DEF MarksSound
  <2>3. found # {} => t \in Tickets
    <3>1. found \in SUBSET Tickets
      BY DEF TicketsFor
    <3> HIDE DEF found
    <3> QED BY <3>1, FirstTicketIn
  <2>4. \/ GoesOn(c, "record", Verdict("BAD_TOKEN", 0))
        \/ GoesOn(c, "record", Verdict("NOT_FOUND", 0))
        \/ found # {} /\ Judge(t) = "BOARDED" /\ GoesOn(c, "mark", Verdict(Judge(t), t))
        \/ found # {} /\ Judge(t) # "BOARDED" /\ GoesOn(c, "record", Verdict(Judge(t), t))
    BY <1>11 DEF Find
  <2> HIDE DEF found, t
  <2>5. \A res, u : Verdict(res, u).result = res /\ Verdict(res, u).ticket = u
    BY DEF Verdict
  <2>6. RequestsSound'
    <3>1. CASE GoesOn(c, "record", Verdict("BAD_TOKEN", 0))
      BY <1>6, <2>2, <2>5, <3>1
    <3>2. CASE GoesOn(c, "record", Verdict("NOT_FOUND", 0))
      BY <1>6, <2>2, <2>5, <3>2
    <3>3. CASE found # {} /\ Judge(t) = "BOARDED" /\ GoesOn(c, "mark", Verdict(Judge(t), t))
      BY <1>6, <2>2, <2>3, <2>5, <3>3
    <3>4. CASE found # {} /\ Judge(t) # "BOARDED" /\ GoesOn(c, "record", Verdict(Judge(t), t))
      BY <1>6, <2>2, <2>5, <3>4
    <3> QED BY <2>4, <3>1, <3>2, <3>3, <3>4
  <2> QED BY <2>2, <2>6
<1>12. CASE Mark(c)
  <2>1. PICK t \in Tickets : t = conn[c].verdict.ticket
    BY <1>1, <1>12 DEF Mark, AtStep, RequestsSound, RequestSound
  <2>2. conn[c].verdict.result = "BOARDED"
    BY <1>1, <1>12 DEF Mark, AtStep, RequestsSound, RequestSound
  <2>3. UNCHANGED <<row, queue, provisional>>
    BY <1>12 DEF Mark, device
  <2>4. CASE /\ ticket[t] = "VALID" /\ ticket' = [ticket EXCEPT ![t] = "BOARDED"]
             /\ marked' = [marked EXCEPT ![r] = @ \cup {t}]
             /\ GoesOn(c, "record", conn[c].verdict)
    <3>1. marked'[r] = marked[r] \cup {t} /\ \A s \in Scans : s # r => marked'[s] = marked[s]
      BY <1>0, <2>4
    <3>2. Grows
      BY <2>3, <3>1 DEF Grows, KnownToServer
    <3>3. \A s \in Scans : t \notin marked[s]
      BY <2>4 DEF MarksSound
    <3>4. \A s \in Scans : \A u \in marked'[s] : ticket'[u] # "VALID"
      <4> SUFFICES ASSUME NEW s \in Scans, NEW u \in marked'[s] PROVE ticket'[u] # "VALID"
        OBVIOUS
      <4>1. CASE u = t
        BY <1>0, <2>4, <4>1
      <4>2. CASE u # t
        <5>1. u \in marked[s] /\ u \in Tickets
          BY <1>0, <3>1, <4>2
        <5> QED BY <1>0, <2>4, <4>2, <5>1 DEF MarksSound
      <4> QED BY <4>1, <4>2
    <3>5. \A q, s \in Scans : q # s => marked'[q] \cap marked'[s] = {}
      BY <3>1, <3>3 DEF MarksSound
    <3>6. \A s \in Scans : row'[s].result = "BOARDED" => row'[s].ticket \in marked'[s]
      BY <2>3, <3>1 DEF MarksSound
    <3>7. MarksSound'
      BY <3>4, <3>5, <3>6 DEF MarksSound
    <3>8. RequestsSound'
      BY <1>6, <2>1, <2>4, <3>1, <3>2
    <3> QED BY <1>9, <2>3, <3>2, <3>7, <3>8
  <2>5. CASE GoesOn(c, "record", Verdict("ALREADY_BOARDED", t)) /\ UNCHANGED <<ticket, marked>>
    <3>1. Grows /\ MarksSound'
      BY <1>8, <2>3, <2>5 DEF MarksSound
    <3>2. Verdict("ALREADY_BOARDED", t).result # "BOARDED"
      BY DEF Verdict
    <3>3. RequestsSound'
      BY <1>6, <2>5, <3>1, <3>2
    <3> QED BY <1>9, <2>3, <3>1, <3>3
  <2> QED BY <1>2, <1>12, <2>1, <2>4, <2>5 DEF Mark
<1>13. CASE RecordScan(c)
  <2> DEFINE v == conn[c].verdict
  <2>1. UNCHANGED <<ticket, marked, queue, provisional>> /\ conn[c].at = "record"
    BY <1>13 DEF RecordScan, AtStep, device
  <2>2. v.result = "BOARDED" => v.ticket \in marked[r]
    BY <1>1, <1>2, <2>1 DEF RequestsSound, RequestSound
  <2>3. \A s \in Scans : row'[s] = row[s] \/ (s = r /\ row[s] = NoVerdict /\ row'[s] = v)
    BY <1>0, <1>2, <1>13 DEF RecordScan
  <2> HIDE DEF v
  <2>4. Grows
    BY <2>1, <2>3 DEF Grows, KnownToServer
  <2>5. MarksSound'
    BY <2>1, <2>2, <2>3 DEF MarksSound
  <2>6. Respond(c, v.result = "BOARDED")
    BY <1>13 DEF RecordScan, v
  <2>7. v.result = "BOARDED" => KnownToServer(r)'
    BY <2>1, <2>2 DEF KnownToServer
  <2>8. (v.result = "BOARDED") \in BOOLEAN
    OBVIOUS
  <2>9. RequestsSound'
    BY <1>7, <2>4, <2>6, <2>7, <2>8, Zenon
  <2> QED BY <1>9, <2>1, <2>4, <2>5, <2>9
<1> QED BY <1>10, <1>11, <1>12, <1>13

LEMMA BoardingSoundKept == BoardingSound /\ [BoardingNext]_boardingVars => BoardingSound'
<1> SUFFICES ASSUME BoardingSound, [BoardingNext]_boardingVars PROVE BoardingSound'
    OBVIOUS
<1>0. BoardingTypeOK'
  BY BoardingTypeKept DEF BoardingSound
<1>1. CASE UNCHANGED boardingVars
  <2>1. UNCHANGED <<ticket, row, marked, queue, provisional, conn>>
    BY <1>1 DEF boardingVars, records, device
  <2>2. MarksSound' /\ RequestsSound' /\ NoBoardingForgotten'
    BY <2>1 DEF BoardingSound, MarksSound, RequestsSound, RequestSound, KnownToServer,
                CurrentScan, NoBoardingForgotten
  <2> QED BY <1>0, <2>2 DEF BoardingSound
<1>2. ASSUME NEW p \in Pnrs, CancelBooking(p) PROVE BoardingSound'
  <2>1. UNCHANGED <<row, marked, queue, provisional, conn>>
    BY <1>2 DEF CancelBooking, device
  <2>2. \A t \in Tickets : ticket[t] # "VALID" => ticket'[t] # "VALID"
    BY <1>2 DEF CancelBooking
  <2>3. MarksSound'
    BY <2>1, <2>2 DEF BoardingSound, BoardingTypeOK, MarksSound
  <2>4. RequestsSound' /\ NoBoardingForgotten'
    BY <2>1 DEF BoardingSound, RequestsSound, RequestSound, KnownToServer, CurrentScan,
                NoBoardingForgotten
  <2> QED BY <1>0, <2>3, <2>4 DEF BoardingSound
<1>3. ASSUME \/ \E d \in Devices : LoadManifest(d)
             \/ \E d \in Devices, c \in Conns : FlushQueue(d, c)
             \/ \E d \in Devices, c \in Conns, r \in Scans, p \in Pnrs :
                   \E seat \in {t \in Tickets : PnrOf[t] = p} \cup {AnySeat} : Scan(d, c, r, p, seat)
             \/ \E c \in Conns : VerdictShown(c) \/ NoLineScanning(c) \/ FlushedOne(c)
                                 \/ NoLineFlushing(c) \/ FlushEnds(c)
      PROVE  BoardingSound'
  <2>1. UNCHANGED records
    BY <1>3 DEF LoadManifest, FlushQueue, Scan, VerdictShown, NoLineScanning, FlushedOne,
                NoLineFlushing, FlushEnds
  <2> QED BY <1>0, <1>3, <2>1, DevicesKept
<1>4. ASSUME NEW c \in Conns, Prior(c) \/ Find(c) \/ Mark(c) \/ RecordScan(c) PROVE BoardingSound'
  BY <1>0, <1>4, ServerKept
<1> QED BY <1>1, <1>2, <1>3, <1>4 DEF BoardingNext

\* The type of tickets, scans and the devices of the crew (driver.go, scan/page.tsx)
\* holds in every state.
THEOREM BoardingTypes == BoardingSpec => []BoardingTypeOK
<1>1. BoardingSound => BoardingTypeOK
  BY DEF BoardingSound
<1> QED BY <1>1, BoardingInitSound, BoardingSoundKept, PTL DEF BoardingSpec

\* However many devices scan a ticket, in whatever order their statements come, one
\* boarding is made of it (driver.go:230-239): OneBoardingPerTicket.
THEOREM OneBoardingPerTicketAlways == BoardingSpec => []OneBoardingPerTicket
<1>1. BoardingSound => OneBoardingPerTicket
  BY DEF BoardingSound, MarksSound, OneBoardingPerTicket
<1> QED BY <1>1, BoardingInitSound, BoardingSoundKept, PTL DEF BoardingSpec

\* However many scans are queued, flushed twice and cut, one that let a passenger in
\* without a line stays in a queue until the server knows of it
\* (scan/page.tsx:79-154): NoBoardingForgotten.
THEOREM NoBoardingForgottenAlways == BoardingSpec => []NoBoardingForgotten
<1>1. BoardingSound => NoBoardingForgotten
  BY DEF BoardingSound
<1> QED BY <1>1, BoardingInitSound, BoardingSoundKept, PTL DEF BoardingSpec

-----------------------------------------------------------------------------
(* TripOps: the status and its writers                                      *)

Requests == [at : {"none", "sent", "allowed", "done", "refused"}, to : TripStatuses]

\* A step that has been allowed leads on from a status the trip has had, though not
\* always from the one it has now: that is what makes the claim inductive.
AllowedLeadOn ==
    \A d \in Desks : req[d].at = "allowed" => \E p \in been : req[d].to \in legalTransitions[p]

LeadsOn ==
    /\ trip.status \in been /\ DOMAIN trip = {"status", "late", "fix"}
    /\ trip = [status |-> trip.status, late |-> trip.late, fix |-> trip.fix]
    /\ req \in [Desks -> Requests]
    /\ AllowedLeadOn /\ NothingIsSkipped

\* Most steps leave the status and what was allowed alone.
LEMMA OthersLeadOn ==
    ASSUME LeadsOn, been' = been, trip'.status = trip.status, DOMAIN trip' = DOMAIN trip,
           trip' = [status |-> trip'.status, late |-> trip'.late, fix |-> trip'.fix],
           req' \in [Desks -> Requests],
           \A d \in Desks : req'[d].at = "allowed" => req'[d] = req[d]
    PROVE  LeadsOn'
BY DEF LeadsOn, AllowedLeadOn, NothingIsSkipped

LEMMA LeadsOnStep ==
    ASSUME LeadsOn, [Next]_vars
    PROVE  LeadsOn'
<1>0. /\ req \in [Desks -> Requests] /\ DOMAIN trip = {"status", "late", "fix"}
      /\ trip = [status |-> trip.status, late |-> trip.late, fix |-> trip.fix]
  BY DEF LeadsOn
<1>1. ASSUME UNCHANGED <<trip, been, req>>
      PROVE  LeadsOn'
  BY <1>0, <1>1, OthersLeadOn
<1>2. ASSUME NEW d \in Desks, Load(d) \/ NotLoaded(d)
      PROVE  LeadsOn'
  BY <1>1, <1>2 DEF Load, NotLoaded
<1>3. ASSUME NEW d \in Desks, NEW s \in TripStatuses, Advance(d, s)
      PROVE  LeadsOn'
  BY <1>0, <1>3, OthersLeadOn DEF Advance, Requests
<1>4. ASSUME NEW d \in Desks, Check(d)
      PROVE  LeadsOn'
  <2> DEFINE to == req[d].to
             verdict == IF /\ Role[d] = "crew" => to \in CrewMay
                           /\ to \in legalTransitions[trip.status]
                        THEN "allowed" ELSE "refused"
  <2>1. verdict \in {"allowed", "refused"} /\ (verdict = "allowed" => to \in legalTransitions[trip.status])
    OBVIOUS
  <2>2. req' = [req EXCEPT ![d].at = verdict] /\ UNCHANGED <<trip, been>>
    BY <1>4 DEF Check
  <2> HIDE DEF verdict
  <2>3. /\ req' \in [Desks -> Requests] /\ req'[d].to = req[d].to /\ req'[d].at = verdict
        /\ \A e \in Desks \ {d} : req'[e] = req[e]
    BY <1>0, <2>1, <2>2 DEF Requests
  <2>4. AllowedLeadOn'
    BY <2>1, <2>2, <2>3 DEF LeadsOn, AllowedLeadOn
  <2> QED BY <2>2, <2>3, <2>4 DEF LeadsOn, NothingIsSkipped
<1>5. ASSUME NEW d \in Desks, Write(d)
      PROVE  LeadsOn'
  <2>1. /\ req[d].at = "allowed" /\ trip' = [trip EXCEPT !.status = req[d].to]
        /\ been' = been \cup {req[d].to} /\ req' = [req EXCEPT ![d].at = "done"]
    BY <1>5 DEF Write
  <2>2. PICK p \in been : req[d].to \in legalTransitions[p]
    BY <2>1 DEF LeadsOn, AllowedLeadOn
  <2>3. req' \in [Desks -> Requests] /\ \A e \in Desks : req'[e].at = "allowed" => req'[e] = req[e]
    BY <1>0, <2>1 DEF Requests
  <2>4. AllowedLeadOn'
    BY <2>1, <2>3 DEF LeadsOn, AllowedLeadOn
  <2>5. NothingIsSkipped'
    BY <2>1, <2>2 DEF LeadsOn, NothingIsSkipped
  <2>6. /\ trip'.status \in been' /\ DOMAIN trip' = {"status", "late", "fix"}
        /\ trip' = [status |-> trip'.status, late |-> trip'.late, fix |-> trip'.fix]
    BY <1>0, <2>1
  <2> QED BY <2>3, <2>4, <2>5, <2>6 DEF LeadsOn
<1>6. ASSUME NEW d \in Desks, Told(d) \/ NotTold(d)
      PROVE  LeadsOn'
  BY <1>0, <1>6, OthersLeadOn DEF Told, NotTold, Requests
<1>7. CASE CrewNext
  <2>1. CASE Position
    BY <1>0, <2>1, OthersLeadOn DEF Position, controls
  <2>2. CASE Share \/ Located \/ PingLost
    BY <1>1, <2>2 DEF Share, Located, PingLost, controls
  <2>3. CASE Report \/ ReportIncident \/ Reported \/ ReportFails
    BY <1>1, <2>3 DEF Report, ReportIncident, Reported, ReportFails, controls
  <2> QED BY <1>7, <2>1, <2>2, <2>3 DEF CrewNext
<1>8. CASE JobsNext
  BY <1>1, <1>8 DEF JobsNext, ScanStarts, ScanLateDeparture, ScanGPSOffline, ScanFails, Relay,
                    RaiseFromEvent, HandlerFails, controls
<1>9. CASE RoomNext \/ TrackNext
  BY <1>1, <1>9 DEF RoomNext, TrackNext, OpenRoom, Poll, PollFails, Acknowledge, OpenTracking,
                    Track, TrackFails, controls
<1>10. CASE TimePasses
  BY <1>0, <1>10, OthersLeadOn DEF TimePasses, controls
<1>11. CASE UNCHANGED vars
  BY <1>1, <1>11 DEF vars, controls
<1> QED BY <1>2, <1>3, <1>4, <1>5, <1>6, <1>7, <1>8, <1>9, <1>10, <1>11 DEF Next, DeskNext

\* Whatever two desks do at the same time, every status ever written has a legal
\* predecessor that was written before it, although the handler's check and its write
\* are two statements (operator.go, handleTripStatus).
THEOREM NothingIsEverSkipped == Spec => []NothingIsSkipped
<1>1. Init => LeadsOn
  BY DEF Init, LeadsOn, Requests, AllowedLeadOn, NothingIsSkipped, TripStatuses, legalTransitions
<1>2. LeadsOn /\ [Next]_vars => LeadsOn'
  BY LeadsOnStep
<1>3. LeadsOn => NothingIsSkipped
  BY DEF LeadsOn
<1> QED BY <1>1, <1>2, <1>3, PTL DEF Spec

-----------------------------------------------------------------------------
(* TripOps: the types                                                       *)

\* An event has been tried no more often than there were faults, and the detector's
\* second check has no verdict of the first.
TripTyped ==
    /\ TypeOK
    /\ news.tried <= faults
    /\ detector.at = "gps" => detector.do # "MEDIUM"

TripRows == [status : TripStatuses, late : {"no", "15 min", "45 min"},
             fix : {"never", "recent", "3 min", "20 min"}]
Alerts == [open : BOOLEAN, severity : {"none", "MEDIUM", "HIGH"}, ack : BOOLEAN]
AlertsFit(a) ==
    /\ a \in [Kinds -> Alerts]
    /\ \A k \in Kinds : a[k].open <=> a[k].severity # "none"
    /\ \A k \in Kinds \ {"LATE_DEPARTURE"} : a[k].severity # "MEDIUM"
RoomsFit(r, a) ==
    /\ r \in [at : {"closed", "loading", "open", "error"}, shown : SUBSET Kinds, same : SUBSET Kinds]
    /\ r.same \subseteq r.shown
    /\ \A k \in r.same : a[k].open
NewsFit(n, f) ==
    /\ n \in [sent : 0 .. MaxReports, outbox : Nat, log : Nat, tried : 0 .. Tries]
    /\ n.outbox + n.log <= n.sent /\ f \in 0 .. MaxFaults /\ n.tried <= f
DesksFit ==
    /\ desk \in [Desks -> [saw : TripStatuses \cup {"loading"}, error : BOOLEAN]]
    /\ req \in [Desks -> Requests]
ScanFits == detector \in [at : {"idle", "late", "gps"}, do : Findings] /\ (detector.at = "gps" => detector.do # "MEDIUM")
PagesFit ==
    /\ ping \in {"none", "locating", "sent"}
    /\ form \in [at : {"open", "sending", "saved"}, error : BOOLEAN]
    /\ track \in {"closed", "loading", "DRIVER_APP_GPS", "SIMULATED_FROM_SCHEDULE", "error"}
TripFits == trip \in TripRows /\ been \subseteq TripStatuses /\ trip.status \in been

LEMMA TypesSplit ==
    TripTyped <=> TripFits /\ DesksFit /\ PagesFit /\ AlertsFit(alert) /\ ScanFits
                    /\ NewsFit(news, faults) /\ RoomsFit(room, alert)
BY DEF TripTyped, TypeOK, TripFits, DesksFit, PagesFit, AlertsFit, ScanFits, NewsFit, RoomsFit,
       TripRows, Alerts, Requests

LEMMA RaiseFits ==
    ASSUME AlertsFit(alert), RoomsFit(room, alert), NEW k \in Kinds, NEW s \in {"MEDIUM", "HIGH"},
           s = "MEDIUM" => k = "LATE_DEPARTURE", raise(k, s)
    PROVE  AlertsFit(alert)' /\ RoomsFit(room, alert)'
<1> DEFINE a == [open |-> TRUE, severity |-> s, ack |-> alert[k].ack]
<1>1. a \in Alerts /\ a.open /\ a.severity = s
  BY DEF AlertsFit, Alerts
<1>2. alert' = [alert EXCEPT ![k] = a] /\ room' = room
  BY DEF raise
<1> HIDE DEF a
<1>3. alert' \in [Kinds -> Alerts] /\ \A j \in Kinds : alert'[j] = IF j = k THEN a ELSE alert[j]
  BY <1>1, <1>2 DEF AlertsFit
<1> QED BY <1>1, <1>2, <1>3 DEF AlertsFit, RoomsFit

LEMMA ClearFits ==
    ASSUME AlertsFit(alert), RoomsFit(room, alert), NEW k \in Kinds, clear(k)
    PROVE  AlertsFit(alert)' /\ RoomsFit(room, alert)'
<1>1. Closed \in Alerts /\ Closed.open = FALSE /\ Closed.severity = "none"
  BY DEF Closed, Alerts
<1>2. alert' = [alert EXCEPT ![k] = Closed] /\ room' = [room EXCEPT !.same = room.same \ {k}]
  BY DEF clear
<1>3. alert' \in [Kinds -> Alerts] /\ \A j \in Kinds : alert'[j] = IF j = k THEN Closed ELSE alert[j]
  BY <1>1, <1>2 DEF AlertsFit
<1> QED BY <1>1, <1>2, <1>3 DEF AlertsFit, RoomsFit

LEMMA ApplyFits ==
    ASSUME AlertsFit(alert), RoomsFit(room, alert), NEW k \in Kinds, NEW v \in Findings,
           v = "MEDIUM" => k = "LATE_DEPARTURE", Apply(k, v)
    PROVE  AlertsFit(alert)' /\ RoomsFit(room, alert)'
<1>1. CASE v = "clear"
  BY <1>1, ClearFits DEF Apply
<1>2. CASE v = "nothing"
  BY <1>2 DEF Apply, AlertsFit, RoomsFit
<1>3. CASE v \in {"MEDIUM", "HIGH"}
  <2>1. raise(k, v)
    BY <1>3 DEF Apply
  <2> QED BY <1>3, <2>1, RaiseFits
<1> QED BY <1>1, <1>2, <1>3 DEF Findings

LEMMA TripTypedInit == Init => TripTyped
<1> SUFFICES ASSUME Init PROVE TripTyped
    OBVIOUS
<1>1. Closed \in Alerts /\ Closed.open = FALSE /\ Closed.severity = "none" /\ "SCHEDULED" \in TripStatuses
  BY DEF Closed, Alerts, TripStatuses, legalTransitions
<1>2. TripFits /\ DesksFit /\ PagesFit
  BY <1>1 DEF Init, TripFits, DesksFit, PagesFit, TripRows, Requests
<1>3. AlertsFit(alert) /\ RoomsFit(room, alert)
  BY <1>1 DEF Init, AlertsFit, RoomsFit
<1>4. ScanFits /\ NewsFit(news, faults)
  BY TripOpsConstants DEF Init, ScanFits, NewsFit, Findings
<1> QED BY <1>2, <1>3, <1>4, TypesSplit

LEMMA TripTypedStep ==
    ASSUME TripTyped, [Next]_vars
    PROVE  TripTyped'
<1>0. /\ TripFits /\ DesksFit /\ PagesFit /\ AlertsFit(alert) /\ ScanFits
      /\ NewsFit(news, faults) /\ RoomsFit(room, alert)
  BY TypesSplit
<1>a. ASSUME (TripFits /\ DesksFit /\ PagesFit /\ AlertsFit(alert) /\ ScanFits
                /\ NewsFit(news, faults) /\ RoomsFit(room, alert))'
      PROVE  TripTyped'
  BY <1>a DEF TripTyped, TypeOK, TripFits, DesksFit, PagesFit, AlertsFit, ScanFits, NewsFit,
              RoomsFit, TripRows, Alerts, Requests
<1>b. ASSUME UNCHANGED <<jobs, pages>>, TripFits', DesksFit'
      PROVE  TripTyped'
  <2>1. UNCHANGED <<alert, detector, news, faults, ping, form, room, track>>
    BY <1>b DEF jobs, pages
  <2>2. (PagesFit /\ AlertsFit(alert) /\ ScanFits /\ NewsFit(news, faults) /\ RoomsFit(room, alert))'
    BY <1>0, <2>1 DEF PagesFit, AlertsFit, ScanFits, NewsFit, RoomsFit
  <2> QED BY <1>a, <1>b, <2>2
<1>c. ASSUME UNCHANGED <<trip, been, controls>>, PagesFit', AlertsFit(alert)', ScanFits',
             NewsFit(news, faults)', RoomsFit(room, alert)'
      PROVE  TripTyped'
  <2>1. TripFits' /\ DesksFit'
    BY <1>0, <1>c DEF TripFits, DesksFit, controls
  <2> QED BY <1>a, <1>c, <2>1
<1>e. /\ news = [sent |-> news.sent, outbox |-> news.outbox, log |-> news.log, tried |-> news.tried]
      /\ news.sent \in 0 .. MaxReports /\ news.outbox \in Nat /\ news.log \in Nat
      /\ news.outbox + news.log <= news.sent
      /\ news.tried \in 0 .. Tries /\ news.tried <= faults /\ faults \in 0 .. MaxFaults
  BY <1>0 DEF NewsFit
<1>d. trip.status \in TripStatuses
  BY <1>0 DEF TripFits, TripRows
<1>1. ASSUME NEW d \in Desks, Load(d) \/ NotLoaded(d)
      PROVE  TripTyped'
  <2>1. TripFits' /\ DesksFit'
    BY <1>0, <1>1, <1>d DEF Load, NotLoaded, TripFits, DesksFit
  <2> QED BY <1>1, <1>b, <2>1 DEF Load, NotLoaded
<1>2. ASSUME NEW d \in Desks, NEW s \in TripStatuses, Advance(d, s)
      PROVE  TripTyped'
  <2>1. TripFits' /\ DesksFit'
    BY <1>0, <1>2 DEF Advance, TripFits, DesksFit, Requests
  <2> QED BY <1>2, <1>b, <2>1 DEF Advance
<1>3. ASSUME NEW d \in Desks, Check(d)
      PROVE  TripTyped'
  <2>1. PICK v \in {"allowed", "refused"} : req' = [req EXCEPT ![d].at = v]
    BY <1>3 DEF Check
  <2>2. TripFits' /\ DesksFit'
    BY <1>0, <1>3, <2>1 DEF Check, TripFits, DesksFit, Requests
  <2> QED BY <1>3, <1>b, <2>2 DEF Check
<1>4. ASSUME NEW d \in Desks, Write(d)
      PROVE  TripTyped'
  <2>1. req[d].to \in TripStatuses
    BY <1>0 DEF DesksFit, Requests
  <2>2. TripFits' /\ DesksFit'
    BY <1>0, <1>4, <2>1 DEF Write, TripFits, DesksFit, Requests, TripRows
  <2> QED BY <1>4, <1>b, <2>2 DEF Write
<1>5. ASSUME NEW d \in Desks, Told(d) \/ NotTold(d)
      PROVE  TripTyped'
  <2>1. TripFits' /\ DesksFit'
    BY <1>0, <1>5, <1>d, ZenonT(60) DEF Told, NotTold, TripFits, DesksFit, Requests
  <2> QED BY <1>5, <1>b, <2>1 DEF Told, NotTold
<1>6. CASE Share \/ Located \/ PingLost \/ Report \/ Reported \/ ReportFails \/ OpenTracking \/ Track \/ TrackFails
  <2>0. UNCHANGED <<trip, been, controls, jobs, room>>
    BY <1>6 DEF Share, Located, PingLost, Report, Reported, ReportFails, OpenTracking, Track, TrackFails
  <2>a. ASSUME Share \/ Located \/ PingLost PROVE PagesFit'
    BY <1>0, <2>a DEF Share, Located, PingLost, PagesFit
  <2>b. ASSUME Report \/ ReportFails PROVE PagesFit'
    <3>1. /\ form' = [at |-> "sending", error |-> FALSE] \/ form' = [at |-> "open", error |-> TRUE]
          /\ UNCHANGED <<ping, track>>
      BY <2>b DEF Report, ReportFails
    <3>2. form' \in [at : {"open", "sending", "saved"}, error : BOOLEAN]
      <4>1. [at |-> "sending", error |-> FALSE] \in [at : {"open", "sending", "saved"}, error : BOOLEAN]
        OBVIOUS
      <4>2. [at |-> "open", error |-> TRUE] \in [at : {"open", "sending", "saved"}, error : BOOLEAN]
        OBVIOUS
      <4> QED BY <3>1, <4>1, <4>2
    <3> QED BY <1>0, <3>1, <3>2 DEF PagesFit
  <2>c. ASSUME Reported PROVE PagesFit'
    BY <1>0, <2>c DEF Reported, PagesFit
  <2>d. ASSUME OpenTracking \/ Track \/ TrackFails PROVE PagesFit'
    BY <1>0, <2>d DEF OpenTracking, Track, TrackFails, PagesFit
  <2>1. UNCHANGED <<trip, been, controls, jobs, room>> /\ PagesFit'
    BY <1>6, <2>0, <2>a, <2>b, <2>c, <2>d
  <2>2. (AlertsFit(alert) /\ ScanFits /\ NewsFit(news, faults) /\ RoomsFit(room, alert))'
    BY <1>0, <2>1 DEF jobs, AlertsFit, ScanFits, NewsFit, RoomsFit
  <2> QED BY <1>c, <2>1, <2>2
<1>7. CASE Position
  <2>1. TripFits' /\ DesksFit' /\ PagesFit'
    BY <1>0, <1>7 DEF Position, TripFits, DesksFit, PagesFit, controls, TripRows
  <2>2. (AlertsFit(alert) /\ ScanFits /\ NewsFit(news, faults) /\ RoomsFit(room, alert))'
    BY <1>0, <1>7 DEF Position, jobs, AlertsFit, ScanFits, NewsFit, RoomsFit
  <2> QED BY <1>a, <2>1, <2>2
<1>8. CASE ReportIncident
  <2>0. news' = [sent |-> news.sent + 1, outbox |-> news.outbox + 1, log |-> news.log, tried |-> news.tried]
    BY <1>e, <1>8 DEF ReportIncident
  <2>1. NewsFit(news, faults)'
    BY <1>e, <1>8, <2>0, TripOpsConstants DEF ReportIncident, NewsFit
  <2>2. (PagesFit /\ AlertsFit(alert) /\ ScanFits /\ RoomsFit(room, alert))'
    BY <1>0, <1>8 DEF ReportIncident, PagesFit, AlertsFit, ScanFits, RoomsFit
  <2> QED BY <1>8, <1>c, <2>1, <2>2 DEF ReportIncident
<1>9. CASE ScanStarts \/ ScanFails
  <2>1. (PagesFit /\ AlertsFit(alert) /\ RoomsFit(room, alert))'
    BY <1>0, <1>9 DEF ScanStarts, ScanFails, PagesFit, AlertsFit, RoomsFit, pages
  <2>2. LateVerdict \in Findings
    BY DEF LateVerdict, Findings
  <2>3. ScanFits' /\ NewsFit(news, faults)'
    BY <1>0, <1>9, <2>2, TripOpsConstants DEF ScanStarts, ScanFails, ScanFits, NewsFit, Findings
  <2> QED BY <1>9, <1>c, <2>1, <2>3 DEF ScanStarts, ScanFails
<1>10. CASE ScanLateDeparture
  <2>1. detector.do \in Findings /\ "LATE_DEPARTURE" \in Kinds
    BY <1>0 DEF ScanFits, Kinds
  <2>2. AlertsFit(alert)' /\ RoomsFit(room, alert)'
    BY <1>0, <1>10, <2>1, ApplyFits DEF ScanLateDeparture
  <2>3. SilenceVerdict \in Findings /\ SilenceVerdict # "MEDIUM"
    BY DEF SilenceVerdict, Findings
  <2>4. (PagesFit /\ ScanFits /\ NewsFit(news, faults))'
    BY <1>0, <1>10, <2>3 DEF ScanLateDeparture, PagesFit, ScanFits, NewsFit
  <2> QED BY <1>10, <1>c, <2>2, <2>4 DEF ScanLateDeparture
<1>11. CASE ScanGPSOffline
  <2>1. detector.do \in Findings /\ detector.do # "MEDIUM" /\ "GPS_OFFLINE" \in Kinds
    BY <1>0, <1>11 DEF ScanGPSOffline, ScanFits, Kinds
  <2>2. AlertsFit(alert)' /\ RoomsFit(room, alert)'
    BY <1>0, <1>11, <2>1, ApplyFits DEF ScanGPSOffline
  <2>3. (PagesFit /\ ScanFits /\ NewsFit(news, faults))'
    BY <1>0, <1>11 DEF ScanGPSOffline, PagesFit, ScanFits, NewsFit, Findings
  <2> QED BY <1>11, <1>c, <2>2, <2>3 DEF ScanGPSOffline
<1>12. CASE Relay \/ HandlerFails
  <2>a. ASSUME Relay PROVE NewsFit(news, faults)'
    <3>1. news' = [sent |-> news.sent, outbox |-> 0, log |-> news.log + news.outbox, tried |-> news.tried]
      BY <1>e, <2>a DEF Relay
    <3> QED BY <1>e, <2>a, <3>1 DEF Relay, NewsFit
  <2>b. ASSUME HandlerFails PROVE NewsFit(news, faults)'
    <3>1. \/ news' = [sent |-> news.sent, outbox |-> news.outbox, log |-> news.log - 1, tried |-> 0]
          \/ news' = [sent |-> news.sent, outbox |-> news.outbox, log |-> news.log, tried |-> news.tried + 1]
      BY <1>e, <2>b DEF HandlerFails
    <3>2. news.log > 0 /\ faults < MaxFaults /\ faults' = faults + 1 /\ faults + 1 <= Tries
      BY <1>e, <2>b, TripOpsConstants DEF HandlerFails
    <3> QED BY <1>e, <3>1, <3>2, TripOpsConstants DEF NewsFit
  <2>1. NewsFit(news, faults)'
    BY <1>12, <2>a, <2>b
  <2>2. (PagesFit /\ AlertsFit(alert) /\ ScanFits /\ RoomsFit(room, alert))'
    BY <1>0, <1>12 DEF Relay, HandlerFails, PagesFit, AlertsFit, ScanFits, RoomsFit, pages
  <2> QED BY <1>12, <1>c, <2>1, <2>2 DEF Relay, HandlerFails
<1>13. CASE RaiseFromEvent
  <2>1. "BUS_BREAKDOWN" \in Kinds
    BY DEF Kinds
  <2>2. AlertsFit(alert)' /\ RoomsFit(room, alert)'
    BY <1>0, <1>13, <2>1, RaiseFits DEF RaiseFromEvent
  <2>a. news' = [sent |-> news.sent, outbox |-> news.outbox, log |-> news.log - 1, tried |-> 0]
    BY <1>e, <1>13 DEF RaiseFromEvent
  <2>b. NewsFit(news, faults)'
    BY <1>e, <1>13, <2>a, TripOpsConstants DEF RaiseFromEvent, NewsFit
  <2>3. (PagesFit /\ ScanFits /\ NewsFit(news, faults))'
    BY <1>0, <1>13, <2>b DEF RaiseFromEvent, PagesFit, ScanFits
  <2> QED BY <1>13, <1>c, <2>2, <2>3 DEF RaiseFromEvent
<1>14. CASE OpenRoom \/ Poll \/ PollFails
  <2>1. AlertsFit(alert)' /\ RoomsFit(room, alert)'
    BY <1>0, <1>14 DEF OpenRoom, Poll, PollFails, AlertsFit, RoomsFit, jobs
  <2>2. (PagesFit /\ ScanFits /\ NewsFit(news, faults))'
    BY <1>0, <1>14 DEF OpenRoom, Poll, PollFails, PagesFit, ScanFits, NewsFit, jobs
  <2> QED BY <1>14, <1>c, <2>1, <2>2 DEF OpenRoom, Poll, PollFails
<1>15. ASSUME NEW k \in Kinds, Acknowledge(k)
       PROVE  TripTyped'
  <2>0. UNCHANGED <<ping, form, room, track, detector, news, faults>>
    BY <1>15 DEF Acknowledge, pages
  <2>1. AlertsFit(alert)' /\ RoomsFit(room, alert)'
    <3>1. CASE alert' = alert
      BY <1>0, <2>0, <3>1 DEF AlertsFit, RoomsFit
    <3>2. CASE alert' = [alert EXCEPT ![k].ack = TRUE]
      <4>1. [alert[k] EXCEPT !.ack = TRUE] \in Alerts
        BY <1>0 DEF AlertsFit, Alerts
      <4>2. /\ alert' \in [Kinds -> Alerts]
            /\ \A j \in Kinds : alert'[j].open = alert[j].open /\ alert'[j].severity = alert[j].severity
        BY <1>0, <3>2, <4>1 DEF AlertsFit, Alerts
      <4> QED BY <1>0, <2>0, <4>2 DEF AlertsFit, RoomsFit
    <3> QED BY <1>15, <3>1, <3>2 DEF Acknowledge
  <2>2. (PagesFit /\ ScanFits /\ NewsFit(news, faults))'
    BY <1>0, <2>0 DEF PagesFit, ScanFits, NewsFit
  <2> QED BY <1>15, <1>c, <2>1, <2>2 DEF Acknowledge
<1>16. CASE TimePasses
  <2>1. TripFits'
    BY <1>0, <1>16 DEF TimePasses, TripFits, TripRows
  <2>2. DesksFit'
    BY <1>0, <1>16 DEF TimePasses, DesksFit, controls
  <2> QED BY <1>16, <1>b, <2>1, <2>2 DEF TimePasses
<1>17. CASE UNCHANGED vars
  <2>1. UNCHANGED <<jobs, pages>> /\ TripFits' /\ DesksFit'
    BY <1>0, <1>17 DEF vars, controls, TripFits, DesksFit
  <2> QED BY <1>b, <2>1
<1> QED BY <1>1, <1>2, <1>3, <1>4, <1>5, <1>6, <1>7, <1>8, <1>9, <1>10, <1>11, <1>12, <1>13, <1>14,
           <1>15, <1>16, <1>17
        DEF Next, DeskNext, CrewNext, JobsNext, RoomNext, TrackNext

\* The departure, the pages, the alerts and the jobs keep their types; an alert is open
\* exactly when it has a severity, and the row a control room acts on is open.
THEOREM TripOpsTypes == Spec => []TypeOK
<1>1. TripTyped => TypeOK
  BY DEF TripTyped
<1> QED BY <1>1, TripTypedInit, TripTypedStep, PTL DEF Spec

-----------------------------------------------------------------------------
(* Promo                                                                    *)

Redeemed(c) == {r \in redemption : r.code = c}
OfOne(c, p) == {r \in redemption : r.code = c /\ r.phone = p}

\* A checkout redeems once: what it has left behind says that it is done.  A campaign
\* is counted on after it was made, and its code is in the form of the checkout.
Checkouts ==
    /\ \A r \in redemption : purchase[r.of].at = "made"
    /\ \A b \in Purchases : purchase[b].at \in {"booked", "loaded"} => purchase[b].code \in Codes
    /\ \A c \in Codes : ~ campaign[c].made => campaign[c].redeemed = 0 /\ campaign[c].cap = NoCap

Honest == PromoTypeOK /\ IsFiniteSet(redemption) /\ Checkouts /\ RedemptionsAreHonest

\* The rows and the pages.
Campaigns == [made : BOOLEAN, over : BOOLEAN, fits : BOOLEAN, cap : Caps \cup {NoCap}, redeemed : Nat]
Buys == [at : {"form", "sent", "priced", "booked", "loaded", "made"},
         code : Codes \cup {NoCoupon}, phone : Phones, off : BOOLEAN, saw : Nat]
OffersShown == [at : {"loading", "shown", "error"}, rows : SUBSET Codes, copied : Codes \cup {NoCoupon}]
DesksShown == [rows : SUBSET Codes, flash : {"", "created", "refused"}, error : BOOLEAN, busy : BOOLEAN]
Invites == [status : {"none", "INVITED", "REGISTERED"}, by : Phones, to : Phones]

LEMMA PromoTypesSplit ==
    PromoTypeOK <=> /\ campaign \in [Codes -> Campaigns] /\ used \in [Codes -> [Phones -> Nat]]
                    /\ redemption \subseteq [code : Codes, phone : Phones, of : Purchases]
                    /\ purchase \in [Purchases -> Buys] /\ offers \in OffersShown
                    /\ promoDesk \in DesksShown /\ invitation \in [Invitations -> Invites]
BY DEF PromoTypeOK, Campaigns, Buys, OffersShown, DesksShown, Invites

LEMMA PromoTypeInit == PromoInit => PromoTypeOK
<1> SUFFICES ASSUME PromoInit PROVE PromoTypeOK
    OBVIOUS
<1> USE DEF PromoInit
<1>1. (CHOOSE p \in Phones : TRUE) \in Phones
  BY PromoAssumption
<1>2. NewBuy \in Buys /\ NoInvite \in Invites /\ Unmade \in Campaigns
  BY <1>1 DEF NewBuy, NoInvite, Unmade, Buys, Invites, Campaigns
<1>3. offers \in OffersShown /\ promoDesk \in DesksShown
  BY DEF OffersShown, DesksShown
<1>4. used \in [Codes -> [Phones -> Nat]]
  OBVIOUS
<1> QED BY <1>2, <1>3, <1>4, PromoTypesSplit

LEMMA HonestInit == PromoInit => Honest
<1> SUFFICES ASSUME PromoInit PROVE Honest
    OBVIOUS
<1>2. PromoTypeOK
  BY PromoTypeInit
<1>3. IsFiniteSet(redemption) /\ Cardinality({}) = 0
  BY FS_EmptySet DEF PromoInit
<1>4. Checkouts
  BY DEF PromoInit, Checkouts, Unmade, NewBuy
<1>5. RedemptionsAreHonest
  <2>1. \A c \in Codes : Redeemed(c) = {} /\ \A p \in Phones : OfOne(c, p) = {}
    BY DEF PromoInit, Redeemed, OfOne
  <2>2. \A c \in Codes : campaign[c].redeemed = 0 /\ campaign[c].cap = NoCap
    BY DEF PromoInit, Unmade
  <2>3. \A c \in Codes, p \in Phones : used[c][p] = 0
    BY DEF PromoInit
  <2>4. \A c \in Codes :
          /\ Cardinality({r \in redemption : r.code = c}) = 0
          /\ \A p \in Phones : Cardinality({r \in redemption : r.code = c /\ r.phone = p}) = 0
    BY <2>1, <1>3 DEF Redeemed, OfOne
  <2> QED BY <2>2, <2>3, <2>4 DEF RedemptionsAreHonest, PerUserLimit
<1> QED BY <1>2, <1>3, <1>4, <1>5 DEF Honest

\* A set counted by a test that one more element passes, or does not.
LEMMA OneMoreCounted ==
    ASSUME NEW S, IsFiniteSet(S), NEW x, x \notin S
    PROVE  /\ IsFiniteSet(S \cup {x})
           /\ Cardinality(S) \in Nat
           /\ Cardinality(S \cup {x}) = Cardinality(S) + 1
BY FS_AddElement, FS_CardinalityType

\* Nothing but a redemption moves a counter.
LEMMA HonestUnmoved ==
    ASSUME Honest, PromoTypeOK', UNCHANGED <<used, redemption>>,
           \A c \in Codes : /\ campaign'[c].redeemed = campaign[c].redeemed
                            /\ campaign[c].made => campaign'[c].cap = campaign[c].cap
                            /\ ~ campaign'[c].made => /\ ~ campaign[c].made
                                                      /\ campaign'[c].cap = campaign[c].cap,
           \A b \in Purchases : /\ purchase[b].at = "made" => purchase'[b].at = "made"
                                /\ purchase'[b].at \in {"booked", "loaded"} => purchase'[b].code \in Codes
    PROVE  Honest'
<1>1. Checkouts'
  <2>1. \A r \in redemption' : purchase'[r.of].at = "made"
    BY DEF Honest, Checkouts, PromoTypeOK
  <2>2. \A c \in Codes : ~ campaign'[c].made => campaign'[c].redeemed = 0 /\ campaign'[c].cap = NoCap
    BY ZenonT(60) DEF Honest, Checkouts, PromoTypeOK
  <2> QED BY <2>1, <2>2 DEF Checkouts
<1>2. RedemptionsAreHonest'
  <2>1. \A c \in Codes : campaign'[c].cap # NoCap => campaign'[c].redeemed <= campaign'[c].cap
    <3> SUFFICES ASSUME NEW c \in Codes, campaign'[c].cap # NoCap
                 PROVE  campaign'[c].redeemed <= campaign'[c].cap
        OBVIOUS
    <3>1. CASE campaign[c].made
      BY <3>1 DEF Honest, RedemptionsAreHonest
    <3>2. CASE ~ campaign[c].made
      <4>1. campaign'[c].redeemed = 0
        BY <3>2 DEF Honest, Checkouts
      <4>2. campaign'[c].cap \in Nat
        BY PromoAssumption DEF PromoTypeOK
      <4> QED BY <4>1, <4>2
    <3> QED BY <3>1, <3>2
  <2> QED BY <2>1 DEF Honest, RedemptionsAreHonest
<1> QED BY <1>1, <1>2 DEF Honest

\* Pages and checkouts are changed a field at a time.
LEMMA PromoTypeKept == Honest /\ [PromoNext]_promoVars => PromoTypeOK'
<1> SUFFICES ASSUME Honest, [PromoNext]_promoVars PROVE PromoTypeOK'
    OBVIOUS
<1>0. /\ campaign \in [Codes -> Campaigns] /\ used \in [Codes -> [Phones -> Nat]]
      /\ redemption \subseteq [code : Codes, phone : Phones, of : Purchases]
      /\ purchase \in [Purchases -> Buys] /\ offers \in OffersShown
      /\ promoDesk \in DesksShown /\ invitation \in [Invitations -> Invites]
  BY PromoTypesSplit DEF Honest
<1> USE DEF couponVars, promoVars, Fresh
<1> DEFINE Goal == /\ campaign' \in [Codes -> Campaigns] /\ used' \in [Codes -> [Phones -> Nat]]
                   /\ redemption' \subseteq [code : Codes, phone : Phones, of : Purchases]
                   /\ purchase' \in [Purchases -> Buys] /\ offers' \in OffersShown
                   /\ promoDesk' \in DesksShown /\ invitation' \in [Invitations -> Invites]
<1>1. ASSUME CampaignsCome PROVE Goal
  <2>1. promoDesk' \in DesksShown
    BY <1>0, <1>1 DEF CampaignsCome, DesksShown, Listed
  <2> QED BY <1>0, <1>1, <2>1 DEF CampaignsCome
<1>2. ASSUME CampaignsFail \/ RetryCampaigns PROVE Goal
  <2>1. promoDesk' \in DesksShown
    BY <1>0, <1>2 DEF CampaignsFail, RetryCampaigns, DesksShown
  <2> QED BY <1>0, <1>2, <2>1 DEF CampaignsFail, RetryCampaigns
<1>3. ASSUME OffersCome \/ OffersFail \/ CopiedFades PROVE Goal
  <2>1. offers' \in OffersShown
    BY <1>0, <1>3, ZenonT(60) DEF OffersCome, OffersFail, CopiedFades, OffersShown, Listed
  <2> QED BY <1>0, <1>3, <2>1 DEF OffersCome, OffersFail, CopiedFades
<1>4. ASSUME NEW c \in Codes, CopyCode(c) PROVE Goal
  <2>1. offers' \in OffersShown
    BY <1>0, <1>4 DEF CopyCode, OffersShown
  <2> QED BY <1>0, <1>4, <2>1 DEF CopyCode
<1>5. ASSUME NEW c \in Codes, CampaignEnds(c) PROVE Goal
  <2>1. campaign' \in [Codes -> Campaigns]
    BY <1>0, <1>5 DEF CampaignEnds, Campaigns
  <2> QED BY <1>0, <1>5, <2>1 DEF CampaignEnds
<1>6. ASSUME NEW c \in Codes, NEW n \in Caps \cup {NoCap}, NEW f \in BOOLEAN, NEW byPage \in BOOLEAN,
             CreateCampaign(c, n, f, byPage)
      PROVE  Goal
  <2>1. campaign' \in [Codes -> Campaigns]
    BY <1>0, <1>6 DEF CreateCampaign, Campaigns
  <2>2. promoDesk' \in DesksShown
    BY <1>0, <1>6 DEF CreateCampaign, DesksShown
  <2> QED BY <1>0, <1>6, <2>1, <2>2 DEF CreateCampaign
<1>7. ASSUME NEW b \in Purchases, Preview(b) \/ Book(b) \/ Interrupted(b) PROVE Goal
  <2>1. purchase' \in [Purchases -> Buys]
    <3>1. purchase[b] \in Buys
      BY <1>0
    <3>2. \A at \in {"form", "priced", "booked", "made"} :
            /\ [purchase[b] EXCEPT !.at = at] \in Buys
            /\ \A off \in BOOLEAN : [purchase[b] EXCEPT !.at = at, !.off = off] \in Buys
      BY <3>1 DEF Buys
    <3>3. CASE Preview(b)
      BY <1>0, <3>2, <3>3 DEF Preview
    <3>4. CASE Book(b)
      BY <1>0, <3>2, <3>4 DEF Book
    <3>5. CASE Interrupted(b)
      BY <1>0, <3>2, <3>5 DEF Interrupted
    <3> QED BY <1>7, <3>3, <3>4, <3>5
  <2> QED BY <1>0, <1>7, <2>1 DEF Preview, Book, Interrupted
<1>8. ASSUME NEW b \in Purchases, LoadCampaign(b) PROVE Goal
  <2>1. purchase[b].code \in Codes
    BY <1>8 DEF Honest, Checkouts, LoadCampaign
  <2>2. campaign[purchase[b].code].redeemed \in Nat
    BY <1>0, <2>1 DEF Campaigns
  <2>3. purchase' \in [Purchases -> Buys]
    <3>1. \A at \in {"loaded", "made"}, n \in Nat : [purchase[b] EXCEPT !.at = at, !.saw = n] \in Buys
      BY <1>0 DEF Buys
    <3> QED BY <1>0, <1>8, <2>2, <3>1 DEF LoadCampaign
  <2> QED BY <1>0, <1>8, <2>3 DEF LoadCampaign
<1>9. ASSUME NEW b \in Purchases, Redemption(b) PROVE Goal
  <2> DEFINE c == purchase[b].code
             p == purchase[b].phone
  <2>1. purchase' \in [Purchases -> Buys]
    BY <1>0, <1>9 DEF Redemption, Buys
  <2>2. c \in Codes /\ p \in Phones
    BY <1>0, <1>9 DEF Honest, Checkouts, Redemption, Buys
  <2>3. CASE Redeem(b, campaign[c].redeemed + 1)
    <3>1. campaign[c].redeemed + 1 \in Nat
      BY <1>0, <2>2 DEF Campaigns
    <3>2. campaign' \in [Codes -> Campaigns]
      BY <1>0, <2>2, <2>3, <3>1 DEF Redeem, Campaigns
    <3>3. used' \in [Codes -> [Phones -> Nat]]
      BY <1>0, <2>2, <2>3 DEF Redeem
    <3>4. redemption' \subseteq [code : Codes, phone : Phones, of : Purchases]
      BY <1>0, <2>2, <2>3 DEF Redeem
    <3> QED BY <1>0, <1>9, <2>1, <3>2, <3>3, <3>4 DEF Redemption
  <2>4. CASE UNCHANGED <<campaign, used, redemption>>
    BY <1>0, <1>9, <2>1, <2>4 DEF Redemption
  <2> QED BY <1>9, <2>3, <2>4 DEF Redemption
<1>10. ASSUME NEW b \in Purchases, NEW c \in Codes \cup {NoCoupon}, EnterCode(b, c) PROVE Goal
  <2>1. purchase' \in [Purchases -> Buys]
    BY <1>0, <1>10 DEF EnterCode, Buys
  <2> QED BY <1>0, <1>10, <2>1 DEF EnterCode
<1>11. ASSUME NEW b \in Purchases, NEW p \in Phones, SubmitPurchase(b, p) PROVE Goal
  <2>1. purchase' \in [Purchases -> Buys]
    BY <1>0, <1>11, ZenonT(60) DEF SubmitPurchase, Buys
  <2> QED BY <1>0, <1>11, <2>1 DEF SubmitPurchase
<1>12. ASSUME NEW i \in Invitations, NEW p \in Phones, Invite(i, p) \/ Accept(i, p) PROVE Goal
  <2>1. CASE Invite(i, p)
    <3>1. invitation' \in [Invitations -> Invites]
      BY <1>0, <2>1 DEF Invite, Invites
    <3> QED BY <1>0, <2>1, <3>1 DEF Invite
  <2>2. CASE Accept(i, p)
    <3>1. [invitation[i] EXCEPT !.status = "REGISTERED", !.to = p] \in Invites
      BY <1>0 DEF Invites
    <3>2. invitation' \in [Invitations -> Invites]
      BY <1>0, <2>2, <3>1 DEF Accept
    <3> QED BY <1>0, <2>2, <3>2 DEF Accept
  <2> QED BY <1>12, <2>1, <2>2
<1>13. ASSUME UNCHANGED promoVars PROVE Goal
  BY <1>0, <1>13
<1>14. Goal => PromoTypeOK'
  BY DEF PromoTypeOK, Campaigns, Buys, OffersShown, DesksShown, Invites
<1> HIDE DEF Goal
<1> QED
  BY <1>1, <1>2, <1>3, <1>4, <1>5, <1>6, <1>7, <1>8, <1>9, <1>10, <1>11, <1>12, <1>13, <1>14
  DEF PromoNext


\* The transaction of Claim: one redemption more, of a checkout that had none.
LEMMA HonestRedemption ==
    ASSUME Honest, NEW b \in Purchases, Redemption(b) PROVE Honest'
<1> DEFINE c == purchase[b].code
           p == purchase[b].phone
           x == [code |-> c, phone |-> p, of |-> b]
<1>1. PromoTypeOK'
  BY PromoTypeKept DEF PromoNext
<1>2. /\ c \in Codes /\ p \in Phones /\ purchase[b].at = "loaded"
      /\ purchase' = [purchase EXCEPT ![b].at = "made"] /\ purchase'[b].at = "made"
  BY PromoTypesSplit DEF Honest, Checkouts, Redemption, Buys
<1>3. CASE UNCHANGED <<campaign, used, redemption>>
  <2>1. \A d \in Purchases : /\ purchase[d].at = "made" => purchase'[d].at = "made"
                             /\ purchase'[d].at \in {"booked", "loaded"} => purchase'[d].code \in Codes
    BY <1>2, PromoTypesSplit DEF Honest, Checkouts, Buys
  <2> QED BY <1>1, <1>3, <2>1, HonestUnmoved
<1>4. CASE /\ used[c][p] < PerUserLimit /\ Current(c) /\ ~ Full(c)
           /\ Redeem(b, campaign[c].redeemed + 1)
  <2>1. /\ campaign' = [campaign EXCEPT ![c].redeemed = campaign[c].redeemed + 1]
        /\ used' = [used EXCEPT ![c][p] = @ + 1]
        /\ redemption' = redemption \cup {x}
    BY <1>4 DEF Redeem
  <2>2. campaign \in [Codes -> Campaigns] /\ used \in [Codes -> [Phones -> Nat]]
        /\ purchase \in [Purchases -> Buys]
    BY PromoTypesSplit DEF Honest
  <2>3. x \notin redemption
    BY <1>2 DEF Honest, Checkouts
  <2>4. Checkouts'
    <3>1. \A r \in redemption' : purchase'[r.of].at = "made"
      <4>1. \A r \in redemption : r.of \in Purchases
        BY PromoTypesSplit DEF Honest
      <4> QED BY <1>2, <2>1, <2>2, <4>1 DEF Honest, Checkouts
    <3>2. \A d \in Purchases : purchase'[d].at \in {"booked", "loaded"} => purchase'[d].code \in Codes
      BY <1>2, <2>2 DEF Honest, Checkouts, Buys
    <3>3. \A d \in Codes : ~ campaign'[d].made => campaign'[d].redeemed = 0 /\ campaign'[d].cap = NoCap
      <4>1. campaign[c].made
        BY <1>4 DEF Current
      <4> QED BY <2>1, <2>2, <4>1, <1>2 DEF Honest, Checkouts, Campaigns
    <3> QED BY <3>1, <3>2, <3>3 DEF Checkouts
  <2>5. IsFiniteSet(redemption')
    BY <2>1, <2>3, OneMoreCounted DEF Honest
  <2>6. ASSUME NEW d \in Codes
        PROVE  /\ campaign'[d].redeemed = Cardinality(Redeemed(d)')
               /\ campaign'[d].cap # NoCap => campaign'[d].redeemed <= campaign'[d].cap
    <3>1. IsFiniteSet(Redeemed(d)) /\ campaign[d].redeemed = Cardinality(Redeemed(d))
      BY FS_Subset DEF Honest, RedemptionsAreHonest, Redeemed
    <3>2. CASE d # c
      <4>1. Redeemed(d)' = Redeemed(d)
        BY <2>1, <3>2 DEF Redeemed
      <4>2. campaign'[d] = campaign[d]
        BY <2>1, <2>2, <3>2, <1>2
      <4> QED BY <3>1, <4>1, <4>2 DEF Honest, RedemptionsAreHonest
    <3>3. CASE d = c
      <4>1. Redeemed(d)' = Redeemed(d) \cup {x} /\ x \notin Redeemed(d)
        BY <2>1, <2>3, <3>3 DEF Redeemed
      <4>2. Cardinality(Redeemed(d) \cup {x}) = Cardinality(Redeemed(d)) + 1
        BY <3>1, <4>1, OneMoreCounted
      <4>3. campaign'[d].redeemed = campaign[d].redeemed + 1 /\ campaign'[d].cap = campaign[d].cap
        BY <2>1, <2>2, <3>3, <1>2 DEF Campaigns
      <4>4. campaign[d].cap # NoCap => campaign[d].redeemed + 1 <= campaign[d].cap
        <5>1. campaign[d].redeemed \in Nat /\ campaign[d].cap \in Caps \cup {NoCap}
          BY <2>2 DEF Campaigns
        <5>2. campaign[d].cap # NoCap => ~ (campaign[d].redeemed >= campaign[d].cap)
          BY <1>4, <3>3 DEF Full
        <5>3. campaign[d].cap # NoCap => campaign[d].cap \in Nat
          BY <5>1, PromoAssumption
        <5> HIDE DEF c
        <5> QED BY <5>1, <5>2, <5>3
      <4> QED BY <3>1, <4>1, <4>2, <4>3, <4>4
    <3> QED BY <3>2, <3>3
  <2>7. ASSUME NEW d \in Codes, NEW q \in Phones
        PROVE  used'[d][q] = Cardinality(OfOne(d, q)') /\ used'[d][q] <= PerUserLimit
    <3>1. IsFiniteSet(OfOne(d, q)) /\ used[d][q] = Cardinality(OfOne(d, q)) /\ used[d][q] <= PerUserLimit
      BY FS_Subset DEF Honest, RedemptionsAreHonest, OfOne
    <3>2. CASE d # c \/ q # p
      <4>1. OfOne(d, q)' = OfOne(d, q)
        BY <2>1, <3>2 DEF OfOne
      <4>2. used'[d][q] = used[d][q]
        BY <2>1, <2>2, <3>2, <1>2
      <4> QED BY <3>1, <4>1, <4>2
    <3>3. CASE d = c /\ q = p
      <4>1. OfOne(d, q)' = OfOne(d, q) \cup {x} /\ x \notin OfOne(d, q)
        BY <2>1, <2>3, <3>3 DEF OfOne
      <4>2. Cardinality(OfOne(d, q) \cup {x}) = Cardinality(OfOne(d, q)) + 1
        BY <3>1, <4>1, OneMoreCounted
      <4>3. used'[d][q] = used[d][q] + 1 /\ used[d][q] \in Nat
        BY <2>1, <2>2, <3>3, <1>2
      <4> QED BY <1>4, <3>1, <3>3, <4>1, <4>2, <4>3 DEF PerUserLimit
    <3> QED BY <3>2, <3>3
  <2>8. RedemptionsAreHonest'
    BY <2>6, <2>7 DEF RedemptionsAreHonest, Redeemed, OfOne
  <2> QED BY <1>1, <2>4, <2>5, <2>8 DEF Honest
<1> QED BY <1>3, <1>4 DEF Redemption

LEMMA HonestKept == Honest /\ [PromoNext]_promoVars => Honest'
<1> SUFFICES ASSUME Honest, [PromoNext]_promoVars PROVE Honest'
    OBVIOUS
<1>0. /\ PromoTypeOK' /\ campaign \in [Codes -> Campaigns] /\ purchase \in [Purchases -> Buys]
      /\ \A b \in Purchases : purchase[b].at \in {"booked", "loaded"} => purchase[b].code \in Codes
  BY PromoTypeKept, PromoTypesSplit DEF Honest, Checkouts
<1> USE DEF couponVars, promoVars, Fresh
<1>1. ASSUME UNCHANGED couponVars PROVE Honest'
  BY <1>0, <1>1, HonestUnmoved
<1>2. ASSUME NEW c \in Codes, CampaignEnds(c) PROVE Honest'
  <2>1. \A d \in Codes : /\ campaign'[d].redeemed = campaign[d].redeemed
                         /\ campaign'[d].made = campaign[d].made /\ campaign'[d].cap = campaign[d].cap
    BY <1>0, <1>2 DEF CampaignEnds, Campaigns
  <2>2. UNCHANGED <<used, redemption, purchase>>
    BY <1>2 DEF CampaignEnds
  <2> QED BY <1>0, <2>1, <2>2, HonestUnmoved
<1>3. ASSUME NEW c \in Codes, NEW n \in Caps \cup {NoCap}, NEW f \in BOOLEAN, NEW byPage \in BOOLEAN,
             CreateCampaign(c, n, f, byPage)
      PROVE  Honest'
  <2>1. UNCHANGED <<used, redemption, purchase>>
    BY <1>3 DEF CreateCampaign
  <2>2. CASE campaign[c].made
    BY <1>0, <1>3, <2>1, <2>2, HonestUnmoved DEF CreateCampaign
  <2>3. CASE ~ campaign[c].made
    <3>1. campaign' = [campaign EXCEPT ![c] = [made |-> TRUE, over |-> FALSE, fits |-> f,
                                               cap |-> n, redeemed |-> 0]]
      BY <1>3, <2>3 DEF CreateCampaign
    <3>2. campaign[c].redeemed = 0
      BY <2>3 DEF Honest, Checkouts
    <3>3. \A d \in Codes : /\ campaign'[d].redeemed = campaign[d].redeemed
                           /\ campaign[d].made => campaign'[d].cap = campaign[d].cap
                           /\ ~ campaign'[d].made => /\ ~ campaign[d].made
                                                     /\ campaign'[d].cap = campaign[d].cap
      BY <1>0, <2>3, <3>1, <3>2
    <3> QED BY <1>0, <2>1, <3>3, HonestUnmoved
  <2> QED BY <2>2, <2>3
<1>4. ASSUME NEW b \in Purchases,
             \/ Preview(b) \/ Book(b) \/ LoadCampaign(b) \/ Interrupted(b)
             \/ \E c \in Codes \cup {NoCoupon} : EnterCode(b, c)
             \/ \E p \in Phones : SubmitPurchase(b, p)
      PROVE  Honest'
  <2>1. UNCHANGED <<campaign, used, redemption>>
    BY <1>4 DEF Preview, Book, LoadCampaign, Interrupted, EnterCode, SubmitPurchase
  <2>2. \A d \in Purchases : d # b => purchase'[d] = purchase[d]
    BY <1>0, <1>4 DEF Preview, Book, LoadCampaign, Interrupted, EnterCode, SubmitPurchase
  <2>3. purchase[b].at # "made"
    BY <1>4 DEF Preview, Book, LoadCampaign, Interrupted, EnterCode, SubmitPurchase
  <2>4. purchase'[b].at \in {"booked", "loaded"} => purchase'[b].code \in Codes
    <3>1. CASE Preview(b)
      BY <1>0, <3>1 DEF Preview, Buys
    <3>2. CASE Book(b)
      BY <1>0, <3>2 DEF Book, Buys
    <3>3. CASE LoadCampaign(b)
      BY <1>0, <3>3 DEF LoadCampaign, Buys
    <3>4. CASE Interrupted(b)
      BY <1>0, <3>4 DEF Interrupted, Buys
    <3>5. ASSUME NEW c \in Codes \cup {NoCoupon}, EnterCode(b, c)
          PROVE  purchase'[b].at \notin {"booked", "loaded"}
      BY <1>0, <3>5 DEF EnterCode, Buys
    <3>6. ASSUME NEW p \in Phones, SubmitPurchase(b, p)
          PROVE  purchase'[b].at \notin {"booked", "loaded"}
      BY <1>0, <3>6 DEF SubmitPurchase, Buys
    <3> QED BY <1>4, <3>1, <3>2, <3>3, <3>4, <3>5, <3>6
  <2> QED BY <1>0, <2>1, <2>2, <2>3, <2>4, HonestUnmoved
<1>5. ASSUME NEW b \in Purchases, Redemption(b) PROVE Honest'
  BY <1>5, HonestRedemption
<1>6. ASSUME \/ CampaignsCome \/ CampaignsFail \/ RetryCampaigns
             \/ OffersCome \/ OffersFail \/ CopiedFades
             \/ \E c \in Codes : CopyCode(c)
             \/ \E i \in Invitations, p \in Phones : Invite(i, p) \/ Accept(i, p)
             \/ UNCHANGED promoVars
      PROVE  UNCHANGED couponVars
  BY <1>6 DEF CampaignsCome, CampaignsFail, RetryCampaigns, OffersCome, OffersFail,
              CopiedFades, CopyCode, Invite, Accept
<1> QED
  BY <1>1, <1>2, <1>3, <1>4, <1>5, <1>6 DEF PromoNext

\* The type of the coupons, of the checkouts that use them, and of their pages.
THEOREM PromoTypes == PromoSpec => []PromoTypeOK
<1>1. PromoInit => Honest  BY HonestInit
<1>2. Honest /\ [PromoNext]_promoVars => Honest'  BY HonestKept
<1>3. Honest => PromoTypeOK  BY DEF Honest
<1> QED BY <1>1, <1>2, <1>3, PTL DEF PromoSpec

\* However checkouts overlap, the counters of a campaign and of a passenger are what
\* was redeemed, and within the cap and the limit (promo.go:158-225).
THEOREM RedemptionsAlwaysHonest == PromoSpec => []RedemptionsAreHonest
<1>1. PromoInit => Honest  BY HonestInit
<1>2. Honest /\ [PromoNext]_promoVars => Honest'  BY HonestKept
<1>3. Honest => RedemptionsAreHonest  BY DEF Honest
<1> QED BY <1>1, <1>2, <1>3, PTL DEF PromoSpec

-----------------------------------------------------------------------------
(* Partners                                                                 *)

DeliveryRows == [status : Statuses, attempts : 0 .. MaxAttempts, due : BOOLEAN]
Runs == [on : BOOLEAN, jobs : SUBSET Jobs, at : Deliveries \cup {"reading"}, ok : BOOLEAN,
         attempts : 0 .. MaxAttempts]
PartnerRows == [tier : {"SANDBOX", "LIVE", "SUSPENDED"}, calls : 0 .. Quota, everCalled : BOOLEAN]
PartnerPages == [tier : {"SANDBOX", "LIVE", "SUSPENDED"}, rows : [Deliveries -> Statuses],
                 there : BOOLEAN, busy : BOOLEAN, error : BOOLEAN]

LEMMA PartnersTypesSplit ==
    PartnersTypeOK <=> /\ partner \in PartnerRows /\ delivery \in [Deliveries -> DeliveryRows]
                       /\ posts \in [Deliveries -> 0 .. MaxAttempts] /\ accepted \subseteq Deliveries
                       /\ run \in [Dispatchers -> Runs] /\ partnerDesk \in PartnerPages
BY DEF PartnersTypeOK, PartnerRows, DeliveryRows, Runs, PartnerPages

\* What a row that waits, or one that a run has read, may still become: one attempt
\* is left, and the ones counted were made.
JobsHonest ==
    \A w \in Dispatchers : \A j \in run[w].jobs :
        j.attempts < MaxAttempts /\ j.attempts <= posts[j.of]

\* What a run has posted and not yet written was tried, and accepted if it says so.
PostedHonest ==
    \A w \in Dispatchers : run[w].at \in Deliveries =>
        /\ run[w].attempts + 1 <= posts[run[w].at]
        /\ run[w].ok => run[w].at \in accepted

WaitingHasAnAttemptLeft ==
    \A d \in Deliveries :
        delivery[d].status \in {"PENDING", "RETRYING"} => delivery[d].attempts < MaxAttempts

DeliverySound ==
    /\ PartnersTypeOK /\ JobsHonest /\ PostedHonest /\ WaitingHasAnAttemptLeft
    /\ DeliveryLogIsTrue

LEMMA DeliverySoundInit == PartnersInit => DeliverySound
<1> SUFFICES ASSUME PartnersInit PROVE DeliverySound
    OBVIOUS
<1> USE PartnersAssumption DEF PartnersInit
<1>1. PartnersTypeOK
  BY PartnersTypesSplit
  DEF PartnerRows, DeliveryRows, Runs, PartnerPages, NotQueued, NotRunning, Statuses
<1>2. JobsHonest /\ PostedHonest
  BY DEF JobsHonest, PostedHonest, NotRunning
<1>3. WaitingHasAnAttemptLeft /\ DeliveryLogIsTrue
  BY DEF WaitingHasAnAttemptLeft, DeliveryLogIsTrue, NotQueued
<1> QED BY <1>1, <1>2, <1>3 DEF DeliverySound

\* What a failed attempt leaves: a row of the log, dead after the last attempt only.
LEMMA FailedRow ==
    ASSUME NEW n \in 0 .. MaxAttempts
    PROVE  /\ Failed(n) \in DeliveryRows /\ Failed(n).attempts = n
           /\ Failed(n).status \in {"DEAD", "RETRYING"}
           /\ Failed(n).status = "DEAD" <=> n = MaxAttempts
BY PartnersAssumption DEF Failed, DeliveryRows, Statuses

Resets(d) ==
    \/ delivery'[d] = delivery[d]
    \/ /\ delivery'[d].status \in {"PENDING", "RETRYING"}
       /\ \/ delivery'[d].attempts = 0
          \/ delivery'[d].attempts = delivery[d].attempts /\ delivery[d].status = "RETRYING"

\* A step that leaves the endpoint and the runs alone, and the rows in a state in
\* which nothing is claimed.
LEMMA RowsReset ==
    ASSUME DeliverySound, PartnersTypeOK', UNCHANGED <<posts, accepted, run>>,
           \A d \in Deliveries : Resets(d)
    PROVE  DeliverySound'
<1>1. /\ posts \in [Deliveries -> 0 .. MaxAttempts] /\ MaxAttempts \in Nat \ {0}
      /\ \A d \in Deliveries : delivery[d] \in DeliveryRows
  BY PartnersTypesSplit, PartnersAssumption DEF DeliverySound
<1>2. JobsHonest' /\ PostedHonest'
  BY DEF DeliverySound, JobsHonest, PostedHonest
<1>3. ASSUME NEW d \in Deliveries
      PROVE  /\ delivery'[d].status \in {"PENDING", "RETRYING"} => delivery'[d].attempts < MaxAttempts
             /\ delivery'[d].status = "DELIVERED" => d \in accepted
             /\ delivery'[d].attempts <= posts[d]
             /\ delivery'[d].status = "DEAD" => posts[d] >= MaxAttempts
  <2>1. CASE delivery'[d] = delivery[d]
    BY <2>1 DEF DeliverySound, WaitingHasAnAttemptLeft, DeliveryLogIsTrue
  <2>2. CASE delivery'[d].status \in {"PENDING", "RETRYING"} /\ delivery'[d].attempts = 0
    BY <1>1, <2>2
  <2>3. CASE /\ delivery'[d].status \in {"PENDING", "RETRYING"}
             /\ delivery'[d].attempts = delivery[d].attempts /\ delivery[d].status = "RETRYING"
    BY <2>3 DEF DeliverySound, WaitingHasAnAttemptLeft, DeliveryLogIsTrue
  <2> QED BY <2>1, <2>2, <2>3 DEF Resets
<1>4. WaitingHasAnAttemptLeft' /\ DeliveryLogIsTrue'
  BY <1>3 DEF WaitingHasAnAttemptLeft, DeliveryLogIsTrue
<1> QED BY <1>2, <1>4 DEF DeliverySound

LEMMA DeliverySoundKept == DeliverySound /\ [PartnersNext]_partnerVars => DeliverySound'
<1> SUFFICES ASSUME DeliverySound, [PartnersNext]_partnerVars PROVE DeliverySound'
    OBVIOUS
<1>0. /\ partner \in PartnerRows /\ delivery \in [Deliveries -> DeliveryRows]
      /\ posts \in [Deliveries -> 0 .. MaxAttempts] /\ accepted \subseteq Deliveries
      /\ run \in [Dispatchers -> Runs] /\ partnerDesk \in PartnerPages
      /\ MaxAttempts \in Nat \ {0} /\ Quota \in Nat \ {0} /\ "reading" \notin Deliveries
  BY PartnersTypesSplit, PartnersAssumption DEF DeliverySound
<1> USE DEF deliveryVars, partnerVars
<1>1. ASSUME PartnerCalls \/ NewDay \/ Suspend PROVE DeliverySound'
  <2>1. partner' \in PartnerRows
    <3>1. CASE PartnerCalls
      <4>1. partner.calls + 1 \in 0 .. Quota
        BY <1>0, <3>1 DEF PartnerCalls, PartnerRows
      <4> QED BY <1>0, <3>1, <4>1 DEF PartnerCalls, PartnerRows
    <3>2. CASE NewDay
      BY <1>0, <3>2 DEF NewDay, PartnerRows
    <3>3. CASE Suspend
      BY <1>0, <3>3 DEF Suspend, PartnerRows
    <3> QED BY <1>1, <3>1, <3>2, <3>3
  <2>2. UNCHANGED <<deliveryVars, partnerDesk>>
    BY <1>1 DEF PartnerCalls, NewDay, Suspend
  <2>3. PartnersTypeOK'
    BY <1>0, <2>1, <2>2 DEF PartnersTypeOK, PartnerRows, DeliveryRows, Runs, PartnerPages
  <2> QED BY <2>2, <2>3, RowsReset DEF Resets
<1>2. ASSUME PressCertify PROVE DeliverySound'
  <2>1. partner' \in PartnerRows
    BY <1>0, <1>2 DEF PressCertify, PartnerRows
  <2>2. partnerDesk' \in PartnerPages
    BY <1>0, <1>2 DEF PressCertify, PartnerPages
  <2>3. PartnersTypeOK'
    BY <1>0, <1>2, <2>1, <2>2 DEF PressCertify, PartnersTypeOK, PartnerRows, DeliveryRows, Runs, PartnerPages
  <2> QED BY <1>2, <2>3, RowsReset DEF PressCertify, Resets
<1>3. ASSUME LoadPartners \/ PartnersCome \/ PartnersFail PROVE DeliverySound'
  <2>1. [d \in Deliveries |-> delivery[d].status] \in [Deliveries -> Statuses] /\ partner.tier \in {"SANDBOX", "LIVE", "SUSPENDED"}
    BY <1>0 DEF DeliveryRows, PartnerRows
  <2>2. partnerDesk' \in PartnerPages
    <3>1. CASE LoadPartners
      BY <1>0, <3>1 DEF LoadPartners, PartnerPages
    <3>2. CASE PartnersCome
      BY <1>0, <2>1, <3>2 DEF PartnersCome, PartnerPages
    <3>3. CASE PartnersFail
      BY <1>0, <3>3 DEF PartnersFail, PartnerPages
    <3> QED BY <1>3, <3>1, <3>2, <3>3
  <2>3. UNCHANGED <<partner, deliveryVars>>
    BY <1>3 DEF LoadPartners, PartnersCome, PartnersFail
  <2>4. PartnersTypeOK'
    BY <1>0, <2>2, <2>3 DEF PartnersTypeOK, PartnerRows, DeliveryRows, Runs, PartnerPages
  <2> QED BY <2>3, <2>4, RowsReset DEF Resets
<1>4. ASSUME NEW d \in Deliveries, Enqueue(d) \/ BackoffPasses(d) \/ PressReplayDelivery(d)
      PROVE  DeliverySound'
  <2>1. delivery[d] \in DeliveryRows
    BY <1>0
  <2>2. [status |-> "PENDING", attempts |-> 0, due |-> TRUE] \in DeliveryRows
    BY <1>0 DEF DeliveryRows, Statuses
  <2>3. delivery' \in [Deliveries -> DeliveryRows]
    <3>1. CASE Enqueue(d)
      BY <1>0, <2>2, <3>1 DEF Enqueue
    <3>2. CASE BackoffPasses(d)
      BY <1>0, <3>2 DEF BackoffPasses, DeliveryRows
    <3>3. CASE PressReplayDelivery(d)
      BY <1>0, <2>2, <3>3 DEF PressReplayDelivery
    <3> QED BY <1>4, <3>1, <3>2, <3>3
  <2>4. partnerDesk' \in PartnerPages
    BY <1>0, <1>4 DEF Enqueue, BackoffPasses, PressReplayDelivery, PartnerPages
  <2>5. UNCHANGED <<partner, posts, accepted, run>>
    BY <1>4 DEF Enqueue, BackoffPasses, PressReplayDelivery
  <2>6. PartnersTypeOK'
    BY <1>0, <2>3, <2>4, <2>5 DEF PartnersTypeOK, PartnerRows, DeliveryRows, Runs, PartnerPages
  <2>7. ASSUME NEW e \in Deliveries PROVE Resets(e)
    <3>1. CASE Enqueue(d)
      BY <1>0, <3>1 DEF Enqueue, Resets
    <3>2. CASE BackoffPasses(d)
      BY <1>0, <3>2 DEF BackoffPasses, DeliveryRows, Resets
    <3>3. CASE PressReplayDelivery(d)
      BY <1>0, <3>3 DEF PressReplayDelivery, Resets
    <3> QED BY <1>4, <3>1, <3>2, <3>3
  <2> QED BY <2>5, <2>6, <2>7, RowsReset
<1>5. ASSUME NEW w \in Dispatchers, StartRun(w), UNCHANGED <<partner, delivery, posts, accepted, partnerDesk>>
      PROVE  DeliverySound'
  <2> DEFINE queued == {[of |-> d, attempts |-> delivery[d].attempts] : d \in Due}
             new == [NotRunning EXCEPT !.on = TRUE, !.jobs = queued]
  <2>1. \A j \in queued : j \in Jobs /\ j.attempts < MaxAttempts /\ j.attempts <= posts[j.of]
    <3> SUFFICES ASSUME NEW d \in Due
                 PROVE  /\ [of |-> d, attempts |-> delivery[d].attempts] \in Jobs
                        /\ delivery[d].attempts < MaxAttempts /\ delivery[d].attempts <= posts[d]
        OBVIOUS
    <3>1. d \in Deliveries /\ delivery[d].status \in {"PENDING", "RETRYING"}
      BY DEF Due
    <3>2. delivery[d].attempts \in 0 .. MaxAttempts
      BY <1>0, <3>1 DEF DeliveryRows
    <3> QED BY <3>1, <3>2 DEF Jobs, DeliverySound, WaitingHasAnAttemptLeft, DeliveryLogIsTrue
  <2>2. run' = [run EXCEPT ![w] = new]
    BY <1>5 DEF StartRun
  <2>3. new \in Runs /\ new.at = "reading" /\ new.jobs = queued
    <3>1. queued \in SUBSET Jobs
      BY <2>1
    <3> HIDE DEF queued
    <3>2. NotRunning \in Runs /\ NotRunning.at = "reading"
      BY <1>0 DEF NotRunning, Runs
    <3>3. ASSUME NEW r \in Runs, r.at = "reading"
          PROVE  LET s == [r EXCEPT !.on = TRUE, !.jobs = queued]
                 IN  s \in Runs /\ s.at = "reading" /\ s.jobs = queued
      BY <3>1, <3>3 DEF Runs
    <3> QED BY <3>2, <3>3
  <2> HIDE DEF new, queued
  <2>4. run' \in [Dispatchers -> Runs] /\ run'[w] = new /\ \A v \in Dispatchers : v # w => run'[v] = run[v]
    BY <1>0, <2>2, <2>3
  <2>5. PartnersTypeOK'
    BY <1>0, <1>5, <2>4 DEF PartnersTypeOK, PartnerRows, DeliveryRows, Runs, PartnerPages
  <2>6. JobsHonest'
    BY <1>5, <2>1, <2>3, <2>4 DEF JobsHonest, DeliverySound
  <2>7. PostedHonest'
    BY <1>0, <1>5, <2>3, <2>4 DEF PostedHonest, DeliverySound
  <2>8. WaitingHasAnAttemptLeft' /\ DeliveryLogIsTrue'
    BY <1>5 DEF WaitingHasAnAttemptLeft, DeliveryLogIsTrue, DeliverySound
  <2> QED BY <2>5, <2>6, <2>7, <2>8 DEF DeliverySound
<1>6. ASSUME NEW w \in Dispatchers, NEW j \in run[w].jobs, NEW took \in BOOLEAN, NEW answered \in BOOLEAN,
             Post(w, j, took, answered)
      PROVE  DeliverySound'
  <2> DEFINE new == [run[w] EXCEPT !.jobs = run[w].jobs \ {j}, !.at = j.of, !.ok = answered, !.attempts = j.attempts]
  <2>1. /\ run[w] \in Runs /\ j \in Jobs /\ j.of \in Deliveries /\ j.attempts \in 0 .. MaxAttempts
        /\ j.attempts < MaxAttempts /\ j.attempts <= posts[j.of]
    BY <1>0 DEF Runs, Jobs, DeliverySound, JobsHonest
  <2>2. run' = [run EXCEPT ![w] = new]
    BY <1>6 DEF Post
  <2>3. /\ new \in Runs /\ new.at = j.of /\ new.ok = answered /\ new.attempts = j.attempts
        /\ new.jobs \subseteq run[w].jobs
    BY <2>1 DEF Runs
  <2> HIDE DEF new
  <2>4. run' \in [Dispatchers -> Runs] /\ run'[w] = new /\ \A v \in Dispatchers : v # w => run'[v] = run[v]
    BY <1>0, <2>2, <2>3
  <2>5. posts' = [posts EXCEPT ![j.of] = IF @ < MaxAttempts THEN @ + 1 ELSE @]
    BY <1>6 DEF Post
  <2>6. /\ posts' \in [Deliveries -> 0 .. MaxAttempts]
        /\ j.attempts + 1 <= posts'[j.of]
        /\ \A d \in Deliveries : posts[d] <= posts'[d]
    BY <1>0, <2>1, <2>5
  <2>7. accepted \subseteq accepted' /\ accepted' \subseteq Deliveries /\ (answered => j.of \in accepted')
    BY <1>0, <1>6, <2>1 DEF Post
  <2>8. UNCHANGED <<partner, delivery, partnerDesk>>
    BY <1>6 DEF Post
  <2>9. PartnersTypeOK'
    BY <1>0, <2>4, <2>6, <2>7, <2>8 DEF PartnersTypeOK, PartnerRows, DeliveryRows, Runs, PartnerPages
  <2>10. JobsHonest'
    <3> SUFFICES ASSUME NEW v \in Dispatchers, NEW k \in run'[v].jobs
                 PROVE  k.attempts < MaxAttempts /\ k.attempts <= posts'[k.of]
        BY DEF JobsHonest
    <3>1. k \in run[v].jobs
      BY <2>3, <2>4
    <3>2. k \in Jobs /\ k.attempts < MaxAttempts /\ k.attempts <= posts[k.of]
      BY <1>0, <3>1 DEF DeliverySound, JobsHonest, Runs
    <3>3. k.of \in Deliveries /\ k.attempts \in 0 .. MaxAttempts
      BY <3>2 DEF Jobs
    <3>4. posts[k.of] <= posts'[k.of] /\ posts[k.of] \in 0 .. MaxAttempts /\ posts'[k.of] \in 0 .. MaxAttempts
      BY <1>0, <2>6, <3>3
    <3> QED BY <1>0, <3>2, <3>3, <3>4
  <2>11. PostedHonest'
    <3> SUFFICES ASSUME NEW v \in Dispatchers, run'[v].at \in Deliveries
                 PROVE  run'[v].attempts + 1 <= posts'[run'[v].at] /\ (run'[v].ok => run'[v].at \in accepted')
        BY DEF PostedHonest
    <3>1. CASE v = w
      BY <2>3, <2>4, <2>6, <2>7, <3>1
    <3>2. CASE v # w
      <4> DEFINE a == run[v].at
      <4>1. run'[v] = run[v] /\ a \in Deliveries /\ run[v].attempts \in 0 .. MaxAttempts
        BY <1>0, <2>4, <3>2 DEF Runs
      <4>2. run[v].attempts + 1 <= posts[a] /\ (run[v].ok => a \in accepted)
        BY <4>1 DEF DeliverySound, PostedHonest
      <4>3. posts[a] <= posts'[a] /\ posts[a] \in 0 .. MaxAttempts /\ posts'[a] \in 0 .. MaxAttempts
        BY <1>0, <2>6, <4>1
      <4> QED BY <2>7, <4>1, <4>2, <4>3
    <3> QED BY <3>1, <3>2
  <2>12. WaitingHasAnAttemptLeft'
    BY <2>8 DEF DeliverySound, WaitingHasAnAttemptLeft
  <2>13. DeliveryLogIsTrue'
    <3> SUFFICES ASSUME NEW d \in Deliveries
                 PROVE  /\ delivery[d].status = "DELIVERED" => d \in accepted'
                        /\ delivery[d].attempts <= posts'[d]
                        /\ delivery[d].status = "DEAD" => posts'[d] >= MaxAttempts
        BY <2>8 DEF DeliveryLogIsTrue
    <3>1. /\ delivery[d].attempts \in 0 .. MaxAttempts /\ posts[d] \in 0 .. MaxAttempts
          /\ posts'[d] \in 0 .. MaxAttempts /\ posts[d] <= posts'[d]
      BY <1>0, <2>6 DEF DeliveryRows
    <3>2. /\ delivery[d].status = "DELIVERED" => d \in accepted
          /\ delivery[d].attempts <= posts[d]
          /\ delivery[d].status = "DEAD" => posts[d] >= MaxAttempts
      BY DEF DeliverySound, DeliveryLogIsTrue
    <3> QED BY <1>0, <2>7, <3>1, <3>2
  <2> QED BY <2>9, <2>10, <2>11, <2>12, <2>13 DEF DeliverySound
<1>7. ASSUME NEW w \in Dispatchers, Record(w) PROVE DeliverySound'
  <2> DEFINE d == run[w].at
             attempt == run[w].attempts + 1
             written == IF run[w].ok THEN [delivery[d] EXCEPT !.status = "DELIVERED", !.attempts = attempt]
                    ELSE Failed(attempt)
             new == [run[w] EXCEPT !.at = "reading"]
  <2>1. /\ d \in Deliveries /\ run[w] \in Runs /\ delivery[d] \in DeliveryRows
        /\ run[w].attempts \in 0 .. MaxAttempts /\ posts[d] \in 0 .. MaxAttempts
    BY <1>0, <1>7 DEF Record, Runs
  <2>2. attempt <= posts[d] /\ attempt \in 0 .. MaxAttempts /\ (run[w].ok => d \in accepted)
    BY <1>0, <2>1 DEF DeliverySound, PostedHonest
  <2>3. /\ delivery' = [delivery EXCEPT ![d] = written]
        /\ run' = [run EXCEPT ![w] = new]
        /\ UNCHANGED <<partner, posts, accepted, partnerDesk>>
    BY <1>7 DEF Record
  <2>4. /\ written \in DeliveryRows /\ written.attempts = attempt
        /\ written.status \in {"DELIVERED", "DEAD", "RETRYING"}
        /\ written.status = "DELIVERED" => run[w].ok
        /\ written.status = "DEAD" => attempt = MaxAttempts
        /\ written.status = "RETRYING" => attempt # MaxAttempts
    <3>1. CASE run[w].ok
      BY <2>1, <2>2, <3>1 DEF DeliveryRows, Statuses
    <3>2. CASE ~ run[w].ok
      BY <2>2, <3>2, FailedRow
    <3> QED BY <3>1, <3>2
  <2>5. new \in Runs /\ new.at = "reading" /\ new.jobs = run[w].jobs
    BY <2>1 DEF Runs
  <2> HIDE DEF d, attempt, written, new
  <2>6. /\ run' \in [Dispatchers -> Runs] /\ run'[w] = new
        /\ \A v \in Dispatchers : v # w => run'[v] = run[v]
    BY <1>0, <2>3, <2>5
  <2>7. delivery' \in [Deliveries -> DeliveryRows] /\ delivery'[d] = written
        /\ \A e \in Deliveries : e # d => delivery'[e] = delivery[e]
    BY <1>0, <2>1, <2>3, <2>4
  <2>8. PartnersTypeOK'
    BY <1>0, <2>3, <2>6, <2>7 DEF PartnersTypeOK, PartnerRows, DeliveryRows, Runs, PartnerPages
  <2>9. JobsHonest'
    BY <2>3, <2>5, <2>6 DEF DeliverySound, JobsHonest
  <2>10. PostedHonest'
    BY <1>0, <2>3, <2>5, <2>6 DEF DeliverySound, PostedHonest
  <2>11. WaitingHasAnAttemptLeft'
    <3>1. written.status \in {"PENDING", "RETRYING"} => written.attempts < MaxAttempts
      BY <1>0, <2>2, <2>4
    <3> QED BY <2>7, <3>1 DEF DeliverySound, WaitingHasAnAttemptLeft
  <2>12. DeliveryLogIsTrue'
    <3>1. /\ written.status = "DELIVERED" => d \in accepted
          /\ written.attempts <= posts[d]
          /\ written.status = "DEAD" => posts[d] >= MaxAttempts
      BY <1>0, <2>1, <2>2, <2>4
    <3> QED BY <2>3, <2>7, <3>1 DEF DeliverySound, DeliveryLogIsTrue
  <2> QED BY <2>8, <2>9, <2>10, <2>11, <2>12 DEF DeliverySound
<1>8. ASSUME NEW w \in Dispatchers, NEW failed \in BOOLEAN, RunEnds(w, failed) PROVE DeliverySound'
  <2>1. NotRunning \in Runs /\ NotRunning.at = "reading" /\ NotRunning.jobs = {}
    BY <1>0 DEF NotRunning, Runs
  <2>2. /\ run' = [run EXCEPT ![w] = NotRunning]
        /\ UNCHANGED <<partner, delivery, posts, accepted>>
    BY <1>8 DEF RunEnds
  <2>3. /\ run' \in [Dispatchers -> Runs] /\ run'[w] = NotRunning
        /\ \A v \in Dispatchers : v # w => run'[v] = run[v]
    BY <1>0, <2>1, <2>2
  <2>4. partnerDesk' \in PartnerPages
    BY <1>0, <1>8 DEF RunEnds, PartnerPages
  <2>5. PartnersTypeOK'
    BY <1>0, <2>2, <2>3, <2>4 DEF PartnersTypeOK, PartnerRows, DeliveryRows, Runs, PartnerPages
  <2>6. JobsHonest'
    BY <2>1, <2>2, <2>3 DEF DeliverySound, JobsHonest
  <2>7. PostedHonest'
    BY <1>0, <2>1, <2>2, <2>3 DEF DeliverySound, PostedHonest
  <2>8. WaitingHasAnAttemptLeft' /\ DeliveryLogIsTrue'
    BY <2>2 DEF WaitingHasAnAttemptLeft, DeliveryLogIsTrue, DeliverySound
  <2> QED BY <2>5, <2>6, <2>7, <2>8 DEF DeliverySound
<1>9. ASSUME UNCHANGED partnerVars PROVE DeliverySound'
  <2>1. PartnersTypeOK'
    BY <1>0, <1>9 DEF PartnersTypeOK, PartnerRows, DeliveryRows, Runs, PartnerPages
  <2> QED BY <1>9, <2>1, RowsReset DEF Resets
<1>10. Ticker \in Dispatchers /\ Button \in Dispatchers
  BY DEF Dispatchers
<1>11. ASSUME TickerRuns \/ PressDispatch PROVE DeliverySound'
  BY <1>5, <1>10, <1>11 DEF TickerRuns, PressDispatch
<1> QED
  BY <1>1, <1>2, <1>3, <1>4, <1>6, <1>7, <1>8, <1>9, <1>11
  DEF PartnersNext, AccountNext, WebhookNext

\* The type of the partner, its deliveries, the runs and the page.
THEOREM PartnersTypes == PartnersSpec => []PartnersTypeOK
<1>1. PartnersInit => DeliverySound  BY DeliverySoundInit
<1>2. DeliverySound /\ [PartnersNext]_partnerVars => DeliverySound'  BY DeliverySoundKept
<1>3. DeliverySound => PartnersTypeOK  BY DEF DeliverySound
<1> QED BY <1>1, <1>2, <1>3, PTL DEF PartnersSpec

\* However the two dispatchers and a replay overtake one another, what the log calls
\* delivered was accepted, what it counts was tried, and what it gives up was tried
\* as often as it may be (partner.go:332-402, 424-436).
THEOREM DeliveryLogAlwaysTrue == PartnersSpec => []DeliveryLogIsTrue
<1>1. PartnersInit => DeliverySound  BY DeliverySoundInit
<1>2. DeliverySound /\ [PartnersNext]_partnerVars => DeliverySound'  BY DeliverySoundKept
<1>3. DeliverySound => DeliveryLogIsTrue  BY DEF DeliverySound
<1> QED BY <1>1, <1>2, <1>3, PTL DEF PartnersSpec

-----------------------------------------------------------------------------
(* Risk                                                                     *)

RuleRows == [mode : Modes, hits : 0 .. MaxCount, wrong : 0 .. MaxCount]
Askings == [at : {"no", "asked", "weighing", "passed", "refused"},
            modes : [RuleNos -> Modes], next : 1 .. Len(Outcome) + 1,
            outcome : 0 .. 4, enforced : BOOLEAN]
RiskPages == [modes : [RuleNos -> Modes], cases : [Subjects -> 0 .. MaxCases],
              blocks : SUBSET Subjects, busy : BOOLEAN, there : BOOLEAN, error : BOOLEAN]
CaseRows == SUBSET {"OPEN", "CLEARED", "CONFIRMED"}

LEMMA RiskTypesSplit ==
    RiskTypeOK <=> /\ rule \in [RuleNos -> RuleRows]
                   /\ observed \in [Subjects -> 0 .. MaxCount]
                   /\ fired \in [Subjects -> SUBSET RuleNos]
                   /\ cases \in [Subjects -> CaseRows]
                   /\ opened \in [Subjects -> 0 .. MaxCases]
                   /\ block \in [Subjects -> {"none", "standing", "lifted"}]
                   /\ asking \in [Subjects -> Askings]
                   /\ riskDesk \in RiskPages
BY DEF RiskTypeOK, RuleRows, Askings, RiskPages, CaseRows

LEMMA RulesNumbered ==
    /\ Len(Outcome) \in Nat /\ RuleNos = 1 .. Len(Outcome)
    /\ \A n \in RuleNos : Outcome[n] \in 0 .. 4
    /\ MaxCount \in Nat /\ MaxCases \in Nat /\ FirstMode \in [RuleNos -> Modes]
BY RiskAssumption DEF RuleNos

\* The subjects a rule has a row about and can still be counted wrong for: the key of
\* risk.cases lets a subject be cleared once.
ToAnswerFor(n) == {s \in Subjects : n \in fired[s] /\ "CLEARED" \notin cases[s]}

\* What a rule may still be counted wrong for is within what it has fired, unless its
\* counter of hits has reached its bound.
RuleAnswers(n) ==
    /\ IsFiniteSet(ToAnswerFor(n))
    /\ rule[n].hits = MaxCount \/ rule[n].wrong + Cardinality(ToAnswerFor(n)) <= rule[n].hits

RulesAnswer == RiskTypeOK /\ \A n \in RuleNos : RuleAnswers(n)

LEMMA RulesAnswerInit == RiskInit => RulesAnswer
<1> SUFFICES ASSUME RiskInit PROVE RulesAnswer
    OBVIOUS
<1> USE RulesNumbered DEF RiskInit
<1>1. rule \in [RuleNos -> RuleRows]
  BY DEF RuleRows
<1>2. NotAsking \in Askings
  BY DEF NotAsking, Askings, Modes
<1>3. riskDesk \in RiskPages
  BY DEF RiskPages
<1>4. RiskTypeOK
  BY <1>1, <1>2, <1>3, RiskTypesSplit DEF CaseRows
<1>5. \A n \in RuleNos : ToAnswerFor(n) = {}
  BY DEF ToAnswerFor
<1>6. \A n \in RuleNos : RuleAnswers(n)
  <2>1. \A n \in RuleNos : rule[n].wrong = 0 /\ rule[n].hits = 0
    OBVIOUS
  <2>2. IsFiniteSet({}) /\ Cardinality({}) = 0
    BY FS_EmptySet
  <2>3. \A n \in RuleNos : IsFiniteSet(ToAnswerFor(n)) /\ Cardinality(ToAnswerFor(n)) = 0
    BY <1>5, <2>2, Zenon
  <2> QED BY <2>1, <2>3 DEF RuleAnswers
<1> QED BY <1>4, <1>6 DEF RulesAnswer

LEMMA RiskTypeKept == RiskTypeOK /\ [RiskNext]_riskVars => RiskTypeOK'
<1> SUFFICES ASSUME RiskTypeOK, [RiskNext]_riskVars PROVE RiskTypeOK'
    OBVIOUS
<1>0. /\ rule \in [RuleNos -> RuleRows] /\ observed \in [Subjects -> 0 .. MaxCount]
      /\ fired \in [Subjects -> SUBSET RuleNos] /\ cases \in [Subjects -> CaseRows]
      /\ opened \in [Subjects -> 0 .. MaxCases]
      /\ block \in [Subjects -> {"none", "standing", "lifted"}]
      /\ asking \in [Subjects -> Askings] /\ riskDesk \in RiskPages
  BY RiskTypesSplit
<1>a. /\ Len(Outcome) \in Nat /\ RuleNos = 1 .. Len(Outcome)
      /\ \A n \in RuleNos : Outcome[n] \in 0 .. 4
      /\ MaxCount \in Nat /\ MaxCases \in Nat
  BY RulesNumbered
<1>b. \A n \in 0 .. MaxCount : OneMore(n) \in 0 .. MaxCount
  BY <1>a DEF OneMore
<1>c. NotAsking \in Askings
  BY <1>a DEF NotAsking, Askings, Modes
<1>d. \A a \in Askings, at \in {"asked", "passed", "refused"} : [a EXCEPT !.at = at] \in Askings
  BY DEF Askings
<1>e. \A busy, there, error \in BOOLEAN :
        /\ [riskDesk EXCEPT !.busy = busy] \in RiskPages
        /\ [riskDesk EXCEPT !.busy = busy, !.error = error] \in RiskPages
  BY <1>0 DEF RiskPages
<1> DEFINE Goal == /\ rule' \in [RuleNos -> RuleRows] /\ observed' \in [Subjects -> 0 .. MaxCount]
                   /\ fired' \in [Subjects -> SUBSET RuleNos] /\ cases' \in [Subjects -> CaseRows]
                   /\ opened' \in [Subjects -> 0 .. MaxCases]
                   /\ block' \in [Subjects -> {"none", "standing", "lifted"}]
                   /\ asking' \in [Subjects -> Askings] /\ riskDesk' \in RiskPages
<1> USE DEF riskRows, riskVars
<1>1. ASSUME NEW s \in Subjects, RequestCode(s) \/ RefuseBlocked(s) PROVE Goal
  <2>1. CASE RequestCode(s)
    BY <1>0, <1>c, <1>d, <2>1 DEF RequestCode
  <2>2. CASE RefuseBlocked(s)
    BY <1>0, <1>b, <1>c, <1>d, <2>2 DEF RefuseBlocked
  <2> QED BY <1>1, <2>1, <2>2
<1>2. ASSUME NEW s \in Subjects, NEW ok \in BOOLEAN, ReadRules(s, ok) PROVE Goal
  <2>1. [n \in RuleNos |-> rule[n].mode] \in [RuleNos -> Modes]
    BY <1>0 DEF RuleRows
  <2>2. \A m \in [RuleNos -> Modes] : [asking[s] EXCEPT !.at = "weighing", !.modes = m] \in Askings
    BY <1>0 DEF Askings
  <2>3. asking' = [asking EXCEPT ![s] = [asking[s] EXCEPT !.at = "weighing",
                                                          !.modes = [n \in RuleNos |-> rule[n].mode]]]
    BY <1>2 DEF ReadRules
  <2>4. asking' \in [Subjects -> Askings]
    BY <1>0, <2>1, <2>2, <2>3
  <2> QED BY <1>0, <1>2, <2>4 DEF ReadRules
<1>3. ASSUME NEW s \in Subjects, NEW week \in BOOLEAN, WindowPasses(s, week) PROVE Goal
  BY <1>0, <1>a, <1>3 DEF WindowPasses
<1>4. ASSUME NEW s \in Subjects, RuleSkipped(s) PROVE Goal
  <2>1. asking[s] \in Askings /\ asking[s].next + 1 \in 1 .. Len(Outcome) + 1
    BY <1>0, <1>a, <1>4 DEF RuleSkipped, Askings
  <2>2. \A k \in 1 .. Len(Outcome) + 1 : [asking[s] EXCEPT !.next = k] \in Askings
    BY <2>1 DEF Askings
  <2>3. asking' \in [Subjects -> Askings]
    BY <1>0, <1>4, <2>1, <2>2 DEF RuleSkipped
  <2> QED BY <1>0, <1>4, <2>3 DEF RuleSkipped
<1>5. ASSUME NEW s \in Subjects, Decide(s) PROVE Goal
  <2>1. asking' \in [Subjects -> Askings]
    BY <1>0, <1>c, <1>d, <1>5 DEF Decide
  <2>2. observed' \in [Subjects -> 0 .. MaxCount]
    BY <1>0, <1>b, <1>5 DEF Decide
  <2> QED BY <1>0, <1>5, <2>1, <2>2 DEF Decide
<1>6. ASSUME NEW s \in Subjects, NEW hit \in BOOLEAN, NEW recorded \in BOOLEAN, RuleFires(s, hit, recorded)
      PROVE  Goal
  <2> DEFINE n == asking[s].next
             e == asking[s].modes[n] = "ENFORCING"
  <2>1. /\ n \in RuleNos /\ asking[s] \in Askings /\ n + 1 \in 1 .. Len(Outcome) + 1
        /\ asking[s].enforced \in BOOLEAN /\ asking[s].outcome \in 0 .. 4 /\ Outcome[n] \in 0 .. 4
        /\ rule[n] \in RuleRows /\ rule[n].hits \in 0 .. MaxCount
    BY <1>0, <1>a, <1>6 DEF RuleFires, Askings, RuleRows
  <2>2. \A k \in 1 .. Len(Outcome) + 1, b \in BOOLEAN, o \in 0 .. 4 :
          [asking[s] EXCEPT !.next = k, !.enforced = b, !.outcome = o] \in Askings
    BY <2>1 DEF Askings
  <2>3. asking' \in [Subjects -> Askings]
    <3>1. asking' = [asking EXCEPT ![s] = [asking[s] EXCEPT
                       !.next = n + 1, !.enforced = asking[s].enforced \/ e,
                       !.outcome = IF Outcome[n] > asking[s].outcome THEN Outcome[n] ELSE asking[s].outcome]]
      BY <1>6 DEF RuleFires
    <3>2. (asking[s].enforced \/ e) \in BOOLEAN
      BY <2>1
    <3>3. (IF Outcome[n] > asking[s].outcome THEN Outcome[n] ELSE asking[s].outcome) \in 0 .. 4
      BY <2>1
    <3> HIDE DEF n, e
    <3> QED BY <1>0, <2>1, <2>2, <3>1, <3>2, <3>3
  <2>4. rule' \in [RuleNos -> RuleRows]
    <3>1. \A h \in 0 .. MaxCount : [rule[n] EXCEPT !.hits = h] \in RuleRows
      BY <2>1 DEF RuleRows
    <3> QED BY <1>0, <1>b, <1>6, <2>1, <3>1 DEF RuleFires
  <2>5. /\ observed' \in [Subjects -> 0 .. MaxCount] /\ fired' \in [Subjects -> SUBSET RuleNos]
        /\ cases' \in [Subjects -> CaseRows] /\ opened' \in [Subjects -> 0 .. MaxCases]
    <3>1. CASE recorded
      <4>1. observed' \in [Subjects -> 0 .. MaxCount] /\ fired' \in [Subjects -> SUBSET RuleNos]
        BY <1>0, <1>b, <1>6, <2>1, <3>1 DEF RuleFires
      <4>2. UNCHANGED <<cases, opened>> \/ CaseOpens(s, n)
        BY <1>6, <3>1 DEF RuleFires
      <4>3. cases' \in [Subjects -> CaseRows] /\ opened' \in [Subjects -> 0 .. MaxCases]
        <5>1. CASE UNCHANGED <<cases, opened>>
          BY <1>0, <5>1
        <5>2. CASE /\ opened[s] < MaxCases
                   /\ cases' = [cases EXCEPT ![s] = @ \cup {"OPEN"}]
                   /\ opened' = [opened EXCEPT ![s] = @ + 1]
          <6>1. opened[s] + 1 \in 0 .. MaxCases
            BY <1>0, <1>a, <5>2
          <6>2. cases[s] \cup {"OPEN"} \in CaseRows
            BY <1>0 DEF CaseRows
          <6> QED BY <1>0, <5>2, <6>1, <6>2
        <5> HIDE DEF n
        <5> QED BY <4>2, <5>1, <5>2 DEF CaseOpens
      <4> QED BY <4>1, <4>3
    <3>2. CASE ~ recorded
      BY <1>0, <1>6, <3>2 DEF RuleFires
    <3> QED BY <3>1, <3>2
  <2>6. UNCHANGED <<block, riskDesk>>
    BY <1>6 DEF RuleFires
  <2> QED BY <1>0, <2>3, <2>4, <2>5, <2>6
<1>7. ASSUME RiskCome PROVE Goal
  <2>1. /\ [n \in RuleNos |-> rule[n].mode] \in [RuleNos -> Modes]
        /\ [s \in Subjects |-> IF "OPEN" \in cases[s] THEN opened[s] ELSE 0] \in [Subjects -> 0 .. MaxCases]
        /\ {s \in Subjects : block[s] = "standing"} \in SUBSET Subjects
    BY <1>0, <1>a DEF RuleRows
  <2>2. \A m \in [RuleNos -> Modes], c \in [Subjects -> 0 .. MaxCases], b \in SUBSET Subjects :
          [riskDesk EXCEPT !.busy = FALSE, !.there = TRUE, !.modes = m, !.cases = c, !.blocks = b] \in RiskPages
    BY <1>0 DEF RiskPages
  <2>3. riskDesk' \in RiskPages
    BY <1>7, <2>1, <2>2 DEF RiskCome
  <2> QED BY <1>0, <1>7, <2>3 DEF RiskCome
<1>8. ASSUME RiskFails \/ RiskRetry PROVE Goal
  BY <1>0, <1>e, <1>8 DEF RiskFails, RiskRetry
<1>9. ASSUME NEW n \in RuleNos, PressMode(n) PROVE Goal
  <2>1. \A m \in Modes : [rule[n] EXCEPT !.mode = m] \in RuleRows
    BY <1>0, <1>9 DEF RuleRows
  <2>2. rule' \in [RuleNos -> RuleRows]
    BY <1>0, <1>9, <2>1 DEF PressMode, Modes
  <2> QED BY <1>0, <1>e, <1>9, <2>2 DEF PressMode
<1>10. ASSUME NEW s \in Subjects, PressLift(s) PROVE Goal
  BY <1>0, <1>e, <1>10 DEF PressLift
<1>11. ASSUME NEW s \in Subjects, NEW v \in {"CLEARED", "CONFIRMED"}, PressClose(s, v) PROVE Goal
  <2>1. UNCHANGED <<observed, fired, opened, asking>>
    BY <1>11 DEF PressClose
  <2>2. CASE UNCHANGED <<cases, rule, block, riskDesk>>
    BY <1>0, <2>1, <2>2
  <2>3. CASE CloseCase(s, v) /\ riskDesk' = [riskDesk EXCEPT !.busy = TRUE]
    <3>1. cases' \in [Subjects -> CaseRows] /\ block' \in [Subjects -> {"none", "standing", "lifted"}]
      BY <1>0, <2>3 DEF CloseCase, CaseRows
    <3>2. \A n \in RuleNos : rule[n] \in RuleRows /\ [rule[n] EXCEPT !.wrong = OneMore(@)] \in RuleRows
      BY <1>0, <1>b DEF RuleRows
    <3>3. rule' \in [RuleNos -> RuleRows]
      BY <1>0, <2>3, <3>2 DEF CloseCase
    <3> QED BY <1>0, <1>e, <2>1, <2>3, <3>1, <3>3
  <2> QED BY <1>11, <2>2, <2>3 DEF PressClose
<1>12. ASSUME UNCHANGED riskVars PROVE Goal
  BY <1>0, <1>12
<1>13. Goal => RiskTypeOK'
  BY DEF RiskTypeOK, RuleRows, Askings, RiskPages, CaseRows
<1> HIDE DEF Goal
<1> QED
  BY <1>1, <1>2, <1>3, <1>4, <1>5, <1>6, <1>7, <1>8, <1>9, <1>10, <1>11, <1>12, <1>13
  DEF RiskNext, EngineNext, ConsoleNext

-----------------------------------------------------------------------------
(* What a rule answers for                                                  *)

LEMMA RuleTypes ==
    ASSUME RiskTypeOK, NEW n \in RuleNos
    PROVE  rule[n].hits \in 0 .. MaxCount /\ rule[n].wrong \in 0 .. MaxCount /\ MaxCount \in Nat
BY RiskTypesSplit, RulesNumbered DEF RuleRows

\* Subjects may leave the account of a rule at any time, and its hits may grow.
LEMMA AnswersForLess ==
    ASSUME RulesAnswer, RiskTypeOK', NEW n \in RuleNos, ToAnswerFor(n)' \subseteq ToAnswerFor(n),
           rule'[n].wrong = rule[n].wrong, rule'[n].hits >= rule[n].hits
    PROVE  RuleAnswers(n)'
<1> DEFINE S == ToAnswerFor(n)
           T == ToAnswerFor(n)'
<1>1. /\ rule[n].hits \in 0 .. MaxCount /\ rule[n].wrong \in 0 .. MaxCount /\ MaxCount \in Nat
      /\ rule'[n].hits \in 0 .. MaxCount
  BY RuleTypes, RiskTypesSplit DEF RulesAnswer, RiskTypeOK
<1>2. IsFiniteSet(S) /\ (rule[n].hits = MaxCount \/ rule[n].wrong + Cardinality(S) <= rule[n].hits)
  BY DEF RulesAnswer, RuleAnswers
<1>3. IsFiniteSet(T) /\ Cardinality(T) <= Cardinality(S) /\ Cardinality(S) \in Nat /\ Cardinality(T) \in Nat
  BY <1>2, FS_Subset, FS_CardinalityType
<1>4. rule'[n].hits = MaxCount \/ rule'[n].wrong + Cardinality(T) <= rule'[n].hits
  <2> HIDE DEF S, T
  <2> QED BY <1>1, <1>2, <1>3
<1> QED BY <1>3, <1>4 DEF RuleAnswers

\* A subject more for one hit more.
LEMMA AnswersForOneMore ==
    ASSUME RulesAnswer, RiskTypeOK', NEW n \in RuleNos, NEW s,
           ToAnswerFor(n)' \subseteq ToAnswerFor(n) \cup {s},
           rule'[n].wrong = rule[n].wrong, rule'[n].hits = OneMore(rule[n].hits)
    PROVE  RuleAnswers(n)'
<1> DEFINE S == ToAnswerFor(n)
           T == ToAnswerFor(n)'
<1>1. rule[n].hits \in 0 .. MaxCount /\ rule[n].wrong \in 0 .. MaxCount /\ MaxCount \in Nat
  BY RuleTypes DEF RulesAnswer
<1>2. IsFiniteSet(S) /\ (rule[n].hits = MaxCount \/ rule[n].wrong + Cardinality(S) <= rule[n].hits)
  BY DEF RulesAnswer, RuleAnswers
<1>3. IsFiniteSet(S \cup {s}) /\ Cardinality(S \cup {s}) <= Cardinality(S) + 1 /\ Cardinality(S) \in Nat
  <2> HIDE DEF S
  <2>1. /\ IsFiniteSet(S \cup {s}) /\ Cardinality(S) \in Nat
        /\ Cardinality(S \cup {s}) = Cardinality(S) \/ Cardinality(S \cup {s}) = Cardinality(S) + 1
    BY <1>2, FS_AddElement, FS_CardinalityType DEF S
  <2> QED BY <2>1
<1>4. /\ IsFiniteSet(T) /\ Cardinality(T) <= Cardinality(S \cup {s})
      /\ Cardinality(T) \in Nat /\ Cardinality(S \cup {s}) \in Nat
  <2> HIDE DEF S
  <2> QED BY <1>3, FS_Subset, FS_CardinalityType DEF S
<1>5. rule'[n].hits = MaxCount \/ rule'[n].wrong + Cardinality(T) <= rule'[n].hits
  <2> HIDE DEF S, T
  <2> QED BY <1>1, <1>2, <1>3, <1>4 DEF OneMore
<1> QED BY <1>4, <1>5 DEF RuleAnswers

\* A subject that is cleared leaves the account of each rule it was counted against.
LEMMA AnswersForCleared ==
    ASSUME RulesAnswer, RiskTypeOK', NEW n \in RuleNos, NEW s \in ToAnswerFor(n),
           ToAnswerFor(n)' \subseteq ToAnswerFor(n) \ {s},
           rule'[n].wrong = OneMore(rule[n].wrong), rule'[n].hits = rule[n].hits
    PROVE  RuleAnswers(n)'
<1> DEFINE S == ToAnswerFor(n)
           T == ToAnswerFor(n)'
<1>1. rule[n].hits \in 0 .. MaxCount /\ rule[n].wrong \in 0 .. MaxCount /\ MaxCount \in Nat
  BY RuleTypes DEF RulesAnswer
<1>2. IsFiniteSet(S) /\ (rule[n].hits = MaxCount \/ rule[n].wrong + Cardinality(S) <= rule[n].hits)
  BY DEF RulesAnswer, RuleAnswers
<1>3. IsFiniteSet(S \ {s}) /\ Cardinality(S \ {s}) = Cardinality(S) - 1 /\ Cardinality(S) \in Nat
  BY <1>2, FS_RemoveElement, FS_CardinalityType
<1>4. /\ IsFiniteSet(T) /\ Cardinality(T) <= Cardinality(S \ {s})
      /\ Cardinality(T) \in Nat /\ Cardinality(S \ {s}) \in Nat
  BY <1>3, FS_Subset, FS_CardinalityType
<1>5. rule'[n].hits = MaxCount \/ rule'[n].wrong + Cardinality(T) <= rule'[n].hits
  <2> HIDE DEF S, T
  <2> QED BY <1>1, <1>2, <1>3, <1>4 DEF OneMore
<1> QED BY <1>4, <1>5 DEF RuleAnswers

LEMMA AnswerableKept == RulesAnswer /\ [RiskNext]_riskVars => RulesAnswer'
<1> SUFFICES ASSUME RulesAnswer, [RiskNext]_riskVars, NEW n \in RuleNos PROVE RuleAnswers(n)'
    BY RiskTypeKept DEF RulesAnswer
<1>0. /\ rule \in [RuleNos -> RuleRows] /\ fired \in [Subjects -> SUBSET RuleNos]
      /\ cases \in [Subjects -> CaseRows] /\ RiskTypeOK'
      /\ rule[n].hits \in 0 .. MaxCount /\ rule[n].hits >= rule[n].hits
  BY RiskTypesSplit, RiskTypeKept, RuleTypes DEF RulesAnswer
<1> USE DEF riskRows, riskVars
<1>1. ASSUME UNCHANGED <<rule, fired, cases>> PROVE RuleAnswers(n)'
  BY <1>0, <1>1, AnswersForLess DEF ToAnswerFor
<1>2. ASSUME NEW s \in Subjects, NEW week \in BOOLEAN, WindowPasses(s, week) PROVE RuleAnswers(n)'
  <2>1. ToAnswerFor(n)' \subseteq ToAnswerFor(n) /\ UNCHANGED rule
    BY <1>0, <1>2 DEF WindowPasses, ToAnswerFor
  <2> QED BY <1>0, <2>1, AnswersForLess
<1>3. ASSUME NEW m \in RuleNos, PressMode(m) PROVE RuleAnswers(n)'
  <2>1. rule'[n].wrong = rule[n].wrong /\ rule'[n].hits = rule[n].hits
    BY <1>0, <1>3 DEF PressMode, RuleRows
  <2>2. ToAnswerFor(n)' = ToAnswerFor(n)
    BY <1>3 DEF PressMode, ToAnswerFor
  <2> QED BY <1>0, <2>1, <2>2, AnswersForLess
<1>4. ASSUME NEW s \in Subjects, NEW hit \in BOOLEAN, NEW recorded \in BOOLEAN, RuleFires(s, hit, recorded)
      PROVE  RuleAnswers(n)'
  <2> DEFINE m == asking[s].next
  <2>1. /\ m \in RuleNos /\ (recorded => hit)
        /\ rule' = [rule EXCEPT ![m].hits = IF hit THEN OneMore(@) ELSE @]
    BY <1>4 DEF RuleFires
  <2>2. \A t \in Subjects : "CLEARED" \notin cases'[t] => "CLEARED" \notin cases[t]
    BY <1>0, <1>4 DEF RuleFires, CaseOpens
  <2>3. IF recorded THEN fired' = [fired EXCEPT ![s] = @ \cup {m}] ELSE fired' = fired
    BY <1>4 DEF RuleFires
  <2> HIDE DEF m
  <2>4. rule'[n].wrong = rule[n].wrong /\ (n # m => rule'[n].hits = rule[n].hits)
        /\ (n = m => rule'[n].hits = IF hit THEN OneMore(rule[n].hits) ELSE rule[n].hits)
    BY <1>0, <2>1 DEF RuleRows
  <2>5. CASE n # m \/ ~ recorded
    <3>1. ToAnswerFor(n)' \subseteq ToAnswerFor(n)
      BY <1>0, <2>2, <2>3, <2>5 DEF ToAnswerFor
    <3>2. rule'[n].hits >= rule[n].hits
      BY <1>0, <2>4 DEF OneMore
    <3> QED BY <1>0, <2>4, <3>1, <3>2, AnswersForLess
  <2>6. CASE n = m /\ recorded
    <3>1. ToAnswerFor(n)' \subseteq ToAnswerFor(n) \cup {s}
      BY <1>0, <2>2, <2>3, <2>6 DEF ToAnswerFor
    <3> QED BY <1>0, <2>1, <2>4, <2>6, <3>1, AnswersForOneMore
  <2> QED BY <2>5, <2>6
<1>5. ASSUME NEW s \in Subjects, NEW v \in {"CLEARED", "CONFIRMED"}, PressClose(s, v) PROVE RuleAnswers(n)'
  <2>1. CASE UNCHANGED <<cases, rule, block, riskDesk>>
    BY <1>1, <1>5, <2>1 DEF PressClose
  <2>2. CASE v = "CLEARED" /\ Closable(s, riskDesk.cases[s], v) /\ CloseCase(s, v)
    <3>1. /\ fired' = fired /\ "CLEARED" \notin cases[s]
          /\ cases' = [cases EXCEPT ![s] = (@ \ {"OPEN"}) \cup {"CLEARED"}]
          /\ rule' = [k \in RuleNos |-> IF k \in fired[s]
                                        THEN [rule[k] EXCEPT !.wrong = OneMore(@)] ELSE rule[k]]
      BY <1>5, <2>2 DEF PressClose, Closable, CloseCase
    <3>2. ToAnswerFor(n)' \subseteq ToAnswerFor(n) \ {s}
      BY <1>0, <3>1 DEF ToAnswerFor
    <3>3. CASE n \in fired[s]
      <4>1. s \in ToAnswerFor(n)
        BY <3>1, <3>3 DEF ToAnswerFor
      <4>2. rule'[n].wrong = OneMore(rule[n].wrong) /\ rule'[n].hits = rule[n].hits
        BY <1>0, <3>1, <3>3 DEF RuleRows
      <4> QED BY <1>0, <3>2, <4>1, <4>2, AnswersForCleared
    <3>4. CASE n \notin fired[s]
      <4>1. rule'[n] = rule[n]
        BY <3>1, <3>4
      <4> QED BY <1>0, <3>2, <4>1, AnswersForLess
    <3> QED BY <3>3, <3>4
  <2>3. CASE v = "CONFIRMED" /\ CloseCase(s, v)
    <3>1. /\ fired' = fired /\ rule' = rule
          /\ cases' = [cases EXCEPT ![s] = (@ \ {"OPEN"}) \cup {"CONFIRMED"}]
      BY <1>5, <2>3 DEF PressClose, CloseCase
    <3>2. ToAnswerFor(n)' \subseteq ToAnswerFor(n)
      BY <1>0, <3>1 DEF ToAnswerFor
    <3> QED BY <1>0, <3>1, <3>2, AnswersForLess
  <2> QED BY <1>5, <2>1, <2>2, <2>3 DEF PressClose
<1>6. ASSUME \/ RiskCome \/ RiskFails \/ RiskRetry
             \/ \E s \in Subjects : \/ RequestCode(s) \/ RefuseBlocked(s) \/ Decide(s) \/ RuleSkipped(s)
                                    \/ PressLift(s) \/ \E ok \in BOOLEAN : ReadRules(s, ok)
             \/ UNCHANGED riskVars
      PROVE  UNCHANGED <<rule, fired, cases>>
  BY <1>6 DEF RiskCome, RiskFails, RiskRetry, RequestCode, RefuseBlocked, Decide, RuleSkipped,
              PressLift, ReadRules
<1> QED
  BY <1>1, <1>2, <1>3, <1>4, <1>5, <1>6 DEF RiskNext, EngineNext, ConsoleNext

\* The type of the rules, the requests that are weighed and the console.
THEOREM RiskTypes == RiskSpec => []RiskTypeOK
<1>1. RiskInit => RulesAnswer  BY RulesAnswerInit
<1>2. RulesAnswer /\ [RiskNext]_riskVars => RulesAnswer'  BY AnswerableKept
<1>3. RulesAnswer => RiskTypeOK  BY DEF RulesAnswer
<1> QED BY <1>1, <1>2, <1>3, PTL DEF RiskSpec

\* No rule is counted wrong more often than it has fired, whatever the engine leaves
\* out when its time is up and however cases are closed (risk.go:384-398).
THEOREM WrongAlwaysOfThoseFired == RiskSpec => []WrongOfThoseFired
<1>1. RiskInit => RulesAnswer  BY RulesAnswerInit
<1>2. RulesAnswer /\ [RiskNext]_riskVars => RulesAnswer'  BY AnswerableKept
<1>3. RulesAnswer => WrongOfThoseFired
  <2> SUFFICES ASSUME RulesAnswer, NEW n \in RuleNos PROVE rule[n].wrong <= rule[n].hits
      BY DEF WrongOfThoseFired
  <2>1. rule[n].hits \in 0 .. MaxCount /\ rule[n].wrong \in 0 .. MaxCount /\ MaxCount \in Nat
    BY RuleTypes DEF RulesAnswer
  <2>2. Cardinality(ToAnswerFor(n)) \in Nat
        /\ (rule[n].hits = MaxCount \/ rule[n].wrong + Cardinality(ToAnswerFor(n)) <= rule[n].hits)
    BY FS_CardinalityType DEF RulesAnswer, RuleAnswers
  <2> QED BY <2>1, <2>2
<1> QED BY <1>1, <1>2, <1>3, PTL DEF RiskSpec
=============================================================================
