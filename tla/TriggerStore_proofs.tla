------------------------- MODULE TriggerStore_proofs -------------------------
(***************************************************************************)
(* What is proved about TriggerStore for any number of runs, any size of   *)
(* the store, any limit of the list and any clock.                         *)
(***************************************************************************)
EXTENDS TriggerStore, FiniteSetTheorems, SequenceTheorems, TLAPS

-----------------------------------------------------------------------------
(* Sorting: NewestFirst lists every stored run once, and none before a     *)
(* newer one.                                                              *)

Positions == DOMAIN items
Before(i) == {j \in Positions : Earlier(j, i)}

ItemsTyping ==
  /\ items \in Seq(Runs)
  /\ \A r \in Runs : result[r].startedAt \in Nat

\* A stable sort: Earlier is a strict linear order of the positions.
LEMMA EarlierIsLinear ==
  ASSUME ItemsTyping
  PROVE  /\ \A i \in Positions : ~Earlier(i, i)
         /\ \A i, j \in Positions : i # j => Earlier(i, j) \/ Earlier(j, i)
         /\ \A i, j \in Positions : ~(Earlier(i, j) /\ Earlier(j, i))
         /\ \A i, j, k \in Positions : Earlier(i, j) /\ Earlier(j, k) => Earlier(i, k)
<1>1. \A i \in Positions : i \in Nat /\ result[items[i]].startedAt \in Nat
  BY DEF ItemsTyping, Positions
<1> QED
  BY <1>1 DEF Earlier

LEMMA IntervalSize ==
  ASSUME NEW n \in Nat
  PROVE  IsFiniteSet(1..n) /\ Cardinality(1..n) = n
<1>1. IsFiniteSet(1..n) /\ Cardinality(1..n) = IF 1 > n THEN 0 ELSE n - 1 + 1
  BY FS_Interval
<1> QED
  BY <1>1

LEMMA BeforeIsFinite ==
  ASSUME ItemsTyping, NEW i \in Positions
  PROVE  /\ IsFiniteSet(Before(i))
         /\ Cardinality(Before(i)) \in 0..(Len(items) - 1)
<1>1. Len(items) \in Nat /\ Positions = 1..Len(items)
  BY DEF ItemsTyping, Positions
<1>2. IsFiniteSet(Positions) /\ Cardinality(Positions) = Len(items)
  BY <1>1, IntervalSize
<1>3. Before(i) \in SUBSET Positions /\ Before(i) # Positions
  BY EarlierIsLinear DEF Before
<1>4. /\ IsFiniteSet(Before(i))
      /\ Cardinality(Before(i)) <= Cardinality(Positions)
      /\ Cardinality(Before(i)) # Cardinality(Positions)
  BY <1>2, <1>3, FS_Subset
<1>5. Cardinality(Before(i)) \in Nat
  BY <1>4, FS_CardinalityType
<1> QED
  BY <1>1, <1>2, <1>4, <1>5

LEMMA EarlierIsSmaller ==
  ASSUME ItemsTyping, NEW i \in Positions, NEW j \in Positions, Earlier(i, j)
  PROVE  Cardinality(Before(i)) < Cardinality(Before(j))
<1>1. Before(i) \in SUBSET Before(j) /\ Before(i) # Before(j)
  BY EarlierIsLinear DEF Before
<1>2. IsFiniteSet(Before(j)) /\ Cardinality(Before(i)) \in Nat /\ Cardinality(Before(j)) \in Nat
  BY BeforeIsFinite DEF ItemsTyping
<1>3. /\ Cardinality(Before(i)) <= Cardinality(Before(j))
      /\ Cardinality(Before(i)) # Cardinality(Before(j))
  BY <1>1, <1>2, FS_Subset
<1> QED
  BY <1>2, <1>3

\* Every place of the list is taken by exactly one position.
Place(n) == CHOOSE i \in Positions : Cardinality(Before(i)) = n - 1

LEMMA PlaceExists ==
  ASSUME ItemsTyping, NEW n \in Positions
  PROVE  Place(n) \in Positions /\ Cardinality(Before(Place(n))) = n - 1
<1> DEFINE ranks == 0..(Len(items) - 1)
           rank == [i \in Positions |-> Cardinality(Before(i))]
<1>1. Len(items) \in Nat /\ Positions = 1..Len(items) /\ n - 1 \in ranks
  BY DEF ItemsTyping, Positions
<1>2. rank \in [Positions -> ranks]
  BY BeforeIsFinite
<1>3. \A i, j \in Positions : rank[i] = rank[j] => i = j
  <2> SUFFICES ASSUME NEW i \in Positions, NEW j \in Positions, i # j
               PROVE  Cardinality(Before(i)) # Cardinality(Before(j))
    OBVIOUS
  <2>1. Cardinality(Before(i)) \in Nat /\ Cardinality(Before(j)) \in Nat
    BY BeforeIsFinite
  <2> QED
    BY <2>1, EarlierIsLinear, EarlierIsSmaller
<1>4. rank \in Injection(Positions, ranks)
  BY <1>2, <1>3 DEF Injection, IsInjective
<1>5. IsFiniteSet(ranks) /\ Cardinality(ranks) = Cardinality(Positions)
  <2>1. IsFiniteSet(Positions) /\ Cardinality(Positions) = Len(items)
    BY <1>1, IntervalSize
  <2>2. IsFiniteSet(ranks) /\ Cardinality(ranks) = Len(items)
    <3>1. 0 \in Int /\ Len(items) - 1 \in Int
      BY <1>1
    <3> HIDE DEF ranks
    <3>2. IsFiniteSet(0..(Len(items) - 1)) /\
          Cardinality(0..(Len(items) - 1)) =
            IF 0 > Len(items) - 1 THEN 0 ELSE (Len(items) - 1) - 0 + 1
      BY <3>1, FS_Interval
    <3> QED
      BY <1>1, <3>2 DEF ranks
  <2> QED
    BY <2>1, <2>2
<1>6. \E i \in Positions : rank[i] = n - 1
  <2> HIDE DEF rank, ranks
  <2>1. rank \in Surjection(Positions, ranks)
    BY <1>4, <1>5, FS_Injection
  <2> QED
    BY <1>1, <2>1 DEF Surjection
<1> QED
  BY <1>6 DEF Place

LEMMA NewestFirstPlaces ==
  NewestFirst = [n \in Positions |-> items[Place(n)]]
BY DEF NewestFirst, Positions, Place, Before

LEMMA NewestFirstTyping ==
  ASSUME ItemsTyping, NEW limit \in Nat
  PROVE  /\ NewestFirst \in Seq(Runs) /\ Len(NewestFirst) = Len(items)
         /\ Cut(NewestFirst, limit) \in Seq(Runs)
         /\ Len(Cut(NewestFirst, limit)) = IF Len(items) < limit THEN Len(items) ELSE limit
         /\ \A n \in DOMAIN Cut(NewestFirst, limit) :
              n \in Positions /\ Cut(NewestFirst, limit)[n] = items[Place(n)]
<1>1. Positions = 1..Len(items) /\ Len(items) \in Nat
  BY DEF ItemsTyping, Positions
<1>2. \A n \in Positions : items[Place(n)] \in Runs
  BY PlaceExists DEF ItemsTyping, Positions
<1>3. NewestFirst \in [1..Len(items) -> Runs]
  BY <1>1, <1>2, NewestFirstPlaces
<1>4. NewestFirst \in Seq(Runs) /\ Len(NewestFirst) = Len(items)
  BY <1>1, <1>3
<1>5. \A n \in 1..Len(items) : NewestFirst[n] = items[Place(n)]
  BY <1>1, NewestFirstPlaces
<1> QED
  BY <1>1, <1>4, <1>5 DEF Cut

-----------------------------------------------------------------------------
(* Types *)

\* A result's lock is held exactly while a decision is tallied or the run is
\* being finished, and by its own run.
OwnLock ==
  \A r \in Runs : holder[r] = IF pc[r] \in {"tallying", "finishing"} THEN r ELSE Free

TypeInv == TypeOK /\ OwnLock

LEMMA TypedItems ==
  ASSUME TypeOK
  PROVE  ItemsTyping
BY BoundsAssumption DEF TypeOK, ItemsTyping, Results, Never

LEMMA RemoveAtFacts ==
  ASSUME NEW S, NEW s \in Seq(S), NEW m \in 1..Len(s)
  PROVE  /\ RemoveAt(s, m) \in Seq(S)
         /\ Len(RemoveAt(s, m)) = Len(s) - 1
         /\ \A j \in 1..(Len(s) - 1) :
              RemoveAt(s, m)[j] = IF j < m THEN s[j] ELSE s[j + 1]
<1> DEFINE front == SubSeq(s, 1, m - 1)
           back == SubSeq(s, m + 1, Len(s))
<1>1. /\ front \in Seq(S) /\ Len(front) = m - 1
      /\ \A j \in 1..(m - 1) : front[j] = s[j]
  OBVIOUS
<1>2. /\ back \in Seq(S) /\ Len(back) = Len(s) - m
      /\ \A j \in 1..(Len(s) - m) : back[j] = s[j + m]
  OBVIOUS
<1>3. RemoveAt(s, m) = front \o back
  BY DEF RemoveAt
<1> HIDE DEF front, back
<1>4. /\ front \o back \in Seq(S)
      /\ Len(front \o back) = Len(s) - 1
  BY <1>1, <1>2
<1>5. ASSUME NEW j \in 1..(Len(s) - 1)
      PROVE  (front \o back)[j] = IF j < m THEN s[j] ELSE s[j + 1]
  <2>1. CASE j < m
    BY <1>1, <1>2, <2>1
  <2>2. CASE ~(j < m)
    <3>1. j - (m - 1) \in 1..(Len(s) - m)
      BY <2>2
    <3>2. (front \o back)[j] = back[j - (m - 1)]
      BY <1>1, <1>2, <2>2
    <3> QED
      BY <1>2, <2>2, <3>1, <3>2
  <2> QED
    BY <2>1, <2>2
<1> QED
  BY <1>3, <1>4, <1>5

\* create: the result of the same id, if there is one, makes room.
LEMMA StoredTyping ==
  ASSUME TypeOK, NEW r \in Runs
  PROVE  /\ Stored(r) \in Seq(Runs)
         /\ Len(Stored(r)) \in 1..(Len(items) + 1)
         /\ Evict(Stored(r)) \in Seq(Runs)
         /\ Len(Evict(Stored(r))) <= MaxSize
<1> DEFINE same == {i \in DOMAIN items : TriggerId[items[i]] = TriggerId[r]}
<1>1. items \in Seq(Runs) /\ Len(items) <= MaxSize
  BY DEF TypeOK
<1>2. CASE same = {}
  <2>1. Stored(r) = Append(items, r)
    BY <1>2 DEF Stored
  <2> QED
    BY <1>1, <2>1, BoundsAssumption DEF Evict
<1>3. CASE same # {}
  <2>1. PICK m \in 1..Len(items) : Stored(r) = Append(RemoveAt(items, m), r)
    <3>1. (CHOOSE i \in same : TRUE) \in 1..Len(items)
      BY <1>1, <1>3
    <3> QED
      BY <1>3, <3>1 DEF Stored
  <2>2. RemoveAt(items, m) \in Seq(Runs) /\ Len(RemoveAt(items, m)) = Len(items) - 1
    BY <1>1, RemoveAtFacts
  <2> QED
    BY <1>1, <2>1, <2>2, BoundsAssumption DEF Evict
<1> QED
  BY <1>2, <1>3

LEMMA TypeInvInit == Init => TypeInv
<1> SUFFICES ASSUME Init PROVE TypeInv
  OBVIOUS
<1>1. Fresh \in Results
  BY BoundsAssumption DEF Fresh, Results, Never
<1>2. \A S : <<>> \in Seq(S)
  BY EmptySeq
<1> QED
  BY <1>1, <1>2, RunsAssumption, BoundsAssumption DEF Init, TypeInv, TypeOK, OwnLock

LEMMA ClockTyping ==
  ASSUME TypeOK
  PROVE  now \in 0..Never /\ now # Never
BY BoundsAssumption DEF TypeOK, Never

\* What a run does with its own result.
LEMMA ResultTyping ==
  ASSUME TypeInv, NEW r \in Runs, Build(r) \/ Proceed(r)
  PROVE  result' \in [Runs -> Results]
<1>1. result \in [Runs -> Results] /\ result[r] \in Results
  BY DEF TypeInv, TypeOK
<1>2. \E row \in Results : result' = [result EXCEPT ![r] = row]
  <2>1. CASE Build(r)
    <3>1. [result[r] EXCEPT !.startedAt = now] \in Results
      BY <1>1, ClockTyping DEF TypeInv, Results
    <3> QED
      BY <1>1, <2>1, <3>1 DEF Build
  <2>2. CASE Record(r)
    <3>1. [result[r] EXCEPT !.comments = @ + 1] \in Results
      BY <1>1 DEF Results
    <3> QED
      BY <1>1, <2>2, <3>1 DEF Record
  <2>3. CASE Tally(r)
    <3> DEFINE counts == [v \in Verdicts |->
                 IF v = tallying[r] THEN result[r].tally[v] + 1 ELSE result[r].tally[v]]
    <3>1. counts \in [Verdicts -> Nat]
      BY <1>1 DEF Results
    <3>2. [result[r] EXCEPT !.tally = counts] \in Results
      <4> HIDE DEF counts
      <4> QED
        BY <1>1, <3>1 DEF Results
    <3>3. result' = [result EXCEPT ![r] = [result[r] EXCEPT !.tally = counts]]
      BY <1>1, <2>3 DEF Tally
    <3> QED
      BY <3>2, <3>3
  <2>4. CASE Tell(r)
    <3>1. \A ref \in {0, 1} : [result[r] EXCEPT !.messages = @ + ref] \in Results
      BY <1>1 DEF Results
    <3> QED
      BY <1>1, <2>4, <3>1 DEF Tell
  <2>5. CASE FinishStatus(r)
    <3>1. \A status \in {"ok", "error"} : [result[r] EXCEPT !.status = status] \in Results
      BY <1>1 DEF Results
    <3> QED
      BY <1>1, <2>5, <3>1 DEF FinishStatus
  <2>6. CASE FinishTime(r)
    <3>1. [result[r] EXCEPT !.finishedAt = now] \in Results
      BY <1>1, ClockTyping DEF TypeInv, Results
    <3> QED
      BY <1>1, <2>6, <3>1 DEF FinishTime
  <2> QED
    BY <2>1, <2>2, <2>3, <2>4, <2>5, <2>6 DEF Proceed
<1> QED
  BY <1>1, <1>2

LEMMA RunTyping ==
  ASSUME TypeInv, NEW r \in Runs, Enter(r) \/ Proceed(r)
  PROVE  TypeInv'
<1>1. UNCHANGED <<now, asking, rows, polled>>
  BY DEF Enter, Proceed, Build, Insert, Record, Tally, Tell, FinishStatus, FinishTime, reader
<1>2. result' \in [Runs -> Results]
  BY ResultTyping DEF TypeInv, TypeOK, Enter, Insert
<1>3. /\ pc' \in [Runs -> {"idle", "built", "working", "tallying", "telling", "finishing", "over"}]
      /\ holder' \in [Runs -> Runs \cup {Free}]
      /\ OwnLock'
  <2>1. pc \in [Runs -> {"idle", "built", "working", "tallying", "telling", "finishing", "over"}]
        /\ holder \in [Runs -> Runs \cup {Free}] /\ OwnLock
    BY DEF TypeInv, TypeOK
  <2>2. CASE Build(r) \/ Insert(r) \/ Tell(r)
    BY <2>1, <2>2 DEF OwnLock, Build, Insert, Tell, Goto
  <2>3. CASE Record(r) \/ FinishStatus(r)
    BY <2>1, <2>3 DEF OwnLock, Record, FinishStatus, Goto, Take
  <2>4. CASE Tally(r) \/ FinishTime(r)
    BY <2>1, <2>4 DEF OwnLock, Tally, FinishTime, Goto, Give
  <2> QED
    BY <2>2, <2>3, <2>4 DEF Enter, Proceed
<1>4. /\ tallying' \in [Runs -> Verdicts \cup {NoVerdict}]
      /\ verdicts' \in [Runs -> Seq(Verdicts \cup {NoVerdict})]
  <2>1. CASE Record(r)
    <3>1. PICK v \in Verdicts \cup {NoVerdict} :
            /\ tallying' = [tallying EXCEPT ![r] = v]
            /\ verdicts' = [verdicts EXCEPT ![r] = Append(@, v)]
      BY <2>1 DEF Record
    <3>2. Append(verdicts[r], v) \in Seq(Verdicts \cup {NoVerdict})
      BY DEF TypeInv, TypeOK
    <3> QED
      BY <3>1, <3>2 DEF TypeInv, TypeOK
  <2>2. CASE ~Record(r)
    BY <2>2
       DEF TypeInv, TypeOK, Enter, Proceed, Build, Insert, Tally, Tell, FinishStatus, FinishTime
  <2> QED
    BY <2>1, <2>2
<1>5. items' \in Seq(Runs) /\ Len(items') <= MaxSize /\ created' \in Seq(Runs)
  <2>1. CASE Insert(r)
    BY <2>1, StoredTyping DEF TypeInv, TypeOK, Insert
  <2>2. CASE ~Insert(r)
    BY <2>2
       DEF TypeInv, TypeOK, Enter, Proceed, Build, Record, Tally, Tell, FinishStatus,
           FinishTime, store
  <2> QED
    BY <2>1, <2>2
<1> QED
  BY <1>1, <1>2, <1>3, <1>4, <1>5 DEF TypeInv, TypeOK

LEMMA ReaderTyping ==
  ASSUME TypeInv, (\E r \in Runs : Poll(r)) \/ AskRuns \/ ReadRow \/ Tick
  PROVE  TypeInv'
<1>1. CASE \E r \in Runs : Poll(r)
  BY <1>1 DEF Poll, TypeInv, TypeOK, OwnLock, run, store
<1>2. CASE AskRuns
  <2>1. /\ \A limit \in Limits : Cut(NewestFirst, limit) \in Seq(Runs)
        /\ <<>> \in Seq(Runs \X Results)
    BY TypedItems, NewestFirstTyping, EmptySeq, BoundsAssumption DEF TypeInv
  <2> QED
    BY <1>2, <2>1 DEF AskRuns, TypeInv, TypeOK, OwnLock, run, store
<1>3. CASE ReadRow
  <2>1. Head(asking) \in Runs /\ Tail(asking) \in Seq(Runs)
    BY <1>3 DEF ReadRow, TypeInv, TypeOK
  <2>2. <<Head(asking), result[Head(asking)]>> \in Runs \X Results
    BY <2>1 DEF TypeInv, TypeOK
  <2>3. rows' \in Seq(Runs \X Results)
    BY <1>3, <2>2 DEF ReadRow, TypeInv, TypeOK
  <2> QED
    BY <1>3, <2>1, <2>3 DEF ReadRow, TypeInv, TypeOK, OwnLock, run, store
<1>4. CASE Tick
  BY <1>4, BoundsAssumption DEF Tick, TypeInv, TypeOK, OwnLock, run, store, reader
<1> QED
  BY <1>1, <1>2, <1>3, <1>4

LEMMA TypeInvStep == TypeInv /\ [Next]_vars => TypeInv'
<1> SUFFICES ASSUME TypeInv, [Next]_vars PROVE TypeInv'
  OBVIOUS
<1>1. CASE UNCHANGED vars
  BY <1>1 DEF TypeInv, TypeOK, OwnLock, vars, run, store, reader
<1> QED
  BY <1>1, RunTyping, ReaderTyping, RunsAssumption DEF Next

LEMMA TypeInvHolds == Spec => []TypeInv
BY TypeInvInit, TypeInvStep, PTL DEF Spec

\* Every state of the store, its runs and its readers is well-formed, and the
\* store keeps to its size.
THEOREM Typing == Spec => []TypeOK
<1>1. TypeInv => TypeOK
  BY DEF TypeInv
<1> QED
  BY <1>1, TypeInvHolds, PTL

\* GET /runs: newest first, and nothing newer than what is shown is left out.
THEOREM ListIsSorted == Spec => RunsNewestFirst
<1> DEFINE started(r) == result[r].startedAt
<1>1. ASSUME TypeInv, [Next]_vars, asking = <<>>
      PROVE  asking' = <<>> \/ \E limit \in Nat : asking' = Cut(NewestFirst, limit)
  BY <1>1, BoundsAssumption
     DEF Next, vars, run, store, reader, Enter, Proceed, Build, Insert, Record, Tally, Tell,
         FinishStatus, FinishTime, Poll, AskRuns, ReadRow, Tick
<1>2. ASSUME TypeInv, NEW m \in Positions, NEW n \in Positions, m < n
      PROVE  started(items[Place(m)]) >= started(items[Place(n)])
  <2>1. ItemsTyping
    BY <1>2, TypedItems DEF TypeInv
  <2>2. m \in Nat /\ n \in Nat
    BY <2>1 DEF ItemsTyping, Positions
  <2>3. /\ Place(m) \in Positions /\ Place(n) \in Positions
        /\ Cardinality(Before(Place(m))) = m - 1
        /\ Cardinality(Before(Place(n))) = n - 1
    BY <2>1, PlaceExists
  <2>4. ~Earlier(Place(n), Place(m)) /\ Place(m) # Place(n)
    <3>1. Earlier(Place(n), Place(m)) =>
            Cardinality(Before(Place(n))) < Cardinality(Before(Place(m)))
      BY <2>1, <2>3, EarlierIsSmaller
    <3> QED
      BY <1>2, <2>2, <2>3, <3>1
  <2>5. Earlier(Place(m), Place(n))
    BY <2>1, <2>3, <2>4, EarlierIsLinear
  <2>6. started(items[Place(m)]) \in Nat /\ started(items[Place(n)]) \in Nat
    BY <2>1, <2>3 DEF ItemsTyping, Positions
  <2> QED
    BY <2>5, <2>6 DEF Earlier
<1>3. ASSUME TypeInv, NEW limit \in Nat, asking' = Cut(NewestFirst, limit),
             NEW i \in DOMAIN asking', NEW j \in DOMAIN asking', i < j
      PROVE  started(asking'[i]) >= started(asking'[j])
  BY <1>2, <1>3, TypedItems, NewestFirstTyping DEF TypeInv
<1>4. ASSUME TypeInv, NEW limit \in Nat, asking' = Cut(NewestFirst, limit),
             NEW i \in DOMAIN asking', NEW k \in Positions, items[k] \notin Range(asking')
      PROVE  started(asking'[i]) >= started(items[k])
  <2>1. ItemsTyping
    BY <1>4, TypedItems DEF TypeInv
  <2> DEFINE n == Cardinality(Before(k)) + 1
  <2>2. n \in Positions
    BY <2>1, BeforeIsFinite DEF ItemsTyping, Positions
  <2>3. Place(n) = k
    <3>1. Place(n) \in Positions /\ Cardinality(Before(Place(n))) = Cardinality(Before(k))
      <4>1. Cardinality(Before(k)) \in Nat
        BY <2>1, BeforeIsFinite
      <4>2. Place(n) \in Positions /\ Cardinality(Before(Place(n))) = n - 1
        BY <2>1, <2>2, PlaceExists
      <4> QED
        BY <4>1, <4>2
    <3>2. Cardinality(Before(k)) \in Nat
      BY <2>1, BeforeIsFinite
    <3> QED
      BY <2>1, <3>1, <3>2, EarlierIsLinear, EarlierIsSmaller
  <2>4. /\ asking' \in Seq(Runs)
        /\ Len(asking') = IF Len(items) < limit THEN Len(items) ELSE limit
        /\ \A l \in DOMAIN asking' : l \in Positions /\ asking'[l] = items[Place(l)]
    BY <1>4, <2>1, NewestFirstTyping
  <2>5. n \notin DOMAIN asking'
    <3> HIDE DEF n
    <3> QED
      BY <1>4, <2>3, <2>4 DEF Range
  <2>6. i < n
    <3> HIDE DEF n
    <3> QED
      BY <2>1, <2>2, <2>4, <2>5 DEF ItemsTyping, Positions
  <2> HIDE DEF n
  <2> QED
    BY <1>2, <1>4, <2>2, <2>3, <2>4, <2>6
<1>5. ASSUME TypeInv, [Next]_vars, asking = <<>>
      PROVE  /\ \A i, j \in DOMAIN asking' : i < j => started(asking'[i]) >= started(asking'[j])
             /\ asking' # <<>> =>
                  \A q \in Range(asking'), r \in Range(items) \ Range(asking') :
                    started(q) >= started(r)
  <2>1. CASE asking' = <<>>
    BY <2>1
  <2>2. ASSUME NEW limit \in Nat, asking' = Cut(NewestFirst, limit)
        PROVE  /\ \A i, j \in DOMAIN asking' : i < j => started(asking'[i]) >= started(asking'[j])
               /\ asking' # <<>> =>
                    \A q \in Range(asking'), r \in Range(items) \ Range(asking') :
                      started(q) >= started(r)
    <3>1. ASSUME NEW q \in Range(asking'), NEW r \in Range(items) \ Range(asking')
          PROVE  started(q) >= started(r)
      <4>1. PICK i \in DOMAIN asking' : q = asking'[i]
        BY DEF Range
      <4>2. PICK k \in Positions : r = items[k]
        BY DEF Range, Positions
      <4> QED
        BY <1>4, <1>5, <2>2, <4>1, <4>2
    <3> QED
      BY <1>3, <1>5, <2>2, <3>1
  <2> QED
    BY <1>1, <1>5, <2>1, <2>2
<1>6. TypeInv /\ [Next]_vars =>
        [asking = <<>> =>
           LET st(r) == result[r].startedAt IN
           /\ \A i, j \in DOMAIN asking' : i < j => st(asking'[i]) >= st(asking'[j])
           /\ asking' # <<>> =>
                \A q \in Range(asking'), r \in Range(items) \ Range(asking') :
                  st(q) >= st(r)]_vars
  BY <1>5
<1> QED
  BY <1>6, TypeInvHolds, PTL DEF Spec, RunsNewestFirst

-----------------------------------------------------------------------------
(* What is read of a run *)

LEMMA CountFacts ==
  ASSUME NEW r \in Runs, NEW V, verdicts[r] \in Seq(V), NEW v
  PROVE  /\ Count(r, 0, v) = 0
         /\ \A n \in Nat : Count(r, n, v) \in Nat
         /\ \A n \in Nat : Count(r, n + 1, v) =
              IF verdicts[r][n + 1] = v THEN Count(r, n, v) + 1 ELSE Count(r, n, v)
<1> DEFINE those(n) == {i \in 1..n : verdicts[r][i] = v}
<1>1. those(0) = {}
  OBVIOUS
<1>2. ASSUME NEW n \in Nat
      PROVE  /\ IsFiniteSet(those(n)) /\ Cardinality(those(n)) \in Nat
             /\ n + 1 \notin those(n)
             /\ those(n + 1) = IF verdicts[r][n + 1] = v THEN those(n) \cup {n + 1} ELSE those(n)
  <2>1. IsFiniteSet(1..n) /\ those(n) \in SUBSET (1..n)
    BY IntervalSize
  <2>2. IsFiniteSet(those(n))
    <3> HIDE DEF those
    <3> QED
      BY <2>1, FS_Subset
  <2>3. Cardinality(those(n)) \in Nat
    <3> HIDE DEF those
    <3> QED
      BY <2>2, FS_CardinalityType
  <2> QED
    BY <2>2, <2>3
<1>3. \A n : Count(r, n, v) = Cardinality(those(n))
  BY DEF Count
<1> HIDE DEF those
<1>4. ASSUME NEW n \in Nat
      PROVE  Cardinality(those(n + 1)) =
               IF verdicts[r][n + 1] = v THEN Cardinality(those(n)) + 1 ELSE Cardinality(those(n))
  <2>1. Cardinality(those(n) \cup {n + 1}) = Cardinality(those(n)) + 1
    BY <1>2, FS_AddElement
  <2> QED
    BY <1>2, <2>1
<1> QED
  BY <1>1, <1>2, <1>3, <1>4, FS_EmptySet

\* Between two decisions, and while one is tallied, a result is what the verdicts
\* say; only the outcome is a matter of two writes.
Tallied(r) ==
  /\ result[r].comments = Len(verdicts[r])
  /\ pc[r] \in {"idle", "built"} => verdicts[r] = <<>>
  /\ pc[r] = "tallying" =>
       verdicts[r] # <<>> /\ tallying[r] = verdicts[r][Len(verdicts[r])]
  /\ \A v \in Verdicts : result[r].tally[v] =
       Count(r, IF pc[r] = "tallying" THEN Len(verdicts[r]) - 1 ELSE Len(verdicts[r]), v)

Told(r) ==
  result[r].messages <=
    result[r].comments + (IF pc[r] \in {"idle", "built", "tallying", "telling"} THEN 0 ELSE 1)

Outcome(r) ==
  /\ pc[r] \notin {"finishing", "over"} => result[r].status = "processing"
  /\ pc[r] \in {"finishing", "over"} => result[r].status # "processing"
  /\ result[r].finishedAt # Never <=> pc[r] = "over"

\* What was polled is an earlier state of the result, and the last one if it has
\* an outcome.
PolledEarlier(r) ==
  /\ polled[r].comments <= result[r].comments
  /\ polled[r].status # "processing" => pc[r] = "over" /\ polled[r] = result[r]

RunInv(r) == Tallied(r) /\ Told(r) /\ Outcome(r) /\ PolledEarlier(r)

RowsInv ==
  /\ TypeInv
  /\ \A r \in Runs : RunInv(r)
  /\ RowsAreConsistent

LEMMA ConsistentKept ==
  ASSUME NEW q \in Runs, NEW V, verdicts[q] \in Seq(V), NEW row \in Results, Consistent(q, row),
         verdicts'[q] = verdicts[q] \/ \E w \in V : verdicts'[q] = Append(verdicts[q], w)
  PROVE  Consistent(q, row)'
<1>1. row.comments \in Nat
  BY DEF Results
<1>2. row.comments <= Len(verdicts[q]) /\ row.comments <= Len(verdicts'[q])
  BY <1>1 DEF Consistent
<1>3. \A i \in 1..row.comments : verdicts'[q][i] = verdicts[q][i]
  BY <1>1, <1>2
<1>4. \A v : {i \in 1..row.comments : verdicts'[q][i] = v} =
             {i \in 1..row.comments : verdicts[q][i] = v}
  BY <1>3
<1> QED
  BY <1>2, <1>4 DEF Consistent, Count

LEMMA UntouchedRun ==
  ASSUME NEW q \in Runs, RunInv(q),
         UNCHANGED <<pc[q], result[q], tallying[q], verdicts[q], polled[q]>>
  PROVE  RunInv(q)'
<1>1. \A n, v : Count(q, n, v)' = Count(q, n, v)
  BY DEF Count
<1> QED
  BY <1>1 DEF RunInv, Tallied, Told, Outcome, PolledEarlier

LEMMA TouchedResult ==
  ASSUME TypeInv, NEW r \in Runs, Enter(r) \/ Proceed(r)
  PROVE  /\ \A q \in Runs \ {r} :
              UNCHANGED <<pc[q], result[q], tallying[q], verdicts[q], holder[q]>>
         /\ UNCHANGED <<rows, polled>>
         /\ \/ UNCHANGED verdicts
            \/ \E w \in Verdicts \cup {NoVerdict} :
                 verdicts' = [verdicts EXCEPT ![r] = Append(@, w)]
<1>1. \A q \in Runs \ {r} : UNCHANGED <<pc[q], result[q], tallying[q], verdicts[q], holder[q]>>
  <2>1. CASE Build(r) \/ Insert(r)
    BY <2>1 DEF Build, Insert, Goto, TypeInv, TypeOK
  <2>2. CASE Record(r)
    BY <2>2 DEF Record, Goto, Take, TypeInv, TypeOK
  <2>3. CASE Tally(r) \/ FinishTime(r)
    BY <2>3 DEF Tally, FinishTime, Goto, Give, TypeInv, TypeOK
  <2>4. CASE Tell(r) \/ FinishStatus(r)
    BY <2>4 DEF Tell, FinishStatus, Goto, Take, TypeInv, TypeOK
  <2> QED
    BY <2>1, <2>2, <2>3, <2>4 DEF Enter, Proceed
<1>2. UNCHANGED <<rows, polled>>
  BY DEF Enter, Proceed, Build, Insert, Record, Tally, Tell, FinishStatus, FinishTime, reader
<1>3. \/ UNCHANGED verdicts
      \/ \E w \in Verdicts \cup {NoVerdict} : verdicts' = [verdicts EXCEPT ![r] = Append(@, w)]
  BY DEF Enter, Proceed, Build, Insert, Record, Tally, Tell, FinishStatus, FinishTime
<1> QED
  BY <1>1, <1>2, <1>3

\* Creating the result, and telling Slack.
LEMMA CreatingKeepsRun ==
  ASSUME RowsInv, NEW r \in Runs, RunInv(r), Build(r) \/ Insert(r) \/ Tell(r)
  PROVE  RunInv(r)'
<1>1. TypeOK /\ result[r] \in Results
  BY DEF RowsInv, TypeInv, TypeOK
<1>2. /\ pc[r] \in {"idle", "built", "telling"} /\ pc'[r] \in {"built", "telling", "working"}
      /\ pc'[r] = "built" => pc[r] = "idle"
      /\ pc'[r] = "telling" => pc[r] = "built"
      /\ UNCHANGED <<tallying, verdicts, polled>>
  BY <1>1 DEF Build, Insert, Tell, Goto, TypeOK, reader
<1>3. /\ result'[r].comments = result[r].comments /\ result'[r].tally = result[r].tally
      /\ result'[r].status = result[r].status /\ result'[r].finishedAt = result[r].finishedAt
  <2>1. CASE Build(r)
    BY <1>1, <2>1 DEF Build, TypeOK, Results
  <2>2. CASE Insert(r)
    BY <2>2 DEF Insert
  <2>3. CASE Tell(r)
    BY <1>1, <2>3 DEF Tell, TypeOK, Results
  <2> QED
    BY <2>1, <2>2, <2>3
<1>4. \/ result'[r].messages = result[r].messages
      \/ pc'[r] = "working" /\ result'[r].messages \in {result[r].messages, result[r].messages + 1}
  BY <1>1 DEF Build, Insert, Tell, Goto, TypeOK, Results
<1>5. \A n, v : Count(r, n, v)' = Count(r, n, v)
  BY <1>2 DEF Count
<1>6. Tallied(r)'
  BY <1>2, <1>3, <1>5 DEF RunInv, Tallied
<1>7. Told(r)'
  BY <1>1, <1>2, <1>3, <1>4 DEF RunInv, Told, Results
<1>8. Outcome(r)' /\ PolledEarlier(r)'
  BY <1>2, <1>3 DEF RunInv, Outcome, PolledEarlier
<1> QED
  BY <1>6, <1>7, <1>8 DEF RunInv

LEMMA RecordKeepsRun ==
  ASSUME RowsInv, NEW r \in Runs, RunInv(r), Record(r)
  PROVE  RunInv(r)'
<1>1. TypeOK /\ result[r] \in Results /\ verdicts[r] \in Seq(Verdicts \cup {NoVerdict})
  BY DEF RowsInv, TypeInv, TypeOK
<1>2. PICK v \in Verdicts \cup {NoVerdict} :
        /\ tallying' = [tallying EXCEPT ![r] = v]
        /\ verdicts' = [verdicts EXCEPT ![r] = Append(@, v)]
  BY DEF Record
<1>3. verdicts'[r] = Append(verdicts[r], v) /\ tallying'[r] = v
  BY <1>1, <1>2 DEF TypeOK
<1>4. /\ pc[r] = "working" /\ pc'[r] = "tallying" /\ UNCHANGED polled
      /\ result'[r].comments = result[r].comments + 1 /\ result'[r].tally = result[r].tally
      /\ result'[r].status = result[r].status /\ result'[r].finishedAt = result[r].finishedAt
      /\ result'[r].messages = result[r].messages
  BY <1>1 DEF Record, Goto, TypeOK, Results, reader
<1>7. Len(verdicts'[r]) - 1 = Len(verdicts[r]) /\ Len(verdicts'[r]) = Len(verdicts[r]) + 1
  BY <1>1, <1>3
<1>8. verdicts'[r] # <<>> /\ verdicts'[r][Len(verdicts'[r])] = v
  BY <1>1, <1>3, <1>7, AppendProperties
<1>9. ASSUME NEW w \in Verdicts
      PROVE  result'[r].tally[w] = Count(r, Len(verdicts[r]) - 1, w)'
  <2>1. result[r].tally[w] = Count(r, Len(verdicts[r]), w)
    BY <1>4 DEF RunInv, Tallied
  <2>2. Count(r, Len(verdicts[r]) - 1, w)' = Cardinality({i \in 1..(Len(verdicts'[r]) - 1) : verdicts'[r][i] = w})
    BY DEF Count
  <2>3. Count(r, Len(verdicts[r]), w) = Cardinality({i \in 1..Len(verdicts[r]) : verdicts'[r][i] = w})
    <3>1. \A i \in 1..Len(verdicts[r]) : verdicts'[r][i] = verdicts[r][i]
      BY <1>1, <1>3
    <3> QED
      BY <3>1 DEF Count
  <2> QED
    BY <1>4, <1>7, <2>1, <2>2, <2>3
<1>10. Tallied(r)'
  BY <1>3, <1>4, <1>7, <1>8, <1>9 DEF RunInv, Tallied
<1>11. Told(r)' /\ Outcome(r)' /\ PolledEarlier(r)'
  BY <1>1, <1>4 DEF RunInv, Told, Outcome, PolledEarlier, Results, TypeOK
<1> QED
  BY <1>10, <1>11 DEF RunInv

LEMMA TallyKeepsRun ==
  ASSUME RowsInv, NEW r \in Runs, RunInv(r), Tally(r)
  PROVE  RunInv(r)'
<1>1. TypeOK /\ result[r] \in Results /\ verdicts[r] \in Seq(Verdicts \cup {NoVerdict})
  BY DEF RowsInv, TypeInv, TypeOK
<1>2. /\ pc[r] = "tallying" /\ pc'[r] = "telling" /\ UNCHANGED <<verdicts, polled>>
      /\ result'[r].comments = result[r].comments
      /\ result'[r].tally = [v \in Verdicts |->
           IF v = tallying[r] THEN result[r].tally[v] + 1 ELSE result[r].tally[v]]
      /\ result'[r].status = result[r].status /\ result'[r].finishedAt = result[r].finishedAt
      /\ result'[r].messages = result[r].messages
  BY <1>1 DEF Tally, Goto, TypeOK, Results, reader
<1>3. /\ verdicts[r] # <<>> /\ tallying[r] = verdicts[r][Len(verdicts[r])]
      /\ \A v \in Verdicts : result[r].tally[v] = Count(r, Len(verdicts[r]) - 1, v)
  BY <1>2 DEF RunInv, Tallied
<1>4. \A v \in Verdicts : Count(r, Len(verdicts[r]), v) =
        IF verdicts[r][Len(verdicts[r])] = v
          THEN Count(r, Len(verdicts[r]) - 1, v) + 1 ELSE Count(r, Len(verdicts[r]) - 1, v)
  <2>1. PICK n \in Nat : Len(verdicts[r]) = n + 1 /\ Len(verdicts[r]) - 1 = n
    BY <1>1, <1>3
  <2>2. \A v \in Verdicts : Count(r, n + 1, v) =
          IF verdicts[r][n + 1] = v THEN Count(r, n, v) + 1 ELSE Count(r, n, v)
    BY <1>1, CountFacts
  <2> QED
    BY <2>1, <2>2
<1>5. \A v : Count(r, Len(verdicts[r]), v)' = Count(r, Len(verdicts[r]), v)
  BY <1>2 DEF Count
<1>6. Tallied(r)'
  BY <1>2, <1>3, <1>4, <1>5 DEF RunInv, Tallied
<1>7. Told(r)' /\ Outcome(r)' /\ PolledEarlier(r)'
  BY <1>1, <1>2 DEF RunInv, Told, Outcome, PolledEarlier
<1> QED
  BY <1>6, <1>7 DEF RunInv

LEMMA FinishingKeepsRun ==
  ASSUME RowsInv, NEW r \in Runs, RunInv(r), FinishStatus(r) \/ FinishTime(r)
  PROVE  RunInv(r)'
<1>1. TypeOK /\ result[r] \in Results
  BY DEF RowsInv, TypeInv, TypeOK
<1>2. /\ \/ pc[r] = "working" /\ pc'[r] = "finishing"
         \/ pc[r] = "finishing" /\ pc'[r] = "over"
      /\ UNCHANGED <<tallying, verdicts, polled>>
  BY <1>1 DEF FinishStatus, FinishTime, Goto, TypeOK, reader
<1>3. /\ result'[r].comments = result[r].comments /\ result'[r].tally = result[r].tally
      /\ result'[r].messages = result[r].messages
  BY <1>1 DEF FinishStatus, FinishTime, TypeOK, Results
<1>4. /\ result'[r].status # "processing"
      /\ result'[r].finishedAt # Never <=> pc'[r] = "over"
  <2>1. CASE FinishStatus(r)
    BY <1>1, <2>1 DEF FinishStatus, Goto, TypeOK, Results, RunInv, Outcome
  <2>2. CASE FinishTime(r)
    BY <1>1, <2>2, ClockTyping DEF FinishTime, Goto, TypeOK, Results, RunInv, Outcome
  <2> QED
    BY <2>1, <2>2
<1>5. \A n, v : Count(r, n, v)' = Count(r, n, v)
  BY <1>2 DEF Count
<1>6. Tallied(r)' /\ Told(r)'
  BY <1>2, <1>3, <1>5 DEF RunInv, Tallied, Told
<1>7. Outcome(r)' /\ PolledEarlier(r)'
  BY <1>2, <1>3, <1>4 DEF RunInv, Outcome, PolledEarlier
<1> QED
  BY <1>6, <1>7 DEF RunInv

LEMMA WorkingKeepsRun ==
  ASSUME RowsInv, NEW r \in Runs, Enter(r) \/ Proceed(r)
  PROVE  RunInv(r)'
BY CreatingKeepsRun, RecordKeepsRun, TallyKeepsRun, FinishingKeepsRun
   DEF RowsInv, Enter, Proceed

\* A result whose lock is free can be read.
LEMMA FreeIsConsistent ==
  ASSUME RowsInv, NEW r \in Runs, holder[r] = Free
  PROVE  Consistent(r, result[r])
<1>1. RunInv(r) /\ TypeOK /\ result[r] \in Results
  BY DEF RowsInv, TypeInv, TypeOK
<1>2. pc[r] \notin {"tallying", "finishing"}
  BY RunsAssumption DEF RowsInv, TypeInv, OwnLock
<1>3. result[r].messages <= result[r].comments + 1
  BY <1>1 DEF RunInv, Told, Results
<1>4. result[r].status # "processing" <=> result[r].finishedAt # Never
  BY <1>1, <1>2 DEF RunInv, Outcome
<1>5. Len(verdicts[r]) \in Nat
  BY <1>1 DEF TypeOK
<1> QED
  BY <1>1, <1>2, <1>3, <1>4, <1>5 DEF RunInv, Tallied, Consistent

LEMMA RowsInvInit == Init => RowsInv
<1> SUFFICES ASSUME Init PROVE RowsInv
  OBVIOUS
<1>1. TypeInv /\ RowsAreConsistent /\ \A r \in Runs : RunInv(r)
  <2>1. TypeInv
    BY TypeInvInit
  <2>2. \A r \in Runs : /\ result[r] = Fresh /\ polled[r] = Fresh /\ pc[r] = "idle"
                        /\ verdicts[r] = <<>> /\ Len(verdicts[r]) = 0
                        /\ verdicts[r] \in Seq(Verdicts)
    BY EmptySeq DEF Init
  <2>3. \A r \in Runs : \A v : Count(r, 0, v) = 0
    BY <2>2, CountFacts
  <2>4. \A r \in Runs : RunInv(r)
    BY <2>2, <2>3 DEF RunInv, Tallied, Told, Outcome, PolledEarlier, Fresh
  <2>5. \A r \in Runs : Consistent(r, polled[r])
    BY <2>2, <2>3 DEF Consistent, Fresh
  <2>6. rows = <<>>
    BY DEF Init
  <2> QED
    BY <2>1, <2>4, <2>5, <2>6 DEF RowsAreConsistent
<1> QED
  BY <1>1 DEF RowsInv

LEMMA RowsInvRun ==
  ASSUME RowsInv, NEW r \in Runs, Enter(r) \/ Proceed(r), TypeInv'
  PROVE  RowsInv'
<1>1. TypeInv /\ TypeOK
  BY DEF RowsInv, TypeInv
<1>2. ASSUME NEW q \in Runs
      PROVE  RunInv(q)'
  <2>1. CASE q = r
    BY <2>1, WorkingKeepsRun
  <2>2. CASE q # r
    BY <1>1, <2>2, TouchedResult, UntouchedRun DEF RowsInv
  <2> QED
    BY <2>1, <2>2
<1>3. UNCHANGED <<rows, polled>>
  BY <1>1, TouchedResult
<1>4. ASSUME NEW q \in Runs, NEW row \in Results, Consistent(q, row)
      PROVE  Consistent(q, row)'
  <2>1. verdicts[q] \in Seq(Verdicts \cup {NoVerdict})
    BY <1>1 DEF TypeOK
  <2>2. \/ verdicts'[q] = verdicts[q]
        \/ \E w \in Verdicts \cup {NoVerdict} : verdicts'[q] = Append(verdicts[q], w)
    BY <1>1, TouchedResult DEF TypeOK
  <2> QED
    BY <1>4, <2>1, <2>2, ConsistentKept
<1>5. /\ \A i \in DOMAIN rows : rows[i][1] \in Runs /\ rows[i][2] \in Results
      /\ \A q \in Runs : polled[q] \in Results
  <2>1. \A i \in DOMAIN rows : rows[i] \in Runs \X Results
    BY <1>1 DEF TypeOK
  <2> QED
    BY <1>1, <2>1 DEF TypeOK
<1>6. RowsAreConsistent
  BY DEF RowsInv
<1>7. /\ \A i \in DOMAIN rows : Consistent(rows[i][1], rows[i][2])
      /\ \A q \in Runs : Consistent(q, polled[q])
  BY <1>6 DEF RowsAreConsistent
<1>8. ASSUME NEW i \in DOMAIN rows'
      PROVE  Consistent(rows[i][1], rows[i][2])'
  <2>1. \A q \in Runs, row \in Results :
          q = rows[i][1] /\ row = rows[i][2] => Consistent(q, row)'
    BY <1>3, <1>4, <1>7, <1>8
  <2> QED
    BY <1>3, <1>5, <1>8, <2>1
<1>9. ASSUME NEW q \in Runs
      PROVE  Consistent(q, polled[q])'
  <2>1. \A row \in Results : row = polled[q] => Consistent(q, row)'
    BY <1>4, <1>7, <1>9
  <2> QED
    BY <1>3, <1>5, <2>1
<1> QED
  BY <1>2, <1>8, <1>9 DEF RowsInv, RowsAreConsistent

LEMMA SameVerdicts ==
  ASSUME UNCHANGED verdicts, NEW q, NEW row, Consistent(q, row)
  PROVE  Consistent(q, row)'
BY DEF Consistent, Count

LEMMA RowsInvReader ==
  ASSUME RowsInv, (\E r \in Runs : Poll(r)) \/ AskRuns \/ ReadRow \/ Tick, TypeInv'
  PROVE  RowsInv'
<1>1. TypeOK /\ UNCHANGED <<pc, result, tallying, verdicts>>
  BY DEF RowsInv, TypeInv, Poll, AskRuns, ReadRow, Tick, run
<1>2. /\ \A i \in DOMAIN rows : Consistent(rows[i][1], rows[i][2])
      /\ \A q \in Runs : Consistent(q, polled[q]) /\ RunInv(q)
  BY DEF RowsInv, RowsAreConsistent
<1>3. ASSUME NEW q \in Runs
      PROVE  polled'[q] = polled[q] \/ (polled'[q] = result[q] /\ holder[q] = Free)
  BY <1>1 DEF Poll, AskRuns, ReadRow, Tick, reader, Readable, TypeOK
<1>4. ASSUME NEW q \in Runs
      PROVE  RunInv(q)' /\ Consistent(q, polled[q])'
  <2>1. CASE polled'[q] = polled[q]
    <3>1. RunInv(q)'
      BY <1>1, <1>2, <2>1, UntouchedRun
    <3>2. \A row : row = polled[q] => Consistent(q, row)'
      BY <1>1, <1>2, SameVerdicts
    <3> QED
      BY <2>1, <3>1, <3>2
  <2>2. CASE polled'[q] = result[q] /\ holder[q] = Free
    <3>1. Consistent(q, result[q])
      BY <2>2, FreeIsConsistent
    <3>2. \A row : row = result[q] => Consistent(q, row)'
      BY <1>1, <3>1, SameVerdicts
    <3>3. pc[q] # "finishing"
      BY <2>2, RunsAssumption DEF RowsInv, TypeInv, OwnLock
    <3>4. PolledEarlier(q)'
      <4>1. result[q] \in Results /\ Outcome(q)
        BY <1>1, <1>2 DEF TypeOK, RunInv
      <4>2. result[q].comments \in Nat
        BY <4>1 DEF Results
      <4>3. result[q].status # "processing" => pc[q] = "over"
        BY <3>3, <4>1 DEF Outcome
      <4>4. polled'[q] = result[q] /\ result'[q] = result[q] /\ pc'[q] = pc[q]
        BY <1>1, <2>2
      <4> QED
        BY <4>2, <4>3, <4>4 DEF PolledEarlier
    <3>5. \A n, v : Count(q, n, v)' = Count(q, n, v)
      BY <1>1 DEF Count
    <3>6. Tallied(q)' /\ Told(q)' /\ Outcome(q)'
      BY <1>1, <1>2, <3>5 DEF RunInv, Tallied, Told, Outcome
    <3> QED
      BY <2>2, <3>2, <3>4, <3>6 DEF RunInv
  <2> QED
    BY <1>3, <2>1, <2>2
<1>5. ASSUME NEW i \in DOMAIN rows'
      PROVE  Consistent(rows[i][1], rows[i][2])'
  <2>1. CASE i \in DOMAIN rows /\ rows'[i] = rows[i]
    <3>1. \A q, row : q = rows[i][1] /\ row = rows[i][2] => Consistent(q, row)'
      BY <1>1, <1>2, <2>1, SameVerdicts
    <3> QED
      BY <2>1, <3>1
  <2>2. CASE ~(i \in DOMAIN rows /\ rows'[i] = rows[i])
    <3>1. ReadRow
      BY <1>5, <2>2 DEF Poll, AskRuns, Tick, reader
    <3>2. /\ Head(asking) \in Runs
          /\ rows'[i] = <<Head(asking), result[Head(asking)]>>
          /\ holder[Head(asking)] = Free
      BY <1>1, <1>5, <2>2, <3>1 DEF ReadRow, Readable, TypeOK
    <3>3. \A q, row : q = Head(asking) /\ row = result[Head(asking)] => Consistent(q, row)'
      BY <1>1, <3>2, FreeIsConsistent, SameVerdicts
    <3> QED
      BY <3>2, <3>3
  <2> QED
    BY <2>1, <2>2
<1> QED
  BY <1>4, <1>5 DEF RowsInv, RowsAreConsistent

LEMMA RowsInvStep == RowsInv /\ [Next]_vars => RowsInv'
<1> SUFFICES ASSUME RowsInv, [Next]_vars PROVE RowsInv'
  OBVIOUS
<1>1. TypeInv'
  BY TypeInvStep DEF RowsInv
<1>2. CASE UNCHANGED vars
  <2>1. UNCHANGED <<pc, result, tallying, verdicts, polled, rows>>
    BY <1>2 DEF vars, run, reader
  <2>2. \A q \in Runs : RunInv(q)'
    BY <2>1, UntouchedRun DEF RowsInv
  <2>3. RowsAreConsistent'
    BY <2>1 DEF RowsInv, RowsAreConsistent, Consistent, Count
  <2> QED
    BY <1>1, <2>2, <2>3 DEF RowsInv
<1> QED
  BY <1>1, <1>2, RowsInvRun, RowsInvReader, RunsAssumption DEF Next

LEMMA RowsInvHolds == Spec => []RowsInv
BY RowsInvInit, RowsInvStep, PTL DEF Spec

\* as_dict: what GET /process/<id> and GET /runs answer of a run is a state of it
\* between two decisions, at whatever moment of it they come.
THEOREM ReadersSeeDecisions == Spec => []RowsAreConsistent
<1>1. RowsInv => RowsAreConsistent
  BY DEF RowsInv
<1> QED
  BY <1>1, RowsInvHolds, PTL

\* GET /process/<id>, asked again and again: the counts only grow and the outcome,
\* once there, stays, although the store's lock is given back before the result's.
THEOREM PollsAdvance == Spec => PollsOnlyAdvance
<1>1. ASSUME RowsInv, [Next]_vars, NEW r \in Runs
      PROVE  /\ polled'[r].comments >= polled[r].comments
             /\ polled[r].status # "processing" => polled'[r] = polled[r]
  <2>1. TypeOK /\ PolledEarlier(r)
    BY <1>1 DEF RowsInv, TypeInv, RunInv
  <2>2. polled[r] \in Results /\ result[r] \in Results
    BY <2>1 DEF TypeOK
  <2>3. polled[r].comments \in Nat /\ result[r].comments \in Nat
    BY <2>2 DEF Results
  <2>4. polled'[r] = polled[r] \/ polled'[r] = result[r]
    <3>1. CASE \E q \in Followed : Poll(q)
      BY <2>1, <3>1 DEF Poll, TypeOK
    <3>2. CASE ~ \E q \in Followed : Poll(q)
      <4>1. UNCHANGED polled
        BY <1>1, <3>2 DEF Next, vars, reader, Enter, Proceed, Build, Insert, Record, Tally, Tell,
                          FinishStatus, FinishTime, AskRuns, ReadRow, Tick
      <4> QED
        BY <4>1
    <3> QED
      BY <3>1, <3>2
  <2>5. CASE polled'[r] = polled[r]
    BY <2>3, <2>5
  <2>6. CASE polled'[r] = result[r]
    BY <2>1, <2>3, <2>6 DEF PolledEarlier
  <2> QED
    BY <2>4, <2>5, <2>6
<1>2. RowsInv /\ [Next]_vars =>
        [\A r \in Runs : /\ polled'[r].comments >= polled[r].comments
                         /\ polled[r].status # "processing" => polled'[r] = polled[r]]_vars
  BY <1>1
<1> QED
  BY <1>2, RowsInvHolds, PTL DEF Spec, PollsOnlyAdvance

-----------------------------------------------------------------------------
(* The store: what is kept is the last insertion of each of the latest ids, *)
(* in the order of the insertions.                                          *)

\* The ids of what comes after place i of a list of runs.
IdsAfter(s, i) == {TriggerId[s[j]] : j \in {k \in DOMAIN s : k > i}}

NoIdTwice(s) == \A i, j \in DOMAIN s : TriggerId[s[i]] = TriggerId[s[j]] => i = j
NoRunTwice(c) == \A i, j \in DOMAIN c : c[i] = c[j] => i = j

\* s keeps of the insertions c what StoreKeepsLatest asks for: each kept run has
\* the same ids after it in both, and each insertion that is gone has its own id
\* or MaxSize ids after it.
Keeps(s, c) ==
  /\ NoIdTwice(s)
  /\ \A k \in DOMAIN s : \E i \in DOMAIN c : s[k] = c[i] /\ IdsAfter(c, i) = IdsAfter(s, k)
  /\ \A i \in DOMAIN c :
       \/ \E k \in DOMAIN s : s[k] = c[i]
       \/ TriggerId[c[i]] \in IdsAfter(c, i)
       \/ Cardinality(IdsAfter(c, i)) >= MaxSize

StoreInv ==
  /\ TypeInv
  /\ NoRunTwice(created)
  /\ \A i \in DOMAIN created : pc[created[i]] \notin {"idle", "built"}
  /\ Keeps(items, created)

LEMMA IdsAfterIsFinite ==
  ASSUME NEW S, NEW s \in Seq(S), NEW i \in 1..Len(s)
  PROVE  /\ IsFiniteSet(IdsAfter(s, i))
         /\ Cardinality(IdsAfter(s, i)) \in Nat
         /\ NoIdTwice(s) => Cardinality(IdsAfter(s, i)) = Len(s) - i
<1> DEFINE rest == (i + 1)..Len(s)
           id == [j \in rest |-> TriggerId[s[j]]]
           ids == IdsAfter(s, i)
<1>1. rest = {k \in DOMAIN s : k > i}
  OBVIOUS
<1>2. id \in Surjection(rest, ids)
  BY <1>1 DEF Surjection, IdsAfter
<1>3. IsFiniteSet(rest) /\ Cardinality(rest) = Len(s) - i
  <2>1. i + 1 \in Int /\ Len(s) \in Int
    OBVIOUS
  <2>2. IsFiniteSet((i + 1)..Len(s)) /\
        Cardinality((i + 1)..Len(s)) = IF i + 1 > Len(s) THEN 0 ELSE Len(s) - (i + 1) + 1
    BY <2>1, FS_Interval
  <2> QED
    BY <2>2
<1>4. NoIdTwice(s) => id \in Injection(rest, ids)
  <2> SUFFICES ASSUME NoIdTwice(s) PROVE id \in Injection(rest, ids)
    OBVIOUS
  <2>1. \A j, k \in rest : id[j] = id[k] => j = k
    BY <1>1 DEF NoIdTwice
  <2>2. id \in [rest -> ids]
    BY <1>2 DEF Surjection
  <2> HIDE DEF id, ids, rest
  <2> QED
    BY <2>1, <2>2 DEF Injection, IsInjective
<1> HIDE DEF rest, id
<1>5. /\ IsFiniteSet(ids)
      /\ Cardinality(ids) = Cardinality(rest) <=> id \in Injection(rest, ids)
  <2> HIDE DEF ids
  <2> QED
    BY <1>2, <1>3, FS_Surjection
<1>6. Cardinality(ids) \in Nat
  BY <1>5, FS_CardinalityType
<1> QED
  BY <1>3, <1>4, <1>5, <1>6

\* One more insertion: its id comes after every earlier one.
LEMMA AppendIds ==
  ASSUME NEW S, NEW s \in Seq(S), NEW x \in S
  PROVE  /\ \A i \in 1..Len(s) : IdsAfter(Append(s, x), i) = IdsAfter(s, i) \cup {TriggerId[x]}
         /\ IdsAfter(Append(s, x), Len(s) + 1) = {}
<1> DEFINE t == Append(s, x)
<1>1. /\ DOMAIN s = 1..Len(s) /\ DOMAIN t = 1..(Len(s) + 1)
      /\ \A j \in 1..Len(s) : t[j] = s[j]
      /\ t[Len(s) + 1] = x
  OBVIOUS
<1> HIDE DEF t
<1>2. ASSUME NEW i \in 1..Len(s)
      PROVE  IdsAfter(t, i) = IdsAfter(s, i) \cup {TriggerId[x]}
  <2>1. ASSUME NEW y \in IdsAfter(t, i)
        PROVE  y \in IdsAfter(s, i) \cup {TriggerId[x]}
    <3>1. PICK j \in DOMAIN t : j > i /\ y = TriggerId[t[j]]
      BY DEF IdsAfter
    <3> QED
      BY <1>1, <3>1 DEF IdsAfter
  <2>2. ASSUME NEW y \in IdsAfter(s, i)
        PROVE  y \in IdsAfter(t, i)
    <3>1. PICK j \in DOMAIN s : j > i /\ y = TriggerId[s[j]]
      BY DEF IdsAfter
    <3>2. j \in DOMAIN t /\ t[j] = s[j]
      BY <1>1
    <3> QED
      BY <3>1, <3>2 DEF IdsAfter
  <2>3. TriggerId[x] \in IdsAfter(t, i)
    <3>1. Len(s) + 1 \in DOMAIN t /\ Len(s) + 1 > i
      BY <1>1
    <3> QED
      BY <1>1, <3>1 DEF IdsAfter
  <2> QED
    BY <2>1, <2>2, <2>3
<1>3. IdsAfter(t, Len(s) + 1) = {}
  BY <1>1 DEF IdsAfter
<1> QED
  BY <1>2, <1>3 DEF t

\* create: every run but those of the id moves to the new list, in its order.
LEMMA StoredFacts ==
  ASSUME NEW s \in Seq(Runs), s = items, NoIdTwice(s), NEW r \in Runs
  PROVE  /\ Stored(r) \in Seq(Runs) /\ Len(Stored(r)) \in 1..(Len(s) + 1)
         /\ Stored(r)[Len(Stored(r))] = r
         /\ NoIdTwice(Stored(r))
         /\ \A l \in 1..(Len(Stored(r)) - 1) : \E k \in DOMAIN s :
              /\ Stored(r)[l] = s[k]
              /\ IdsAfter(Stored(r), l) = IdsAfter(s, k) \cup {TriggerId[r]}
         /\ \A k \in DOMAIN s : TriggerId[s[k]] # TriggerId[r] =>
              \E l \in DOMAIN Stored(r) : Stored(r)[l] = s[k]
<1> DEFINE same == {i \in DOMAIN items : TriggerId[items[i]] = TriggerId[r]}
<1>0. DOMAIN s = 1..Len(s) /\ Len(s) \in Nat
  OBVIOUS
<1>1. CASE same = {}
  <2>1. Stored(r) = Append(s, r)
    BY <1>1 DEF Stored
  <2>2. /\ Append(s, r) \in Seq(Runs) /\ Len(Append(s, r)) = Len(s) + 1
        /\ DOMAIN Append(s, r) = 1..(Len(s) + 1)
        /\ Append(s, r)[Len(s) + 1] = r
        /\ \A k \in 1..Len(s) : Append(s, r)[k] = s[k]
    OBVIOUS
  <2>3. \A k \in DOMAIN s : TriggerId[s[k]] # TriggerId[r]
    BY <1>1
  <2>4. NoIdTwice(Append(s, r))
    BY <1>0, <2>2, <2>3 DEF NoIdTwice
  <2>5. \A l \in 1..Len(s) : IdsAfter(Append(s, r), l) = IdsAfter(s, l) \cup {TriggerId[r]}
    BY AppendIds
  <2> HIDE DEF same
  <2> QED
    BY <1>0, <2>1, <2>2, <2>3, <2>4, <2>5
<1>2. CASE same # {}
  <2>1. PICK m \in 1..Len(s) :
          TriggerId[s[m]] = TriggerId[r] /\ Stored(r) = Append(RemoveAt(s, m), r)
    <3> DEFINE chosen == CHOOSE i \in same : TRUE
    <3>1. chosen \in same
      BY <1>2
    <3>2. Stored(r) = Append(RemoveAt(s, chosen), r)
      BY <1>2 DEF Stored
    <3>3. chosen \in 1..Len(s) /\ TriggerId[s[chosen]] = TriggerId[r]
      BY <1>0, <3>1
    <3> HIDE DEF chosen
    <3> QED
      BY <3>2, <3>3
  <2> DEFINE u == RemoveAt(s, m)
             from(l) == IF l < m THEN l ELSE l + 1
  <2>2. /\ u \in Seq(Runs) /\ Len(u) = Len(s) - 1 /\ Len(s) >= 1
        /\ DOMAIN u = 1..(Len(s) - 1)
        /\ \A l \in DOMAIN u : u[l] = s[from(l)]
    <3>1. /\ u \in Seq(Runs) /\ Len(u) = Len(s) - 1
          /\ \A l \in 1..(Len(s) - 1) : u[l] = s[from(l)]
      <4>1. /\ RemoveAt(s, m) \in Seq(Runs)
            /\ Len(RemoveAt(s, m)) = Len(s) - 1
            /\ \A j \in 1..(Len(s) - 1) : RemoveAt(s, m)[j] = IF j < m THEN s[j] ELSE s[j + 1]
        BY RemoveAtFacts
      <4> QED
        BY <4>1
    <3> HIDE DEF u, from
    <3> QED
      BY <1>0, <3>1
  <2>3. /\ \A l \in DOMAIN u : from(l) \in DOMAIN s /\ from(l) # m
        /\ \A l, n \in DOMAIN u : l > n <=> from(l) > from(n)
        /\ \A k \in DOMAIN s : k # m => \E l \in DOMAIN u : from(l) = k
    <3>1. ASSUME NEW k \in DOMAIN s, k # m
          PROVE  \E l \in DOMAIN u : from(l) = k
      <4>1. CASE k < m
        BY <1>0, <2>2, <3>1, <4>1
      <4>2. CASE k > m
        <5>1. k - 1 \in DOMAIN u /\ from(k - 1) = k
          BY <1>0, <2>2, <3>1, <4>2
        <5> QED
          BY <5>1
      <4> QED
        BY <1>0, <3>1, <4>1, <4>2
    <3> QED
      BY <1>0, <2>2, <3>1
  <2> HIDE DEF from, u
  <2>4. /\ Append(u, r) \in Seq(Runs) /\ Len(Append(u, r)) = Len(s)
        /\ DOMAIN Append(u, r) = 1..Len(s)
        /\ Append(u, r)[Len(s)] = r
        /\ \A l \in DOMAIN u : Append(u, r)[l] = u[l]
    BY <2>2
  <2>5. \A k \in DOMAIN s : k # m => TriggerId[s[k]] # TriggerId[r]
    BY <1>0, <2>1 DEF NoIdTwice
  <2>6. \A l, n \in DOMAIN u : TriggerId[u[l]] = TriggerId[u[n]] => l = n
    <3> SUFFICES ASSUME NEW l \in DOMAIN u, NEW n \in DOMAIN u, TriggerId[u[l]] = TriggerId[u[n]]
                 PROVE  l = n
      OBVIOUS
    <3>1. from(l) = from(n)
      BY <2>2, <2>3 DEF NoIdTwice
    <3>2. from(l) \in Nat /\ from(n) \in Nat /\ l \in Nat /\ n \in Nat
      BY <1>0, <2>2, <2>3
    <3>3. ~(l > n) /\ ~(n > l)
      BY <2>3, <3>1, <3>2
    <3> QED
      BY <3>2, <3>3
  <2>7. NoIdTwice(Append(u, r))
    <3>1. \A l \in DOMAIN u : TriggerId[u[l]] # TriggerId[r]
      BY <2>2, <2>3, <2>5
    <3>2. \A l \in DOMAIN Append(u, r) : l \in DOMAIN u \/ l = Len(s)
      BY <2>2, <2>4
    <3> QED
      BY <2>4, <2>6, <3>1, <3>2 DEF NoIdTwice
  <2>8. ASSUME NEW l \in DOMAIN u
        PROVE  IdsAfter(Append(u, r), l) = IdsAfter(s, from(l)) \cup {TriggerId[r]}
    <3>1. IdsAfter(Append(u, r), l) = IdsAfter(u, l) \cup {TriggerId[r]}
      BY <2>2, AppendIds
    <3>2. ASSUME NEW y \in IdsAfter(u, l)
          PROVE  y \in IdsAfter(s, from(l))
      <4>1. PICK j \in DOMAIN u : j > l /\ y = TriggerId[u[j]]
        BY DEF IdsAfter
      <4>2. from(j) \in DOMAIN s /\ from(j) > from(l) /\ y = TriggerId[s[from(j)]]
        BY <2>2, <2>3, <4>1
      <4> QED
        BY <4>2 DEF IdsAfter
    <3>3. ASSUME NEW y \in IdsAfter(s, from(l))
          PROVE  y \in IdsAfter(u, l) \cup {TriggerId[r]}
      <4>1. PICK k \in DOMAIN s : k > from(l) /\ y = TriggerId[s[k]]
        BY DEF IdsAfter
      <4>2. CASE k = m
        BY <2>1, <4>1, <4>2
      <4>3. CASE k # m
        <5>1. PICK j \in DOMAIN u : from(j) = k
          BY <2>3, <4>3
        <5>2. j > l /\ y = TriggerId[u[j]]
          BY <2>2, <2>3, <4>1, <5>1
        <5> QED
          BY <5>2 DEF IdsAfter
      <4> QED
        BY <4>2, <4>3
    <3> QED
      BY <3>1, <3>2, <3>3
  <2>9. Stored(r) = Append(u, r)
    BY <2>1 DEF u
  <2>10. \A l \in 1..(Len(s) - 1) : \E k \in DOMAIN s :
           Append(u, r)[l] = s[k] /\ IdsAfter(Append(u, r), l) = IdsAfter(s, k) \cup {TriggerId[r]}
    BY <2>2, <2>3, <2>4, <2>8
  <2>11. ASSUME NEW k \in DOMAIN s, TriggerId[s[k]] # TriggerId[r]
         PROVE  \E l \in DOMAIN Append(u, r) : Append(u, r)[l] = s[k]
    <3>1. k # m
      BY <2>1, <2>11
    <3>2. PICK l \in DOMAIN u : from(l) = k
      BY <2>3, <3>1
    <3>3. Append(u, r)[l] = u[l] /\ u[l] = s[k]
      BY <2>2, <2>4, <3>2
    <3>4. l \in DOMAIN Append(u, r)
      <4>1. l \in 1..Len(s)
        BY <1>0, <2>2
      <4> QED
        BY <2>4, <4>1
    <3> QED
      BY <3>3, <3>4
  <2>12. Len(Append(u, r)) \in 1..(Len(s) + 1) /\ Append(u, r)[Len(Append(u, r))] = r
    <3>1. Len(Append(u, r)) = Len(s) /\ Len(s) \in 1..(Len(s) + 1)
      <4>1. Len(Append(u, r)) = Len(s)
        BY <2>4
      <4>2. Len(s) \in Nat /\ Len(s) >= 1
        BY <1>0, <2>2
      <4>3. Len(s) \in 1..(Len(s) + 1)
        BY <4>2
      <4> QED
        BY <4>1, <4>3
    <3>2. \A n : n = Len(s) => Append(u, r)[n] = r
      BY <2>4
    <3> QED
      BY <3>1, <3>2
  <2>13. \A l \in 1..(Len(Append(u, r)) - 1) : \E k \in DOMAIN s :
           Append(u, r)[l] = s[k] /\ IdsAfter(Append(u, r), l) = IdsAfter(s, k) \cup {TriggerId[r]}
    BY <2>4, <2>10
  <2> DEFINE t == Append(u, r)
  <2>14. /\ t \in Seq(Runs) /\ Len(t) \in 1..(Len(s) + 1) /\ t[Len(t)] = r /\ NoIdTwice(t)
         /\ \A l \in 1..(Len(t) - 1) : \E k \in DOMAIN s :
              t[l] = s[k] /\ IdsAfter(t, l) = IdsAfter(s, k) \cup {TriggerId[r]}
         /\ \A k \in DOMAIN s : TriggerId[s[k]] # TriggerId[r] => \E l \in DOMAIN t : t[l] = s[k]
    BY <2>4, <2>7, <2>11, <2>12, <2>13
  <2> HIDE DEF same, t
  <2> QED
    BY <2>9, <2>14 DEF t
<1> QED
  BY <1>1, <1>2

\* The list with the new run in it, before the oldest is evicted.
LEMMA StoredKeeps ==
  ASSUME NEW c \in Seq(Runs), items \in Seq(Runs), NEW r \in Runs,
         NoRunTwice(c), \A i \in DOMAIN c : c[i] # r, Keeps(items, c)
  PROVE  NoRunTwice(Append(c, r)) /\ Keeps(Stored(r), Append(c, r))
<1> DEFINE d == Append(c, r)
           t == Stored(r)
           n == Len(c) + 1
<1>1. /\ DOMAIN c = 1..Len(c) /\ DOMAIN d = 1..n /\ Len(c) \in Nat
      /\ d[n] = r
      /\ \A i \in 1..Len(c) : d[i] = c[i]
      /\ \A i \in 1..n : i \in 1..Len(c) \/ i = n
  OBVIOUS
<1>2. /\ \A i \in 1..Len(c) : IdsAfter(d, i) = IdsAfter(c, i) \cup {TriggerId[r]}
      /\ IdsAfter(d, n) = {}
  BY AppendIds
<1>3. /\ t \in Seq(Runs) /\ Len(t) \in 1..(Len(items) + 1)
      /\ t[Len(t)] = r
      /\ NoIdTwice(t)
      /\ \A l \in 1..(Len(t) - 1) : \E k \in DOMAIN items :
           t[l] = items[k] /\ IdsAfter(t, l) = IdsAfter(items, k) \cup {TriggerId[r]}
      /\ \A k \in DOMAIN items : TriggerId[items[k]] # TriggerId[r] =>
           \E l \in DOMAIN t : t[l] = items[k]
  BY StoredFacts DEF Keeps
<1>4. DOMAIN t = 1..Len(t) /\ Len(t) \in Nat /\ Len(t) \in DOMAIN t
  BY <1>3
<1> HIDE DEF d, t, n
<1>5. NoRunTwice(d)
  BY <1>1 DEF NoRunTwice
<1>6. ASSUME NEW l \in DOMAIN t
      PROVE  \E i \in DOMAIN d : t[l] = d[i] /\ IdsAfter(d, i) = IdsAfter(t, l)
  <2>1. CASE l = Len(t)
    <3>1. IdsAfter(t, Len(t)) = {}
      BY <1>4 DEF IdsAfter
    <3>2. n \in DOMAIN d
      BY <1>1 DEF n
    <3> QED
      BY <1>1, <1>2, <1>3, <2>1, <3>1, <3>2
  <2>2. CASE l # Len(t)
    <3>1. l \in 1..(Len(t) - 1)
      BY <1>4, <2>2
    <3>2. PICK k \in DOMAIN items :
            t[l] = items[k] /\ IdsAfter(t, l) = IdsAfter(items, k) \cup {TriggerId[r]}
      BY <1>3, <3>1
    <3>3. PICK i \in DOMAIN c : items[k] = c[i] /\ IdsAfter(c, i) = IdsAfter(items, k)
      BY DEF Keeps
    <3>4. i \in DOMAIN d
      BY <1>1 DEF n
    <3> QED
      BY <1>1, <1>2, <3>2, <3>3, <3>4
  <2> QED
    BY <2>1, <2>2
<1>7. ASSUME NEW i \in DOMAIN d
      PROVE  \/ \E l \in DOMAIN t : t[l] = d[i]
             \/ TriggerId[d[i]] \in IdsAfter(d, i)
             \/ Cardinality(IdsAfter(d, i)) >= MaxSize
  <2>1. CASE i = n
    BY <1>1, <1>3, <1>4, <2>1
  <2>2. CASE i # n
    <3>1. i \in DOMAIN c /\ d[i] = c[i]
      BY <1>1, <2>2
    <3>2. CASE \E k \in DOMAIN items : items[k] = c[i]
      <4>1. PICK k \in DOMAIN items : items[k] = c[i]
        BY <3>2
      <4>2. CASE TriggerId[items[k]] = TriggerId[r]
        BY <1>1, <1>2, <3>1, <4>1, <4>2
      <4>3. CASE TriggerId[items[k]] # TriggerId[r]
        <5>1. \E l \in DOMAIN t : t[l] = items[k]
          BY <1>3, <4>3
        <5> QED
          BY <3>1, <4>1, <5>1
      <4> QED
        BY <4>2, <4>3
    <3>3. CASE TriggerId[c[i]] \in IdsAfter(c, i)
      BY <1>1, <1>2, <3>1, <3>3
    <3>4. CASE Cardinality(IdsAfter(c, i)) >= MaxSize
      <4>1. IsFiniteSet(IdsAfter(c, i)) /\ Cardinality(IdsAfter(c, i)) \in Nat
        BY <1>1, <3>1, IdsAfterIsFinite
      <4>2. /\ IsFiniteSet(IdsAfter(c, i) \cup {TriggerId[r]})
            /\ Cardinality(IdsAfter(c, i) \cup {TriggerId[r]}) =
                 IF TriggerId[r] \in IdsAfter(c, i) THEN Cardinality(IdsAfter(c, i))
                                                    ELSE Cardinality(IdsAfter(c, i)) + 1
        BY <4>1, FS_AddElement
      <4>3. Cardinality(IdsAfter(c, i) \cup {TriggerId[r]}) >= MaxSize
        BY <3>4, <4>1, <4>2, BoundsAssumption
      <4> QED
        BY <1>1, <1>2, <3>1, <4>3
    <3> QED
      BY <3>1, <3>2, <3>3, <3>4 DEF Keeps
  <2> QED
    BY <2>1, <2>2
<1>8. Keeps(t, d)
  BY <1>3, <1>6, <1>7 DEF Keeps
<1> QED
  BY <1>5, <1>8 DEF d, t

\* popitem(last=False): what leaves has MaxSize ids after it.
LEMMA EvictKeeps ==
  ASSUME NEW c \in Seq(Runs), NEW s \in Seq(Runs), Len(s) >= 1, Len(s) <= MaxSize + 1,
         NoRunTwice(c), Keeps(s, c)
  PROVE  Keeps(Evict(s), c)
<1>1. CASE ~(Len(s) > MaxSize)
  BY <1>1 DEF Evict
<1>2. CASE Len(s) > MaxSize
  <2> DEFINE t == Tail(s)
  <2>1. /\ Evict(s) = t /\ Len(s) - 1 = MaxSize /\ Len(s) \in Nat
        /\ DOMAIN s = 1..Len(s) /\ DOMAIN t = 1..(Len(s) - 1)
        /\ \A l \in DOMAIN t : t[l] = s[l + 1]
    BY <1>2, BoundsAssumption DEF Evict
  <2> HIDE DEF t
  <2>2. \A l \in DOMAIN t : l + 1 \in DOMAIN s /\ l \in Nat
    BY <2>1
  <2>3. NoIdTwice(s)
    BY DEF Keeps
  <2>4. NoIdTwice(t)
    <3> SUFFICES ASSUME NEW i \in DOMAIN t, NEW j \in DOMAIN t, TriggerId[t[i]] = TriggerId[t[j]]
                 PROVE  i = j
      BY DEF NoIdTwice
    <3>1. i + 1 = j + 1
      BY <2>1, <2>2, <2>3 DEF NoIdTwice
    <3> QED
      BY <2>2, <3>1
  <2>5. ASSUME NEW l \in DOMAIN t
        PROVE  IdsAfter(t, l) = IdsAfter(s, l + 1)
    <3>1. ASSUME NEW y \in IdsAfter(t, l)
          PROVE  y \in IdsAfter(s, l + 1)
      <4>1. PICK j \in DOMAIN t : j > l /\ y = TriggerId[t[j]]
        BY DEF IdsAfter
      <4>2. j + 1 \in DOMAIN s /\ j + 1 > l + 1 /\ y = TriggerId[s[j + 1]]
        BY <2>1, <2>2, <4>1
      <4> QED
        BY <4>2 DEF IdsAfter
    <3>2. ASSUME NEW y \in IdsAfter(s, l + 1)
          PROVE  y \in IdsAfter(t, l)
      <4>1. PICK j \in DOMAIN s : j > l + 1 /\ y = TriggerId[s[j]]
        BY DEF IdsAfter
      <4>2. j - 1 \in DOMAIN t /\ j - 1 > l /\ (j - 1) + 1 = j
        BY <2>1, <2>2, <4>1
      <4>3. y = TriggerId[t[j - 1]]
        BY <2>1, <4>1, <4>2
      <4> QED
        BY <4>2, <4>3 DEF IdsAfter
    <3> QED
      BY <3>1, <3>2
  <2>6. ASSUME NEW l \in DOMAIN t
        PROVE  \E i \in DOMAIN c : t[l] = c[i] /\ IdsAfter(c, i) = IdsAfter(t, l)
    BY <2>1, <2>2, <2>5 DEF Keeps
  <2>7. ASSUME NEW i \in DOMAIN c
        PROVE  \/ \E l \in DOMAIN t : t[l] = c[i]
               \/ TriggerId[c[i]] \in IdsAfter(c, i)
               \/ Cardinality(IdsAfter(c, i)) >= MaxSize
    <3>1. CASE ~ \E k \in DOMAIN s : s[k] = c[i]
      BY <3>1 DEF Keeps
    <3>2. ASSUME NEW k \in DOMAIN s, s[k] = c[i], k # 1
          PROVE  \E l \in DOMAIN t : t[l] = c[i]
      <4>1. k - 1 \in DOMAIN t /\ (k - 1) + 1 = k
        BY <2>1, <3>2
      <4>2. t[k - 1] = s[k]
        BY <2>1, <4>1
      <4> QED
        BY <3>2, <4>1, <4>2
    <3>3. CASE s[1] = c[i]
      <4>1. 1 \in DOMAIN s
        BY <2>1
      <4>2. PICK h \in DOMAIN c : s[1] = c[h] /\ IdsAfter(c, h) = IdsAfter(s, 1)
        BY <4>1 DEF Keeps
      <4>3. h = i
        BY <3>3, <4>2 DEF NoRunTwice
      <4>4. Cardinality(IdsAfter(s, 1)) = Len(s) - 1
        BY <2>1, <2>3, <4>1, IdsAfterIsFinite
      <4> QED
        BY <2>1, <4>2, <4>3, <4>4, BoundsAssumption
    <3> QED
      BY <3>1, <3>2, <3>3
  <2>8. Keeps(t, c)
    BY <2>4, <2>6, <2>7 DEF Keeps
  <2> QED
    BY <2>1, <2>8
<1> QED
  BY <1>1, <1>2

LEMMA StoreInvStep == StoreInv /\ [Next]_vars => StoreInv'
<1> SUFFICES ASSUME StoreInv, [Next]_vars PROVE StoreInv'
  OBVIOUS
<1>1. TypeOK /\ created \in Seq(Runs) /\ items \in Seq(Runs) /\ Len(items) <= MaxSize
  BY DEF StoreInv, TypeInv, TypeOK
<1>2. TypeInv'
  BY TypeInvStep DEF StoreInv
<1>3. CASE \E r \in Runs : Insert(r)
  <2>1. PICK r \in Runs : Insert(r)
    BY <1>3
  <2>2. /\ pc[r] = "built" /\ pc' = [pc EXCEPT ![r] = "telling"]
        /\ items' = Evict(Stored(r)) /\ created' = Append(created, r)
    BY <2>1 DEF Insert, Goto
  <2>3. \A i \in DOMAIN created : created[i] # r
    BY <2>2 DEF StoreInv
  <2>4. NoRunTwice(Append(created, r)) /\ Keeps(Stored(r), Append(created, r))
    BY <1>1, <2>3, StoredKeeps DEF StoreInv
  <2>5. Append(created, r) \in Seq(Runs) /\ Stored(r) \in Seq(Runs)
        /\ Len(Stored(r)) >= 1 /\ Len(Stored(r)) <= MaxSize + 1
    <3>1. Stored(r) \in Seq(Runs) /\ Len(Stored(r)) \in 1..(Len(items) + 1)
      BY <1>1, StoredTyping
    <3> QED
      BY <1>1, <3>1, BoundsAssumption
  <2>6. Keeps(Evict(Stored(r)), Append(created, r))
    BY <2>4, <2>5, EvictKeeps
  <2>7. \A c, s : c = created' /\ s = items' => (NoRunTwice(c) <=> NoRunTwice(created)')
                                                /\ (Keeps(s, c) <=> Keeps(items, created)')
    BY DEF NoRunTwice, Keeps, NoIdTwice, IdsAfter
  <2>8. ASSUME NEW i \in DOMAIN created'
        PROVE  pc'[created'[i]] \notin {"idle", "built"}
    <3>1. CASE i \in DOMAIN created
      <4>1. created'[i] = created[i] /\ created[i] \in Runs
        BY <1>1, <2>2, <3>1
      <4> QED
        BY <1>1, <2>2, <2>3, <3>1, <4>1 DEF StoreInv, TypeOK
    <3>2. CASE i \notin DOMAIN created
      <4>1. created'[i] = r
        BY <1>1, <2>2, <2>8, <3>2
      <4> QED
        BY <1>1, <2>2, <4>1 DEF TypeOK
    <3> QED
      BY <3>1, <3>2
  <2> QED
    BY <1>2, <2>2, <2>4, <2>6, <2>7, <2>8 DEF StoreInv
<1>4. CASE ~ \E r \in Runs : Insert(r)
  <2>1. /\ UNCHANGED <<items, created>>
        /\ \A q \in Runs : pc'[q] \in {"idle", "built"} => pc[q] \in {"idle", "built"}
    <3>1. CASE \E r \in Runs : Build(r)
      BY <1>1, <3>1 DEF Build, Goto, store, TypeOK
    <3>2. CASE \E r \in Runs : Proceed(r)
      <4>1. PICK r \in Runs, label \in {"tallying", "telling", "working", "finishing", "over"} :
              pc' = [pc EXCEPT ![r] = label]
        BY <3>2 DEF Proceed, Record, Tally, Tell, FinishStatus, FinishTime, Goto
      <4>2. UNCHANGED store
        BY <3>2 DEF Proceed, Record, Tally, Tell, FinishStatus, FinishTime
      <4> QED
        BY <1>1, <4>1, <4>2 DEF store, TypeOK
    <3>3. CASE (\E r \in Runs : Poll(r)) \/ AskRuns \/ ReadRow \/ Tick \/ UNCHANGED vars
      BY <3>3 DEF Poll, AskRuns, ReadRow, Tick, vars, run, store
    <3> QED
      BY <1>4, <3>1, <3>2, <3>3, RunsAssumption DEF Next, Enter
  <2>2. \A i \in DOMAIN created : created[i] \in Runs
    BY <1>1
  <2>3. /\ NoRunTwice(created)' <=> NoRunTwice(created)
        /\ Keeps(items, created)' <=> Keeps(items, created)
    BY <2>1 DEF NoRunTwice, Keeps, NoIdTwice, IdsAfter
  <2> QED
    BY <1>2, <2>1, <2>2, <2>3 DEF StoreInv
<1> QED
  BY <1>3, <1>4

LEMMA StoreInvHolds == Spec => []StoreInv
<1>1. Init => StoreInv
  BY TypeInvInit DEF Init, StoreInv, NoRunTwice, Keeps, NoIdTwice
<1> QED
  BY <1>1, StoreInvStep, PTL DEF Spec

\* _items, move_to_end and popitem: a run is found exactly as long as no run of
\* its id and fewer than MaxSize other ids were inserted after it, however many
\* results are inserted and in whatever order their ids come back.
THEOREM LatestAreKept == Spec => []StoreKeepsLatest
<1>1. ASSUME StoreInv, NEW i \in DOMAIN created
      PROVE  created[i] \in Range(items) <=>
               TriggerId[created[i]] \notin IdsAfter(created, i)
               /\ Cardinality(IdsAfter(created, i)) < MaxSize
  <2>1. created \in Seq(Runs) /\ items \in Seq(Runs) /\ Len(items) <= MaxSize /\ Len(items) \in Nat
    BY <1>1 DEF StoreInv, TypeInv, TypeOK
  <2>2. created[i] \in Range(items) <=> \E k \in DOMAIN items : items[k] = created[i]
    BY DEF Range
  <2>3. ASSUME NEW k \in DOMAIN items, items[k] = created[i]
        PROVE  TriggerId[created[i]] \notin IdsAfter(created, i)
               /\ Cardinality(IdsAfter(created, i)) < MaxSize
    <3>1. PICK h \in DOMAIN created :
            items[k] = created[h] /\ IdsAfter(created, h) = IdsAfter(items, k)
      BY <1>1 DEF StoreInv, Keeps
    <3>2. h = i
      BY <1>1, <2>3, <3>1 DEF StoreInv, NoRunTwice
    <3>3. NoIdTwice(items) /\ k \in 1..Len(items)
      BY <1>1, <2>1 DEF StoreInv, Keeps
    <3>4. Cardinality(IdsAfter(items, k)) = Len(items) - k
      BY <2>1, <3>3, IdsAfterIsFinite
    <3>5. TriggerId[items[k]] \notin IdsAfter(items, k)
      BY <2>1, <3>3 DEF NoIdTwice, IdsAfter
    <3> QED
      BY <2>1, <2>3, <3>1, <3>2, <3>3, <3>4, <3>5, BoundsAssumption
  <2>4. ASSUME ~ \E k \in DOMAIN items : items[k] = created[i]
        PROVE  ~ (TriggerId[created[i]] \notin IdsAfter(created, i)
                  /\ Cardinality(IdsAfter(created, i)) < MaxSize)
    <3>1. Cardinality(IdsAfter(created, i)) \in Nat
      BY <2>1, IdsAfterIsFinite
    <3> QED
      BY <1>1, <2>4, <3>1, BoundsAssumption DEF StoreInv, Keeps
  <2> QED
    BY <2>2, <2>3, <2>4
<1>2. StoreInv => StoreKeepsLatest
  BY <1>1 DEF StoreKeepsLatest, IdsAfter
<1> QED
  BY <1>2, StoreInvHolds, PTL

=============================================================================
