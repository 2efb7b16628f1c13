--------------------------- MODULE Ingress_proofs ---------------------------
(***************************************************************************)
(* What is proved about Ingress for every set of deliveries, retention,    *)
(* pool size and environment.                                              *)
(***************************************************************************)
EXTENDS Ingress, FiniteSetTheorems, SequenceTheorems, TLAPS

-----------------------------------------------------------------------------
(* Types *)

\* A request is in hand exactly while the handler is busy; one without the
\* header is not inserted.
HandlerBusy ==
  /\ step # "free" => handling \in Deliveries /\ requests # 0
  /\ step = "inserted" => handling \notin Anonymous

TypeInv == TypeOK /\ HandlerBusy

LEMMA TypeInvInit == Init => TypeInv
<1> SUFFICES ASSUME Init PROVE TypeInv
  OBVIOUS
<1>1. 0 \in Times /\ 0 \in 0..MaxRequests
  BY BoundsAssumption DEF Times
<1>2. queue \in Seq(Requests \cup {Probe})
  BY EmptySeq DEF Init
<1>3. HandlerBusy
  BY DEF Init, HandlerBusy
<1>4. overloaded \in BOOLEAN /\ crashed \in BOOLEAN
  BY DEF Init
<1> QED
  BY <1>1, <1>2, <1>3, <1>4 DEF Init, TypeInv, TypeOK

LEMMA TypeInvHandler ==
  ASSUME TypeInv, (\E d \in Deliveries : Receive(d)) \/ Handle
  PROVE  TypeInv'
<1>1. CASE \E d \in Deliveries : Receive(d)
  BY <1>1, BoundsAssumption, DeliveriesAssumption
     DEF Receive, TypeInv, TypeOK, HandlerBusy, Claims, request, memory, ghosts, Times
<1>2. CASE Prune
  BY <1>2 DEF Prune, TypeInv, TypeOK, HandlerBusy, memory, ghosts
<1>3. CASE Ignore
  BY <1>3 DEF Ignore, TypeInv, TypeOK, HandlerBusy, memory, ghosts
<1>4. CASE Dispatch
  <2>1. requests \in Requests /\ handling \in Deliveries
    BY <1>4, BoundsAssumption DEF Dispatch, TypeInv, TypeOK, HandlerBusy, Requests
  <2>2. queue' \in Seq(Requests \cup {Probe})
    BY <1>4, <2>1 DEF Dispatch, TypeInv, TypeOK
  <2>3. dispatched' \subseteq [id : Deliveries, request : Requests, at : Times]
    BY <1>4, <2>1 DEF Dispatch, TypeInv, TypeOK
  <2>4. overloaded' \in BOOLEAN
    BY <1>4, Zenon DEF Dispatch, TypeInv, TypeOK
  <2> QED
    BY <1>4, <2>2, <2>3, <2>4 DEF Dispatch, TypeInv, TypeOK, HandlerBusy
<1> QED
  BY <1>1, <1>2, <1>3, <1>4 DEF Handle

LEMMA TypeInvPool ==
  ASSUME TypeInv,
         Start \/ AskHealth \/ \E n \in Requests : End(n) \/ EndBeforeLock(n) \/ Hang(n)
  PROVE  TypeInv'
<1>1. CASE Start
  <2>1. /\ Head(queue) \in Requests \cup {Probe}
        /\ Tail(queue) \in Seq(Requests \cup {Probe})
    BY <1>1, HeadTailProperties DEF Start, TypeInv, TypeOK
  <2> QED
    BY <1>1, <2>1 DEF Start, TypeInv, TypeOK, HandlerBusy, request, ghosts
<1>2. CASE AskHealth
  <2>1. queue' \in Seq(Requests \cup {Probe})
    BY <1>2 DEF AskHealth, TypeInv, TypeOK
  <2> QED
    BY <1>2, <2>1 DEF AskHealth, TypeInv, TypeOK, HandlerBusy, request, ghosts
<1>3. ASSUME NEW n \in Requests, End(n) \/ EndBeforeLock(n)
      PROVE  TypeInv'
  BY <1>3 DEF End, EndBeforeLock, Ends, TypeInv, TypeOK, HandlerBusy, request
<1>4. ASSUME NEW n \in Requests, Hang(n)
      PROVE  TypeInv'
  BY <1>4 DEF Hang, TypeInv, TypeOK, HandlerBusy, request, ghosts
<1> QED
  BY <1>1, <1>2, <1>3, <1>4

LEMMA TypeInvProcess ==
  ASSUME TypeInv, Crash \/ ProbeFailed \/ Tick \/ UNCHANGED vars
  PROVE  TypeInv'
<1>1. CASE Crash \/ ProbeFailed
  <2>1. Queued \subseteq Requests
    BY DEF Queued, TypeInv, TypeOK
  <2>2. queue' \in Seq(Requests \cup {Probe})
    BY <1>1, EmptySeq DEF Crash, ProbeFailed, Restart
  <2> QED
    BY <1>1, <2>1, <2>2 DEF Crash, ProbeFailed, Restart, TypeInv, TypeOK, HandlerBusy
<1>2. CASE Tick
  BY <1>2, BoundsAssumption
     DEF Tick, TypeInv, TypeOK, HandlerBusy, Times, request, memory, ghosts
<1>3. CASE UNCHANGED vars
  BY <1>3 DEF vars, TypeInv, TypeOK, HandlerBusy, request, memory, ghosts
<1> QED
  BY <1>1, <1>2, <1>3

LEMMA TypeInvHolds == Spec => []TypeInv
<1>1. TypeInv /\ [Next]_vars => TypeInv'
  BY TypeInvHandler, TypeInvPool, TypeInvProcess DEF Next
<1> QED
  BY TypeInvInit, <1>1, PTL DEF Spec

\* The type invariant, for every set of deliveries, pool and environment.
THEOREM Typing == Spec => []TypeOK
<1>1. TypeInv => TypeOK
  BY DEF TypeInv
<1> QED
  BY <1>1, TypeInvHolds, PTL

-----------------------------------------------------------------------------
(* Where the tasks are *)

\* The requests that have become tasks, if they have: the one in hand has not.
Handed(n) == n <= requests /\ (step # "free" => n < requests)

\* Each task is in one place: it waits, it is on a thread, or it has ended.
PlacesApart ==
  /\ \A i, j \in DOMAIN queue : queue[i] = queue[j] /\ queue[i] # Probe => i = j
  /\ Queued \cap (running \cup finished) = {}
  /\ running \cap finished = {}
  /\ \A n \in Queued \cup running \cup finished : Handed(n)
  /\ \A t \in dispatched : Handed(t.request)

LEMMA QueuedAppend ==
  ASSUME NEW n \in Requests \cup {Probe}, queue \in Seq(Requests \cup {Probe}),
         queue' = Append(queue, n)
  PROVE  Queued' = Queued \cup ({n} \ {Probe})
BY DEF Queued

LEMMA QueuedTail ==
  ASSUME queue \in Seq(Requests \cup {Probe}), queue # <<>>, queue' = Tail(queue)
  PROVE  /\ Queued' \subseteq Queued
         /\ Queued \subseteq Queued' \cup {Head(queue)}
         /\ Head(queue) \in Queued \cup {Probe}
         /\ \A i \in DOMAIN queue' : i + 1 \in DOMAIN queue /\ queue'[i] = queue[i + 1]
<1>1. /\ DOMAIN queue = 1..Len(queue) /\ Len(queue) \in Nat \ {0}
      /\ Head(queue) = queue[1]
  OBVIOUS
<1>2. /\ DOMAIN queue' = 1..(Len(queue) - 1)
      /\ \A i \in 1..(Len(queue) - 1) : queue'[i] = queue[i + 1]
  BY HeadTailProperties, <1>1
<1>3. ASSUME NEW i \in 2..Len(queue)
      PROVE  i - 1 \in DOMAIN queue' /\ queue'[i - 1] = queue[i]
  <2>1. i - 1 \in 1..(Len(queue) - 1) /\ (i - 1) + 1 = i
    BY <1>1
  <2> QED
    BY <1>2, <2>1
<1>4. Queued' \subseteq Queued
  BY <1>1, <1>2 DEF Queued
<1>5. \A i \in DOMAIN queue' : i + 1 \in DOMAIN queue /\ queue'[i] = queue[i + 1]
  BY <1>1, <1>2
<1>6. Head(queue) \in Queued \cup {Probe}
  <2>1. 1 \in DOMAIN queue
    BY <1>1
  <2> QED
    BY <1>1, <2>1 DEF Queued
<1>7. Queued \subseteq Queued' \cup {Head(queue)}
  <2>1. ASSUME NEW i \in DOMAIN queue, queue[i] # Probe
        PROVE  queue[i] \in Queued' \cup {Head(queue)}
    <3>1. CASE i = 1
      BY <1>1, <3>1
    <3>2. CASE i # 1
      <4>1. i \in 2..Len(queue)
        BY <1>1, <3>2
      <4> QED
        BY <1>3, <2>1, <4>1 DEF Queued
    <3> QED
      BY <3>1, <3>2
  <2> QED
    BY <2>1 DEF Queued
<1> QED
  BY <1>4, <1>7, <1>5, <1>6

LEMMA TasksAreRequests ==
  ASSUME TypeInv
  PROVE  Queued \cup running \cup finished \subseteq Requests
BY DEF TypeInv, TypeOK, Queued

\* The handler hands over a request that no task has yet.
LEMMA PlacesApartHandler ==
  ASSUME TypeInv, TypeInv', PlacesApart, (\E d \in Deliveries : Receive(d)) \/ Handle
  PROVE  PlacesApart'
<1> USE DEF TypeInv, TypeOK
<1>1. CASE \E d \in Deliveries : Receive(d)
  <2>1. /\ UNCHANGED <<queue, running, finished, dispatched>>
        /\ \A n \in Requests : Handed(n) => Handed(n)'
    BY <1>1 DEF Receive, Handed, Requests, request, memory, ghosts
  <2>2. Queued' = Queued
    BY <2>1 DEF Queued
  <2>3. \A t \in dispatched : t.request \in Requests
    OBVIOUS
  <2> QED
    BY <2>1, <2>2, <2>3, TasksAreRequests DEF PlacesApart
<1>2. CASE Prune \/ Ignore
  <2>1. /\ UNCHANGED <<queue, running, finished, dispatched>>
        /\ \A n \in Requests : Handed(n) => Handed(n)'
    BY <1>2 DEF Prune, Ignore, Handed, Requests, memory, ghosts
  <2>2. Queued' = Queued
    BY <2>1 DEF Queued
  <2>3. \A t \in dispatched : t.request \in Requests
    OBVIOUS
  <2> QED
    BY <2>1, <2>2, <2>3, TasksAreRequests DEF PlacesApart
<1>3. CASE Dispatch
  <2>1. /\ requests \in Requests /\ queue' = Append(queue, requests)
        /\ Queued' = Queued \cup {requests}
        /\ UNCHANGED <<requests, running, finished>>
    BY <1>3, BoundsAssumption, QueuedAppend
       DEF Dispatch, HandlerBusy, Requests, Probe
  <2>2. ~Handed(requests) /\ Handed(requests)'
    BY <1>3 DEF Dispatch, Handed
  <2>3. \A n \in Requests : Handed(n) => Handed(n)'
    BY <1>3 DEF Dispatch, Handed, Requests
  <2>4. requests \notin Queued \cup running \cup finished
    BY <2>2 DEF PlacesApart
  <2>5. ASSUME NEW i \in DOMAIN queue', NEW j \in DOMAIN queue',
               queue'[i] = queue'[j], queue'[i] # Probe
        PROVE  i = j
    <3>1. /\ DOMAIN queue = 1..Len(queue) /\ DOMAIN queue' = 1..(Len(queue) + 1)
          /\ Len(queue) \in Nat
          /\ \A k \in DOMAIN queue : queue'[k] = queue[k]
          /\ queue'[Len(queue) + 1] = requests
      BY <2>1
    <3>2. \A k \in DOMAIN queue : queue[k] # requests
      BY <2>1, <2>4 DEF Queued, Requests, Probe
    <3> QED
      BY <2>5, <3>1, <3>2 DEF PlacesApart
  <2>6. \A t \in dispatched' : Handed(t.request)'
    BY <1>3, <2>2, <2>3 DEF Dispatch, PlacesApart
  <2>7. \A n \in (Queued \cup running \cup finished)' : Handed(n)'
    BY <2>1, <2>2, <2>3, TasksAreRequests DEF PlacesApart
  <2> QED
    BY <2>1, <2>4, <2>5, <2>6, <2>7 DEF PlacesApart
<1> QED
  BY <1>1, <1>2, <1>3 DEF Handle

\* A task moves from the queue to a thread, and from there to its end.
LEMMA PlacesApartPool ==
  ASSUME TypeInv, TypeInv', PlacesApart,
         Start \/ AskHealth \/ \E n \in Requests : End(n) \/ EndBeforeLock(n) \/ Hang(n)
  PROVE  PlacesApart'
<1> USE DEF TypeInv, TypeOK
<1>1. CASE Start
  <2>1. /\ Queued' \subseteq Queued
        /\ Head(queue) \in Queued \cup {Probe}
        /\ \A i \in DOMAIN queue' : i + 1 \in DOMAIN queue /\ queue'[i] = queue[i + 1]
    BY <1>1, QueuedTail DEF Start
  <2>2. Head(queue) # Probe => Head(queue) \notin Queued'
    <3>1. SUFFICES ASSUME NEW i \in DOMAIN queue', queue'[i] = Head(queue), Head(queue) # Probe
                   PROVE  FALSE
      BY DEF Queued
    <3>2. /\ i + 1 \in DOMAIN queue /\ queue[i + 1] = queue[1] /\ queue[1] # Probe
          /\ 1 \in DOMAIN queue /\ i \in Nat \ {0}
      BY <1>1, <2>1, <3>1 DEF Start
    <3> QED
      BY <3>2 DEF PlacesApart
  <2>3. \A i, j \in DOMAIN queue' : queue'[i] = queue'[j] /\ queue'[i] # Probe => i = j
    <3>1. \A i \in DOMAIN queue' : i \in Nat
      BY <1>1 DEF Start
    <3> QED
      BY <2>1, <3>1 DEF PlacesApart
  <2>4. /\ running' = running \cup ({Head(queue)} \ {Probe})
        /\ UNCHANGED <<requests, step, finished, dispatched>>
    BY <1>1 DEF Start, request, ghosts
  <2>5. \A n : Handed(n) <=> Handed(n)'
    BY <2>4 DEF Handed
  <2> QED
    BY <2>1, <2>2, <2>3, <2>4, <2>5 DEF PlacesApart
<1>2. CASE AskHealth
  <2>1. /\ queue' = Append(queue, Probe) /\ Queued' = Queued
        /\ UNCHANGED <<requests, step, running, finished, dispatched>>
    BY <1>2, QueuedAppend DEF AskHealth, request, ghosts
  <2>2. \A i, j \in DOMAIN queue' : queue'[i] = queue'[j] /\ queue'[i] # Probe => i = j
    BY <2>1 DEF PlacesApart
  <2>3. \A n : Handed(n) <=> Handed(n)'
    BY <2>1 DEF Handed
  <2> QED
    BY <2>1, <2>2, <2>3 DEF PlacesApart
<1>3. ASSUME NEW n \in Requests, End(n) \/ EndBeforeLock(n)
      PROVE  PlacesApart'
  <2>1. /\ n \in running /\ running' = running \ {n} /\ finished' = finished \cup {n}
        /\ UNCHANGED <<requests, step, queue, dispatched>>
    BY <1>3 DEF End, EndBeforeLock, Ends, request
  <2> QED
    BY <2>1 DEF PlacesApart, Handed, Queued
<1>4. ASSUME NEW n \in Requests, Hang(n)
      PROVE  PlacesApart'
  BY <1>4 DEF Hang, PlacesApart, Handed, Queued, request, ghosts
<1> QED
  BY <1>1, <1>2, <1>3, <1>4

LEMMA PlacesApartProcess ==
  ASSUME TypeInv, TypeInv', PlacesApart, Crash \/ ProbeFailed \/ Tick \/ UNCHANGED vars
  PROVE  PlacesApart'
<1> USE DEF TypeInv, TypeOK
<1>1. CASE Crash \/ ProbeFailed
  <2>1. /\ queue' = <<>> /\ running' = {} /\ step' = "free"
        /\ UNCHANGED <<requests, finished, dispatched>>
    BY <1>1 DEF Crash, ProbeFailed, Restart
  <2>2. Queued' = {} /\ DOMAIN queue' = {}
    BY <2>1 DEF Queued
  <2>3. \A n : Handed(n) => Handed(n)'
    BY <2>1 DEF Handed
  <2> QED
    BY <2>1, <2>2, <2>3 DEF PlacesApart
<1>2. CASE Tick \/ UNCHANGED vars
  BY <1>2 DEF Tick, vars, PlacesApart, Handed, Queued, request, memory, ghosts
<1> QED
  BY <1>1, <1>2

LEMMA PlacesApartHolds == Spec => [](TypeInv /\ PlacesApart)
<1>1. Init => PlacesApart
  BY DEF Init, PlacesApart, Queued
<1>2. TypeInv /\ TypeInv' /\ PlacesApart /\ [Next]_vars => PlacesApart'
  BY PlacesApartHandler, PlacesApartPool, PlacesApartProcess DEF Next
<1> QED
  BY TypeInvHolds, <1>1, <1>2, PTL DEF Spec

-----------------------------------------------------------------------------
(* What a restart takes *)

\* As long as the threads never ran out there is one more of them than tasks.
Headroom ==
  /\ ~overloaded => Cardinality(running \cup Queued) < PoolSize
  /\ lost # {} => overloaded \/ crashed

LEMMA TasksAreFinite ==
  ASSUME TypeInv
  PROVE  /\ IsFiniteSet(running \cup Queued)
         /\ Cardinality(running \cup Queued) \in Nat
         /\ \A S \in SUBSET (running \cup Queued) :
              /\ Cardinality(S) \in Nat
              /\ Cardinality(S) <= Cardinality(running \cup Queued)
<1>1. IsFiniteSet(Requests)
  BY FS_Interval, BoundsAssumption DEF Requests
<1>2. running \cup Queued \subseteq Requests
  BY TasksAreRequests
<1>3. IsFiniteSet(running \cup Queued)
  BY <1>1, <1>2, FS_Subset
<1> QED
  BY <1>3, FS_Subset, FS_CardinalityType

LEMMA HeadroomStep ==
  ASSUME TypeInv, TypeInv', PlacesApart, Headroom, [Next]_vars
  PROVE  Headroom'
<1> DEFINE Tasks == running \cup Queued
<1>1. /\ IsFiniteSet(Tasks) /\ Cardinality(Tasks) \in Nat /\ PoolSize \in Nat
      /\ \A S \in SUBSET Tasks :
           Cardinality(S) \in Nat /\ Cardinality(S) <= Cardinality(Tasks)
  BY TasksAreFinite, BoundsAssumption
<1>2. ASSUME Tasks' \subseteq Tasks, UNCHANGED <<overloaded, lost, crashed>>
      PROVE  Headroom'
  <2>1. Cardinality(Tasks') \in Nat /\ Cardinality(Tasks') <= Cardinality(Tasks)
    BY <1>1, <1>2
  <2>2. ~overloaded => Cardinality(Tasks) < PoolSize
    BY DEF Headroom
  <2>3. overloaded' \/ Cardinality(Tasks') < PoolSize
    <3> HIDE DEF Tasks
    <3> QED
      BY <1>1, <1>2, <2>1, <2>2
  <2> QED
    BY <1>2, <2>3 DEF Headroom
<1>3. CASE (\E d \in Deliveries : Receive(d)) \/ Prune \/ Ignore \/ Tick \/ UNCHANGED vars
  <2>1. UNCHANGED <<queue, running, overloaded, lost, crashed>>
    BY <1>3 DEF Receive, Prune, Ignore, Tick, vars, memory, ghosts
  <2> QED
    BY <1>2, <2>1 DEF Queued
<1>4. CASE Dispatch
  <2>1. /\ requests \in Requests /\ queue \in Seq(Requests \cup {Probe})
        /\ queue' = Append(queue, requests) /\ running' = running /\ lost' = lost
        /\ crashed' = crashed
    BY <1>4, BoundsAssumption DEF Dispatch, TypeInv, TypeOK, HandlerBusy, Requests
  <2>2. Tasks' = Tasks \cup {requests}
    BY <2>1, QueuedAppend DEF Requests, Probe
  <2>3. running \ finished = running
    BY DEF PlacesApart
  <2>4. overloaded' <=> overloaded \/ Cardinality(Tasks) + 1 >= PoolSize
    BY <1>4, <2>3 DEF Dispatch
  <2>5. Cardinality(Tasks') \in Nat /\ Cardinality(Tasks') <= Cardinality(Tasks) + 1
    <3>1. IsFiniteSet(Tasks) /\ Cardinality(Tasks) \in Nat
      BY <1>1
    <3> HIDE DEF Tasks
    <3>2. Cardinality(Tasks \cup {requests}) =
            IF requests \in Tasks THEN Cardinality(Tasks) ELSE Cardinality(Tasks) + 1
      BY <3>1, FS_AddElement
    <3> QED
      BY <2>2, <3>1, <3>2
  <2>6. overloaded' \/ Cardinality(Tasks') < PoolSize
    <3> HIDE DEF Tasks
    <3> QED
      BY <1>1, <2>4, <2>5
  <2> QED
    BY <2>1, <2>4, <2>6 DEF Headroom
<1>5. CASE Start
  <2>1. Tasks' \subseteq Tasks
    BY <1>5, QueuedTail DEF Start, TypeInv, TypeOK
  <2> QED
    BY <1>2, <1>5, <2>1 DEF Start, ghosts
<1>6. CASE AskHealth
  <2>1. Tasks' = Tasks
    BY <1>6, QueuedAppend DEF AskHealth, TypeInv, TypeOK
  <2> QED
    BY <1>2, <1>6, <2>1 DEF AskHealth, ghosts
<1>7. CASE \E n \in Requests : End(n) \/ EndBeforeLock(n) \/ Hang(n)
  <2>1. Tasks' \subseteq Tasks /\ UNCHANGED <<overloaded, lost, crashed>>
    BY <1>7 DEF End, EndBeforeLock, Ends, Hang, Queued, ghosts
  <2> QED
    BY <1>2, <2>1
<1>8. CASE Crash
  <2>1. Tasks' = {} /\ crashed' = TRUE
    BY <1>8 DEF Crash, Restart, Queued
  <2>2. Cardinality(Tasks') < PoolSize
    BY <2>1, FS_EmptySet, BoundsAssumption
  <2> QED
    BY <2>1, <2>2 DEF Headroom
<1>9. CASE ProbeFailed
  \* Every thread was taken, so they had run out.
  <2>1. Cardinality(running) >= PoolSize
    BY <1>1, <1>9 DEF ProbeFailed, ThreadFree
  <2>2. overloaded
    BY <1>1, <2>1 DEF Headroom
  <2> QED
    BY <1>9, <2>2 DEF ProbeFailed, Restart, Headroom
<1> QED
  BY <1>3, <1>4, <1>5, <1>6, <1>7, <1>8, <1>9 DEF Next, Handle

\* A restart takes accepted work only after a crash, or after as many tasks as
\* there are threads were on their way at once: whatever the size of the pool.
THEOREM WorkIsKept == Spec => []LostOnlyWhenOverloaded
<1>1. Init => Headroom
  <2>1. ASSUME Init PROVE running \cup Queued = {} /\ lost = {}
    BY <2>1 DEF Init, Queued
  <2> QED
    BY <2>1, FS_EmptySet, BoundsAssumption DEF Headroom
<1>2. TypeInv /\ TypeInv' /\ PlacesApart /\ Headroom /\ [Next]_vars => Headroom'
  BY HeadroomStep
<1>3. Headroom => LostOnlyWhenOverloaded
  BY DEF Headroom, LostOnlyWhenOverloaded
<1> QED
  BY PlacesApartHolds, <1>1, <1>2, <1>3, PTL DEF Spec

-----------------------------------------------------------------------------
(* No delivery twice *)

\* What was dispatched is in the table, under a claim as late, or is older than
\* the retention and then may have been pruned.
Outdated(t) == t.at + Retention < receivedAt

Remembered(t) ==
  \/ \E c \in claims : c.id = t.id /\ c.at >= t.at
  \/ Outdated(t)

\* The request in hand holds a claim that its own pruning cannot reach, and what
\* was dispatched for the same delivery is outdated.
HandlerClaims ==
  step # "free" /\ handling \notin Anonymous =>
    /\ [id |-> handling, at |-> receivedAt] \in claims
    /\ \A t \in dispatched : t.id = handling => Outdated(t)

DedupeInv ==
  /\ receivedAt <= now
  /\ \A t \in dispatched : t.id \notin Anonymous => Remembered(t)
  /\ HandlerClaims
  /\ DispatchedApart

\* A claim is taken only where none is held, so where all is outdated.
LEMMA DedupeReceive ==
  ASSUME TypeInv, DedupeInv, NEW d \in Deliveries, Receive(d)
  PROVE  DedupeInv'
<1> USE DEF TypeInv, TypeOK
<1>1. /\ receivedAt' \in {receivedAt, now} /\ now' = now /\ dispatched' = dispatched
      /\ claims \subseteq claims'
  BY DEF Receive, request, ghosts
<1>2. /\ receivedAt \in Nat /\ now \in Nat /\ receivedAt <= now /\ Retention \in Nat
      /\ \A t \in dispatched : t.at \in Nat
  BY BoundsAssumption DEF DedupeInv, Times
<1>3. \A t \in dispatched : Outdated(t) => Outdated(t)'
  BY <1>1, <1>2 DEF Outdated
<1>4. \A t \in dispatched : t.id \notin Anonymous => Remembered(t)'
  BY <1>1, <1>3 DEF DedupeInv, Remembered
<1>5. HandlerClaims'
  <2>1. CASE d \in Anonymous
    BY <2>1 DEF Receive, HandlerClaims
  <2>2. CASE d \notin Anonymous /\ Known(d)
    BY <1>3, <2>2 DEF Receive, request, ghosts, DedupeInv, HandlerClaims
  <2>3. CASE d \notin Anonymous /\ ~Known(d)
    <3>1. \A t \in dispatched : t.id = d => Outdated(t)
      BY <2>3 DEF DedupeInv, Remembered, Known
    <3>2. handling' = d /\ [id |-> handling', at |-> receivedAt'] \in claims'
      BY <2>3 DEF Receive
    <3> QED
      BY <1>1, <1>3, <3>1, <3>2 DEF HandlerClaims
  <2> QED
    BY <2>1, <2>2, <2>3
<1> QED
  BY <1>1, <1>2, <1>4, <1>5 DEF DedupeInv, DispatchedApart

LEMMA DedupePrune ==
  ASSUME TypeInv, DedupeInv, Prune
  PROVE  DedupeInv'
<1> USE DEF TypeInv, TypeOK
<1>1. /\ UNCHANGED <<now, receivedAt, handling, dispatched>> /\ step # "free"
      /\ claims' = {c \in claims : ~Expired(c)}
  BY DEF Prune, ghosts
<1>2. /\ receivedAt \in Nat /\ Retention \in Nat
      /\ \A t \in dispatched : t.at \in Nat
      /\ \A c \in claims : c.at \in Nat
  BY BoundsAssumption DEF Times, Claims
<1>3. \A t \in dispatched : Outdated(t) <=> Outdated(t)'
  BY <1>1 DEF Outdated
<1>4. \A t \in dispatched : Remembered(t) => Remembered(t)'
  <2>1. ASSUME NEW t \in dispatched, NEW c \in claims, c.id = t.id, c.at >= t.at
        PROVE  Remembered(t)'
    <3>1. Expired(c) => Outdated(t)
      BY <1>2, <2>1 DEF Expired, Outdated
    <3> QED
      BY <1>1, <1>3, <2>1, <3>1 DEF Remembered
  <2> QED
    BY <1>3, <2>1 DEF Remembered
<1>5. HandlerClaims'
  <2>1. ~Expired([id |-> handling, at |-> receivedAt])
    BY <1>2 DEF Expired
  <2> QED
    BY <1>1, <1>3, <2>1 DEF DedupeInv, HandlerClaims
<1> QED
  BY <1>1, <1>4, <1>5 DEF DedupeInv, DispatchedApart

LEMMA DedupeDispatch ==
  ASSUME TypeInv, PlacesApart, DedupeInv, Dispatch
  PROVE  DedupeInv'
<1> USE DEF TypeInv, TypeOK
<1> DEFINE new == [id |-> handling, request |-> requests, at |-> receivedAt]
<1>1. /\ UNCHANGED <<now, receivedAt, claims>> /\ step' = "free" /\ step # "free"
      /\ dispatched' = dispatched \cup {new}
  BY DEF Dispatch
<1>2. /\ receivedAt \in Nat /\ Retention \in Nat /\ requests \in Nat
      /\ \A t \in dispatched : t.at \in Nat /\ t.request \in Nat
  BY BoundsAssumption DEF Times, Requests
<1>3. handling \notin Anonymous => Remembered(new)
  BY <1>1, <1>2 DEF DedupeInv, HandlerClaims, Remembered
<1>4. \A t : Remembered(t) => Remembered(t)'
  BY <1>1 DEF Remembered, Outdated
<1>5. \A t \in dispatched' : t.id \notin Anonymous => Remembered(t)'
  BY <1>1, <1>3, <1>4 DEF DedupeInv
<1>6. DispatchedApart'
  <2>1. \A t \in dispatched : t.request < requests
    BY <1>1 DEF PlacesApart, Handed
  <2>2. handling \notin Anonymous =>
          \A t \in dispatched : t.id = handling => t.at + Retention < receivedAt
    BY <1>1 DEF DedupeInv, HandlerClaims, Outdated
  <2>3. SUFFICES ASSUME NEW s \in dispatched', NEW t \in dispatched',
                        s.id = t.id, s.id \notin Anonymous, s.request < t.request
                 PROVE  t.at > s.at + Retention
    BY DEF DispatchedApart
  <2>4. CASE s = new
    BY <1>1, <1>2, <2>1, <2>3, <2>4
  <2>5. CASE s \in dispatched /\ t = new
    BY <1>2, <2>2, <2>3, <2>5
  <2>6. CASE s \in dispatched /\ t \in dispatched
    BY <2>3, <2>6 DEF DedupeInv, DispatchedApart
  <2> QED
    BY <1>1, <2>4, <2>5, <2>6
<1> QED
  BY <1>1, <1>5, <1>6 DEF DedupeInv, HandlerClaims

\* Whatever else happens leaves the table alone: a restart forgets the handler.
LEMMA DedupeOther ==
  ASSUME TypeInv, DedupeInv,
         \/ Ignore \/ Start \/ AskHealth \/ Crash \/ ProbeFailed \/ Tick \/ UNCHANGED vars
         \/ \E n \in Requests : End(n) \/ EndBeforeLock(n) \/ Hang(n)
  PROVE  DedupeInv'
<1>1. /\ UNCHANGED <<claims, receivedAt, dispatched>> /\ now' >= now
      /\ step' = "free" \/ UNCHANGED <<step, handling>>
  <2>1. now \in Nat
    BY BoundsAssumption DEF TypeInv, TypeOK, Times
  <2> QED
    BY <2>1 DEF Ignore, Start, AskHealth, Crash, ProbeFailed, Restart, Tick, vars, End,
                EndBeforeLock, Ends, Hang, request, memory, ghosts
<1>2. receivedAt' <= now'
  <2>1. TypeInv'
    BY TypeInvHandler, TypeInvPool, TypeInvProcess DEF Handle
  <2>2. receivedAt \in Nat /\ now \in Nat /\ now' \in Nat
    BY <2>1, BoundsAssumption DEF TypeInv, TypeOK, Times
  <2> QED
    BY <1>1, <2>2 DEF DedupeInv
<1>3. \A t \in dispatched : Remembered(t) => Remembered(t)'
  BY <1>1 DEF Remembered, Outdated
<1>4. HandlerClaims'
  BY <1>1 DEF DedupeInv, HandlerClaims, Outdated
<1> QED
  BY <1>1, <1>2, <1>3, <1>4 DEF DedupeInv, DispatchedApart

\* No delivery is dispatched twice within the retention: however the requests,
\* the prunings, the crashes and the restarts by the probe fall.
THEOREM NoDoubleDispatch == Spec => []DispatchedApart
<1>1. Init => DedupeInv
  <2>1. 0 <= 0
    OBVIOUS
  <2> QED
    BY <2>1 DEF Init, DedupeInv, HandlerClaims, DispatchedApart
<1>2. TypeInv /\ PlacesApart /\ DedupeInv /\ [Next]_vars => DedupeInv'
  BY DedupeReceive, DedupePrune, DedupeDispatch, DedupeOther DEF Next, Handle
<1>3. DedupeInv => DispatchedApart
  BY DEF DedupeInv
<1> QED
  BY PlacesApartHolds, <1>1, <1>2, <1>3, PTL DEF Spec

=============================================================================
