------------------------------ MODULE Ingress ------------------------------
(***************************************************************************)
(* The way of a webhook delivery into the process: the /webhook handler,   *)
(* DeliveryStore.claim and its pruning, the background task and the thread *)
(* pool it shares with the synchronous endpoints, /health among them.  The *)
(* pool, the probes of the kubelet and GitHub's redeliveries are external. *)
(***************************************************************************)
EXTENDS Naturals, FiniteSets, Sequences

CONSTANTS
  Deliveries,   \* the X-GitHub-Delivery identifiers
  NoDelivery,   \* the handler is not working on any
  Anonymous,    \* deliveries that come without the header
  Unreadable,   \* deliveries whose body is not a JSON object
  WithJobs,     \* deliveries extract_jobs finds work in
  Retention,    \* RETENTION_SECONDS
  PoolSize,     \* threads of the pool that runs tasks and synchronous endpoints
  MaxTime,      \* bound: the clock
  MaxRequests,  \* bound: webhook requests
  Environment   \* what may happen to the process

ASSUME DeliveriesAssumption ==
  /\ IsFiniteSet(Deliveries)
  /\ NoDelivery \notin Deliveries
  /\ Anonymous \subseteq Deliveries
  /\ Unreadable \subseteq Deliveries
  /\ WithJobs \subseteq Deliveries

ASSUME BoundsAssumption ==
  /\ Retention \in Nat
  /\ PoolSize \in Nat \ {0}
  /\ MaxTime \in Nat
  /\ MaxRequests \in Nat

\* crash: the process ends and is started again.  probe: the kubelet asks for
\* /health, and restarts the container when there is no answer.  hang: a git
\* command does not return; none has a timeout.
ASSUME EnvironmentAssumption == Environment \subseteq {"crash", "probe", "hang"}

VARIABLES
  now,        \* time.time()
  claims,     \* the deliveries table: identifier and received_at
  requests,   \* how many webhook requests have come in
  handling,   \* the delivery of the request the event loop is handling
  receivedAt, \* the time at which that request came in
  step,       \* where the handler is: "free", "inserted", "claimed"
  queue,      \* calls waiting for a thread: requests, and Probe for /health
  running,    \* the tasks on the threads, one of them inside _PROCESS_LOCK
  hung,       \* that one, when git does not return to it
  dispatched, \* what was answered with 202
  finished,   \* the tasks that ended
  lost,       \* the tasks a restart has taken with it
  overloaded, \* whether every thread has ever been busy or spoken for
  crashed     \* whether the process has crashed

memory == <<queue, running, hung>>
ghosts == <<dispatched, finished, lost, overloaded, crashed>>
request == <<handling, receivedAt, step>>
vars == <<now, claims, requests, request, memory, ghosts>>

Times == 0..MaxTime
Requests == 1..MaxRequests
Probe == 0
Claims == [id : Deliveries, at : Times]

TypeOK ==
  /\ now \in Times
  /\ claims \subseteq Claims
  /\ requests \in 0..MaxRequests
  /\ handling \in Deliveries \cup {NoDelivery}
  /\ receivedAt \in Times
  /\ step \in {"free", "inserted", "claimed"}
  /\ queue \in Seq(Requests \cup {Probe})
  /\ running \subseteq Requests
  /\ hung \subseteq running
  /\ dispatched \subseteq [id : Deliveries, request : Requests, at : Times]
  /\ finished \subseteq Requests
  /\ lost \subseteq Requests
  /\ overloaded \in BOOLEAN
  /\ crashed \in BOOLEAN

Init ==
  /\ now = 0
  /\ claims = {}
  /\ requests = 0
  /\ handling = NoDelivery
  /\ receivedAt = 0
  /\ step = "free"
  /\ queue = <<>>
  /\ running = {}
  /\ hung = {}
  /\ dispatched = {}
  /\ finished = {}
  /\ lost = {}
  /\ overloaded = FALSE
  /\ crashed = FALSE

Queued == {queue[i] : i \in DOMAIN queue} \ {Probe}

-----------------------------------------------------------------------------
(* The handler: one request at a time, the event loop does not let go of it *)

\* The primary key refuses an identifier that is there, however old.
Known(d) == \E c \in claims : c.id = d

\* A delivery without the header is not claimed at all.
Receive(d) ==
  /\ step = "free"
  /\ requests < MaxRequests
  /\ requests' = requests + 1
  /\ IF d \in Anonymous
       THEN /\ step' = "claimed"
            /\ handling' = d
            /\ receivedAt' = now
            /\ UNCHANGED claims
       ELSE IF Known(d)
         THEN UNCHANGED <<claims, request>>
         ELSE /\ claims' = claims \cup {[id |-> d, at |-> now]}
              /\ step' = "inserted"
              /\ handling' = d
              /\ receivedAt' = now
  /\ UNCHANGED <<now, memory, ghosts>>

Expired(c) == c.at + Retention < receivedAt

\* The DELETE is a transaction of its own.
Prune ==
  /\ step = "inserted"
  /\ claims' = {c \in claims : ~Expired(c)}
  /\ step' = "claimed"
  /\ UNCHANGED <<now, requests, handling, receivedAt, memory, ghosts>>

\* 400 invalid_json, or 200 ignored: extract_jobs finds nothing to do.
Ignore ==
  /\ step = "claimed"
  /\ handling \in Unreadable \/ handling \notin WithJobs
  /\ step' = "free"
  /\ handling' = NoDelivery
  /\ UNCHANGED <<now, claims, requests, receivedAt, memory, ghosts>>

DispatchByName == \* mutant: the task is queued as its delivery
  /\ step = "claimed"
  /\ handling \in WithJobs \ Unreadable
  /\ queue' = Append(queue, handling)
  /\ dispatched' = dispatched \cup {[id |-> handling, request |-> requests, at |-> receivedAt]}
  /\ overloaded' = (overloaded \/ Cardinality((running \ finished) \cup Queued) + 1 >= PoolSize)
  /\ step' = "free"
  /\ handling' = NoDelivery
  /\ UNCHANGED <<now, claims, requests, receivedAt, running, hung, finished, lost, crashed>>

DispatchCoalesced == \* mutant: a delivery is taken to be served by the task that waits
  /\ step = "claimed"
  /\ handling \in WithJobs \ Unreadable
  /\ queue' = IF Queued = {} THEN Append(queue, requests) ELSE queue
  /\ dispatched' = dispatched \cup {[id |-> handling, request |-> requests, at |-> receivedAt]}
  /\ overloaded' = (overloaded \/ Cardinality((running \ finished) \cup Queued) + 1 >= PoolSize)
  /\ step' = "free"
  /\ handling' = NoDelivery
  /\ UNCHANGED <<now, claims, requests, receivedAt, running, hung, finished, lost, crashed>>

\* add_task and 202 Accepted.
Dispatch ==
  /\ step = "claimed"
  /\ handling \in WithJobs \ Unreadable
  /\ queue' = Append(queue, requests)
  /\ dispatched' = dispatched \cup {[id |-> handling, request |-> requests, at |-> receivedAt]}
  /\ overloaded' = (overloaded \/ Cardinality((running \ finished) \cup Queued) + 1 >= PoolSize)
  /\ step' = "free"
  /\ handling' = NoDelivery
  /\ UNCHANGED <<now, claims, requests, receivedAt, running, hung, finished, lost, crashed>>

-----------------------------------------------------------------------------
(* The thread pool *)

ThreadFree == Cardinality(running) < PoolSize

\* Threads are given out in the order they were asked for.  A task keeps its
\* thread while it waits for _PROCESS_LOCK; a probe is answered at once.
Start ==
  /\ queue # <<>>
  /\ ThreadFree
  /\ running' = running \cup ({Head(queue)} \ {Probe})
  /\ queue' = Tail(queue)
  /\ UNCHANGED <<now, claims, requests, request, hung, ghosts>>

\* _run_jobs catches every exception: the thread goes back to the pool.
EndKeepingThread(n) == \* mutant: an exception takes the thread with it
  /\ n \in running \ finished
  /\ hung = {}
  /\ finished' = finished \cup {n}
  /\ UNCHANGED <<now, claims, requests, request, memory, dispatched, lost, overloaded, crashed>>

Ends(n) ==
  /\ n \in running
  /\ running' = running \ {n}
  /\ finished' = finished \cup {n}
  /\ UNCHANGED <<now, claims, requests, request, queue, hung, dispatched, lost, overloaded, crashed>>

End(n) == hung = {} /\ Ends(n)

\* A task with nothing to do does not get to the lock; the others wait for it.
EndBeforeLock(n) == hung # {} /\ n \notin hung /\ Ends(n)

Hang(n) ==
  /\ "hang" \in Environment
  /\ n \in running
  /\ hung = {}
  /\ hung' = {n}
  /\ UNCHANGED <<now, claims, requests, request, queue, running, ghosts>>

\* health() is a plain function: it needs a thread.
AskHealthAsync == \* mutant: an async function, answered by the event loop
  /\ "probe" \in Environment
  /\ UNCHANGED vars

AskHealth ==
  /\ "probe" \in Environment
  /\ \A i \in DOMAIN queue : queue[i] # Probe
  /\ queue' = Append(queue, Probe)
  /\ UNCHANGED <<now, claims, requests, request, running, hung, ghosts>>

-----------------------------------------------------------------------------
(* Restarts and time *)

\* The table is on a volume, the tasks are in memory.
RestartForgetting == \* mutant: the database is not on the volume
  /\ claims' = {}
  /\ handling' = NoDelivery
  /\ step' = "free"
  /\ queue' = <<>>
  /\ running' = {}
  /\ hung' = {}
  /\ lost' = lost \cup Queued \cup running
  /\ UNCHANGED <<now, requests, receivedAt, dispatched, finished, overloaded>>

Restart ==
  /\ handling' = NoDelivery
  /\ step' = "free"
  /\ queue' = <<>>
  /\ running' = {}
  /\ hung' = {}
  /\ lost' = lost \cup Queued \cup running
  /\ UNCHANGED <<now, claims, requests, receivedAt, dispatched, finished, overloaded>>

Crash ==
  /\ "crash" \in Environment
  /\ Restart
  /\ crashed' = TRUE

\* /health finds no free thread for longer than the probe allows.
ProbeFailed ==
  /\ ~ThreadFree
  /\ \E i \in DOMAIN queue : queue[i] = Probe
  /\ Restart
  /\ UNCHANGED crashed

Tick ==
  /\ now < MaxTime
  /\ now' = now + 1
  /\ UNCHANGED <<claims, requests, request, memory, ghosts>>

-----------------------------------------------------------------------------

Handle == Prune \/ Ignore \/ Dispatch

Next ==
  \/ \E d \in Deliveries : Receive(d)
  \/ Handle
  \/ Start
  \/ \E n \in Requests : End(n) \/ EndBeforeLock(n) \/ Hang(n)
  \/ AskHealth
  \/ Crash \/ ProbeFailed
  \/ Tick

Spec == Init /\ [][Next]_vars

\* The event loop and the pool go on, every task that is not behind a hung one
\* ends (StartedRunsEnd of PrProcessing), and the kubelet keeps probing.
FairSpec ==
  /\ Spec
  /\ WF_vars(Handle) /\ WF_vars(Start) /\ \A n \in Requests : WF_vars(End(n))
  /\ WF_vars(AskHealth) /\ WF_vars(ProbeFailed)

-----------------------------------------------------------------------------
(* Properties *)

\* README: "Delivery dedupe is persisted in SQLite on a PVC so GitHub webhook
\* retries can't double-commit across pod restarts".  Two tasks for the same
\* delivery are more than the retention apart, wherever the process crashes.
DispatchedApart ==
  \A s, t \in dispatched :
    s.id = t.id /\ s.id \notin Anonymous /\ s.request < t.request =>
      t.at > s.at + Retention

\* Work that was accepted is given up by the process only if it crashed or if,
\* at some time, as many tasks as there are threads were on their way: then
\* /health waits behind them and the liveness probe restarts the container.
LostOnlyWhenOverloaded ==
  lost # {} => overloaded \/ crashed

\* A delivery that got its 202 is run to its end, unless a restart takes it or
\* a run hangs.
AcceptedIsRun ==
  \A n \in Requests :
    (\E t \in dispatched : t.request = n) ~> n \in finished \cup lost \/ hung # {}

\* Nothing in the code ends a git command that hangs, and every later run waits
\* for the lock behind it.  What does is the liveness probe, and only because
\* /health needs a thread of the same pool: once the waiting runs have taken
\* all of them, the container is restarted.
HungIsEnded ==
  ~ThreadFree /\ hung # {} ~> ThreadFree \/ hung = {}

=============================================================================
