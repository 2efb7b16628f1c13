---------------------------- MODULE TriggerStore ----------------------------
(***************************************************************************)
(* TriggerStore and TriggerResult: what the process remembers of its runs. *)
(* Each run is a thread that creates its result, tallies decisions in it   *)
(* and finishes it; a dashboard polls one result, or the list of all of    *)
(* them, at any time.  Both classes have locks of their own.               *)
(***************************************************************************)
EXTENDS Naturals, Sequences, FiniteSets, SequencesExt

CONSTANTS
  Runs,          \* the runs of the process
  Free,          \* nobody holds the lock
  TriggerId,     \* the id a run is stored under; nameless deliveries share one
  MaxSize,       \* _max_size
  Limits,        \* how many runs a list may be cut to: 100 in GET /runs
  Followed,      \* bound: the runs that are polled and go on after their insertion
  MaxDecisions,  \* bound: decisions of a run
  MaxTime        \* bound: the clock

ASSUME RunsAssumption ==
  /\ IsFiniteSet(Runs)
  /\ Free \notin Runs
  /\ Followed \subseteq Runs

ASSUME BoundsAssumption ==
  /\ MaxSize \in Nat \ {0}
  /\ Limits \subseteq Nat
  /\ MaxDecisions \in Nat
  /\ MaxTime \in Nat

Verdicts == {"fix", "dismiss", "skip"}
NoVerdict == "none"  \* an unreadable file, an LLM error

VARIABLES
  pc,       \* where each run is
  now,      \* time.time()
  result,   \* the TriggerResult of each run
  holder,   \* who holds the result's _lock
  tallying, \* the verdict record_decision is busy with
  items,    \* _items: the stored runs, oldest insertion first
  created,  \* every insertion there was
  verdicts, \* the verdicts of each run, as the processor reached them
  asking,   \* the runs GET /runs has taken from the store and still has to read
  rows,     \* what it has read of them
  polled    \* the last answer of GET /process/<id> about each run

run == <<pc, result, holder, tallying, verdicts>>
store == <<items, created>>
reader == <<asking, rows, polled>>
vars == <<now, run, store, reader>>

Never == MaxTime + 1
Results == [status : {"processing", "ok", "error"}, startedAt : 0..Never, finishedAt : 0..Never,
            comments : Nat, tally : [Verdicts -> Nat], messages : Nat]
Fresh == [status |-> "processing", startedAt |-> Never, finishedAt |-> Never,
          comments |-> 0, tally |-> [v \in Verdicts |-> 0], messages |-> 0]

TypeOK ==
  /\ pc \in [Runs -> {"idle", "built", "working", "tallying", "telling", "finishing", "over"}]
  /\ now \in 0..MaxTime
  /\ result \in [Runs -> Results]
  /\ holder \in [Runs -> Runs \cup {Free}]
  /\ tallying \in [Runs -> Verdicts \cup {NoVerdict}]
  /\ items \in Seq(Runs) /\ Len(items) <= MaxSize
  /\ created \in Seq(Runs)
  /\ verdicts \in [Runs -> Seq(Verdicts \cup {NoVerdict})]
  /\ asking \in Seq(Runs)
  /\ rows \in Seq(Runs \X Results)
  /\ polled \in [Runs -> Results]

Init ==
  /\ pc = [r \in Runs |-> "idle"]
  /\ now = 0
  /\ result = [r \in Runs |-> Fresh]
  /\ holder = [r \in Runs |-> Free]
  /\ tallying = [r \in Runs |-> NoVerdict]
  /\ items = <<>>
  /\ created = <<>>
  /\ verdicts = [r \in Runs |-> <<>>]
  /\ asking = <<>>
  /\ rows = <<>>
  /\ polled = [r \in Runs |-> Fresh]

Goto(r, label) == pc' = [pc EXCEPT ![r] = label]
Take(r) == holder[r] = Free /\ holder' = [holder EXCEPT ![r] = r]
Give(r) == holder' = [holder EXCEPT ![r] = Free]

-----------------------------------------------------------------------------
(* TriggerStore.create *)

\* The result reads the clock when it is built, before the lock is taken.
Build(r) ==
  /\ pc[r] = "idle"
  /\ Goto(r, "built")
  /\ result' = [result EXCEPT ![r].startedAt = now]
  /\ UNCHANGED <<now, holder, tallying, verdicts, store, reader>>

\* A result of the same id is replaced, and the new one moved to the end.
StoredInPlace(r) == \* mutant: no move_to_end
  LET same(q) == TriggerId[q] = TriggerId[r] IN
  IF \E i \in DOMAIN items : same(items[i])
    THEN [i \in DOMAIN items |-> IF same(items[i]) THEN r ELSE items[i]]
    ELSE Append(items, r)
Stored(r) ==
  LET same == {i \in DOMAIN items : TriggerId[items[i]] = TriggerId[r]} IN
  Append(IF same = {} THEN items ELSE RemoveAt(items, CHOOSE i \in same : TRUE), r)

EvictNone(s) == s \* mutant: the store is unbounded
Evict(s) == IF Len(s) > MaxSize THEN Tail(s) ELSE s

Insert(r) ==
  /\ pc[r] = "built"
  /\ items' = Evict(Stored(r))
  /\ created' = Append(created, r)
  /\ Goto(r, "telling")
  /\ UNCHANGED <<now, result, holder, tallying, verdicts, reader>>

-----------------------------------------------------------------------------
(* TriggerResult: record_decision and finish *)

Record(r) ==
  /\ pc[r] = "working"
  /\ Len(verdicts[r]) < MaxDecisions
  /\ Take(r)
  /\ \E v \in Verdicts \cup {NoVerdict} :
       /\ tallying' = [tallying EXCEPT ![r] = v]
       /\ verdicts' = [verdicts EXCEPT ![r] = Append(@, v)]
  /\ result' = [result EXCEPT ![r].comments = @ + 1]
  /\ Goto(r, "tallying")
  /\ UNCHANGED <<now, store, reader>>

Tally(r) ==
  /\ pc[r] = "tallying"
  /\ result' = [result EXCEPT ![r].tally = [v \in Verdicts |->
       IF v = tallying[r] THEN @[v] + 1 ELSE @[v]]]
  /\ Give(r)
  /\ Goto(r, "telling")
  /\ UNCHANGED <<now, tallying, verdicts, store, reader>>

\* add_slack_message, about the outcome of the merge or a decision: one append
\* under the lock, or nothing if nothing was told or Slack gave no message id.
Tell(r) ==
  /\ pc[r] = "telling"
  /\ holder[r] = Free
  /\ \E ref \in {0, 1} : result' = [result EXCEPT ![r].messages = @ + ref]
  /\ Goto(r, "working")
  /\ UNCHANGED <<now, holder, tallying, verdicts, store, reader>>

\* finish sets the status first and the time last.
FinishStatus(r) ==
  /\ pc[r] = "working"
  /\ Take(r)
  /\ \E status \in {"ok", "error"} : result' = [result EXCEPT ![r].status = status]
  /\ Goto(r, "finishing")
  /\ UNCHANGED <<now, tallying, verdicts, store, reader>>

FinishTime(r) ==
  /\ pc[r] = "finishing"
  /\ result' = [result EXCEPT ![r].finishedAt = now]
  /\ Give(r)
  /\ Goto(r, "over")
  /\ UNCHANGED <<now, tallying, verdicts, store, reader>>

-----------------------------------------------------------------------------
(* Readers *)

ReadableUnlocked(r) == TRUE \* mutant: as_dict without the lock
Readable(r) == holder[r] = Free

\* GET /process/<id>: the store's lock, then the result's.
Poll(r) ==
  /\ r \in Range(items)
  /\ Readable(r)
  /\ polled' = [polled EXCEPT ![r] = result[r]]
  /\ UNCHANGED <<now, run, store, asking, rows>>

\* Newest first by start; Python's sort keeps the order of equal ones.
Earlier(i, j) ==
  \/ result[items[i]].startedAt > result[items[j]].startedAt
  \/ result[items[i]].startedAt = result[items[j]].startedAt /\ i < j
UnsortedItems == items \* mutant: the list is not sorted
NewestFirst ==
  [n \in DOMAIN items |->
     items[CHOOSE i \in DOMAIN items :
             Cardinality({j \in DOMAIN items : Earlier(j, i)}) = n - 1]]

Cut(s, limit) == SubSeq(s, 1, IF Len(s) < limit THEN Len(s) ELSE limit)

AskRuns ==
  /\ asking = <<>>
  /\ items # <<>>
  /\ \E limit \in Limits : asking' = Cut(NewestFirst, limit)
  /\ rows' = <<>>
  /\ UNCHANGED <<now, run, store, polled>>

\* Each result is read when its turn comes, under its own lock.
ReadRow ==
  /\ asking # <<>>
  /\ Readable(Head(asking))
  /\ rows' = Append(rows, <<Head(asking), result[Head(asking)]>>)
  /\ asking' = Tail(asking)
  /\ UNCHANGED <<now, run, store, polled>>

Tick ==
  /\ now < MaxTime
  /\ now' = now + 1
  /\ UNCHANGED <<run, store, reader>>

-----------------------------------------------------------------------------

Enter(r) == Build(r) \/ Insert(r)
Proceed(r) == Record(r) \/ Tally(r) \/ Tell(r) \/ FinishStatus(r) \/ FinishTime(r)

Next ==
  \/ \E r \in Runs : Enter(r)
  \/ \E r \in Followed : Proceed(r) \/ Poll(r)
  \/ AskRuns \/ ReadRow
  \/ Tick

Spec == Init /\ [][Next]_vars

-----------------------------------------------------------------------------
(* Properties *)

\* Count of the verdicts v among the first n of run r.
Count(r, n, v) == Cardinality({i \in 1..n : verdicts[r][i] = v})

\* What anybody reads of a run is a state the run was in between two decisions:
\* the counts of fixes, dismissals and skips are those of its first n verdicts,
\* the rest of the n had none, no message but that about the merge is there before
\* its decision is counted, and the run has a finishing time if it is finished.
Consistent(r, row) ==
  /\ row.messages <= row.comments + 1
  /\ row.comments <= Len(verdicts[r])
  /\ \A v \in Verdicts : row.tally[v] = Count(r, row.comments, v)
  /\ row.status # "processing" <=> row.finishedAt # Never

RowsAreConsistent ==
  /\ \A i \in DOMAIN rows : Consistent(rows[i][1], rows[i][2])
  /\ \A r \in Runs : Consistent(r, polled[r])

\* "Newest-first by started_at", and up to the limit: what GET /runs is about to
\* read is in that order, and no stored run that it leaves out started later than
\* one it shows, also when two runs are inserted in the opposite order to the one
\* in which they read the clock.
RunsNewestFirst ==
  [][asking = <<>> =>
       LET started(r) == result[r].startedAt IN
       /\ \A i, j \in DOMAIN asking' : i < j => started(asking'[i]) >= started(asking'[j])
       /\ asking' # <<>> =>
            \A q \in Range(asking'), r \in Range(items) \ Range(asking') :
              started(q) >= started(r)]_vars

\* "Oldest entries are evicted": a run is found exactly as long as no run of the
\* same id and fewer than MaxSize other ids have been inserted after it.
StoreKeepsLatest ==
  \A i \in DOMAIN created :
    LET later == {TriggerId[created[j]] : j \in {k \in DOMAIN created : k > i}} IN
    created[i] \in Range(items) <=>
      TriggerId[created[i]] \notin later /\ Cardinality(later) < MaxSize

\* For a dashboard that polls one run the counts only grow and the outcome, once
\* there, stays: the handler keeps no lock between its two reads.
PollsOnlyAdvance ==
  [][\A r \in Runs :
       /\ polled'[r].comments >= polled[r].comments
       /\ polled[r].status # "processing" => polled'[r] = polled[r]]_vars

=============================================================================
