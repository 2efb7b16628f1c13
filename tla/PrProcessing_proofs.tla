------------------------ MODULE PrProcessing_proofs -------------------------
(***************************************************************************)
(* What is proved about PrProcessing for every set of runs, every pull     *)
(* request, every setting and every environment.                           *)
(***************************************************************************)
EXTENDS PrProcessing, FiniteSetTheorems, SequenceTheorems, TLAPS

-----------------------------------------------------------------------------
(* Lists of comments *)

\* The ordered list of a set of comments is a sequence of comments.
LEMMA AscendingType ==
  ASSUME NEW S, S \subseteq Ids, NEW s \in Ascending(S)
  PROVE  s \in Seq(Ids)
<1>1. IsFiniteSet(Ids)
  BY CommentsAssumption, FS_Interval DEF Ids
<1>2. Cardinality(S) \in Nat
  BY <1>1, FS_Subset, FS_CardinalityType
<1>3. s \in [1..Cardinality(S) -> S]
  BY DEF Ascending
<1> QED
  BY <1>2, <1>3

\* Cutting a list down keeps it a list of the same things.
LEMMA FirstNType ==
  ASSUME NEW T, NEW s \in Seq(T), NEW n \in Nat
  PROVE  FirstN(s, n) \in Seq(T)
<1> DEFINE m == IF Len(s) < n THEN Len(s) ELSE n
<1>1. m \in Int /\ \A i \in 1..m : s[i] \in T
  OBVIOUS
<1> QED
  BY <1>1, SubSeqProperties DEF FirstN

\* Every comment, and every reply of ours, is in a thread a comment starts.
LEMMA ThreadOfType ==
  ASSUME NEW c \in Ids
  PROVE  ThreadOf(c) \in Comments
BY CommentsAssumption DEF ThreadOf, Ids, Comments

LEMMA ListedType ==
  ASSUME TypeOK
  PROVE  Listed \subseteq Ids
<1>1. Comments \subseteq Ids
  BY CommentsAssumption DEF Comments, Ids
<1>2. ASSUME NEW p \in posts
      PROVE  NumComments + ThreadOf(p.comment) \in Ids
  <2>1. ThreadOf(p.comment) \in Comments
    BY ThreadOfType DEF TypeOK
  <2> QED
    BY <2>1, CommentsAssumption DEF Comments, Ids
<1> QED
  BY <1>1, <1>2 DEF Listed

\* Whatever a run starts from is a list of comments.
LEMMA DeliveredType ==
  ASSUME NEW r \in Runs, NEW s \in Ascending(Delivered[r] \cap BotAuthored)
  PROVE  FirstN(s, MaxComments) \in Seq(Ids)
<1>1. Delivered[r] \cap BotAuthored \subseteq Ids
  BY RunsAssumption, CommentsAssumption DEF Comments, Ids
<1>2. s \in Seq(Ids)
  BY <1>1, AscendingType
<1> QED
  BY <1>2, FirstNType, SettingsAssumption

LEMMA ActionableType ==
  ASSUME TypeOK, NEW s \in Ascending({c \in Listed : Actionable(c)})
  PROVE  s \in Seq(Ids)
<1>1. {c \in Listed : Actionable(c)} \subseteq Ids
  BY ListedType
<1> QED
  BY <1>1, AscendingType

-----------------------------------------------------------------------------
(* Types *)

\* A run that is about to resolve a thread has the reply it belongs to.
ReplyAtHand == \A r \in Runs : pc[r] = "resolve" => HasReply(r)

TypeInv == TypeOK /\ ReplyAtHand

LEMMA TypeInvInit == Init => TypeInv
BY SMTT(30) DEF Init, TypeInv, TypeOK, ReplyAtHand

LEMMA FinishType ==
  ASSUME TypeInv, NEW r \in Runs, NEW status \in Ended, Finish(r, status)
  PROVE  /\ pc' \in [Runs -> {"idle", "waiting"} \cup Critical \cup Ended]
         /\ lock' \in Runs \cup {NoRun}
         /\ todo' \in [Runs -> Seq(Ids)]
         /\ at' \in [Runs -> Nat \ {0}]
         /\ pending' \in [Runs -> Seq(PendingItems)]
         /\ clone' \in [Runs -> SUBSET Commits]
         /\ replies' \in [Runs -> Seq(PendingReplies)]
         /\ ReplyAtHand'
<1>1. pc' = [pc EXCEPT ![r] = status]
  BY DEF Finish, Goto
<1>2. pc' \in [Runs -> {"idle", "waiting"} \cup Critical \cup Ended]
  BY <1>1 DEF TypeInv, TypeOK
<1>3. lock' \in Runs \cup {NoRun}
  BY DEF Finish, Released, TypeInv, TypeOK
<1>4. todo' \in [Runs -> Seq(Ids)] /\ replies' \in [Runs -> Seq(PendingReplies)]
  BY DEF Finish, TypeInv, TypeOK
<1>5. pending' \in [Runs -> Seq(PendingItems)]
  BY DEF Finish, TypeInv, TypeOK
<1>6. at' \in [Runs -> Nat \ {0}] /\ clone' \in [Runs -> SUBSET Commits]
  BY DEF Finish, Restart, TypeInv, TypeOK
<1>7. ReplyAtHand'
  BY <1>1 DEF Finish, Restart, TypeInv, TypeOK, ReplyAtHand, HasReply, Ended
<1> QED
  BY <1>2, <1>3, <1>4, <1>5, <1>6, <1>7

\* What the two lookup loops add to pending.
LEMMA ReadThreadType ==
  ASSUME TypeInv, NEW r \in Runs, at[r] <= Len(todo[r]), ReadThread(r)
  PROVE  /\ pending' \in [Runs -> Seq(PendingItems)]
         /\ at' \in [Runs -> Nat \ {0}]
<1> DEFINE c == todo[r][at[r]]
<1>1. c \in Ids
  BY DEF TypeInv, TypeOK
<1>2. PICK view \in ThreadViews(c) : pending' = [pending EXCEPT ![r] =
        IF view = "resolved" THEN @ ELSE Append(@, [comment |-> c, thread |-> view])]
  BY DEF ReadThread
<1>3. view # "resolved" => [comment |-> c, thread |-> view] \in PendingItems
  BY <1>1, <1>2 DEF ThreadViews, PendingItems
<1>4. pending' \in [Runs -> Seq(PendingItems)]
  BY <1>2, <1>3 DEF TypeInv, TypeOK
<1>5. at' \in [Runs -> Nat \ {0}]
  BY DEF ReadThread, Advance, TypeInv, TypeOK
<1> QED
  BY <1>4, <1>5

\* What a verdict adds to the replies.
LEMMA QueueType ==
  ASSUME TypeInv, NEW r \in Runs, NEW d \in Decisions, NEW v \in BOOLEAN, Queue(r, d, v)
  PROVE  /\ replies' \in [Runs -> Seq(PendingReplies)]
         /\ at' \in [Runs -> Nat \ {0}]
         /\ ReplyAtHand'
         /\ pending[r][at[r]].comment \in Ids
<1> DEFINE item == pending[r][at[r]]
           reply == [comment |-> item.comment, thread |-> item.thread,
                     decision |-> d, visible |-> v]
<1>1. item \in PendingItems
  BY DEF Queue, TypeInv, TypeOK
<1>2. reply \in PendingReplies
  BY <1>1 DEF PendingItems, PendingReplies
<1>3. replies' = [replies EXCEPT ![r] = Append(@, reply)] /\ pc' = pc /\ pc[r] = "triage"
  BY DEF Queue
<1>4. replies' \in [Runs -> Seq(PendingReplies)]
  BY <1>2, <1>3 DEF TypeInv, TypeOK
<1>5. at' \in [Runs -> Nat \ {0}]
  BY DEF Queue, Advance, TypeInv, TypeOK
<1>6. ReplyAtHand'
  <2>1. ASSUME NEW q \in Runs, pc[q] = "resolve"
        PROVE  at'[q] = at[q] /\ replies'[q] = replies[q]
    <3>1. q # r
      BY <1>3, <2>1
    <3> QED
      BY <1>3, <3>1 DEF Queue, Advance, TypeInv, TypeOK
  <2> QED
    BY <1>3, <2>1 DEF TypeInv, ReplyAtHand, HasReply
<1> QED
  BY <1>1, <1>4, <1>5, <1>6 DEF PendingItems

LEMMA VisibleType == Visible \subseteq BOOLEAN
BY DEF Visible

\* The reply at hand, and what posting and resolving it does.
LEMMA ReplyType ==
  ASSUME TypeInv, NEW r \in Runs, HasReply(r)
  PROVE  /\ Reply(r) \in PendingReplies
         /\ Posted(r) \subseteq [run : Runs, comment : Ids, decision : Decisions]
         /\ ResolvedBy(Reply(r)) \subseteq Comments
<1>1. Reply(r) \in PendingReplies
  BY DEF Reply, HasReply, TypeInv, TypeOK
<1>2. Reply(r).comment \in Ids /\ Reply(r).decision \in Decisions
  BY <1>1 DEF PendingReplies
<1>3. Posted(r) \subseteq [run : Runs, comment : Ids, decision : Decisions]
  BY <1>2 DEF Posted, TypeInv, TypeOK
<1>4. ResolvedBy(Reply(r)) \subseteq Comments
  BY <1>2, ThreadOfType DEF ResolvedBy, TypeInv, TypeOK
<1> QED
  BY <1>1, <1>3, <1>4

\* The steps before the lock and in the selection of the work.
LEMMA SelectingKeepsTypes ==
  ASSUME TypeInv, NEW r \in Runs,
         RefuseRepository(r) \/ NotInvolved(r) \/ CollectDelivered(r) \/ CollectAll(r)
           \/ Acquire(r) \/ Lookup(r) \/ SweepList(r)
           \/ LookupSwept(r) \/ NothingPending(r) \/ Clone(r) \/ Raise(r)
  PROVE  TypeInv'
<1>1. CASE RefuseRepository(r) \/ NotInvolved(r) \/ NothingPending(r) \/ Raise(r)
  <2>1. PICK status \in Ended : Finish(r, status)
    BY <1>1 DEF RefuseRepository, NotInvolved, NothingPending, Raise, Ended
  <2> QED
    BY <1>1, <2>1, FinishType
       DEF RefuseRepository, NotInvolved, NothingPending, Raise, github, TypeInv, TypeOK
<1>2. CASE CollectDelivered(r) \/ CollectAll(r)
  <2>0. PICK lists \in {{FirstN(s, MaxComments) : s \in Ascending(Delivered[r] \cap BotAuthored)},
                       Ascending({c \in Listed : Actionable(c)})} : CollectFrom(r, lists)
    BY <1>2 DEF CollectDelivered, CollectAll
  <2>1. PICK s \in lists \cup {<<>>} :
          IF s = <<>>
            THEN Finish(r, "ok")
            ELSE /\ Goto(r, "waiting")
                 /\ todo' = [todo EXCEPT ![r] = s]
                 /\ UNCHANGED <<lock, at, pending, clone, replies>>
    BY <2>0 DEF CollectFrom
  <2>2. UNCHANGED <<handled, branch, resolved, posts>>
    BY <2>0 DEF CollectFrom, github
  <2>3. CASE s = <<>>
    BY <2>1, <2>2, <2>3, FinishType DEF Ended, TypeInv, TypeOK
  <2>4. CASE s # <<>>
    <3>1. s \in Seq(Ids)
      BY <2>0, <2>1, <2>4, DeliveredType, ActionableType DEF TypeInv
    <3>2. pc' = [pc EXCEPT ![r] = "waiting"] /\ todo' = [todo EXCEPT ![r] = s]
      BY <2>1, <2>4 DEF Goto
    <3> QED
      BY <2>1, <2>2, <2>4, <3>1, <3>2 DEF TypeInv, TypeOK, ReplyAtHand, HasReply
  <2> QED
    BY <2>3, <2>4
<1>3. CASE Acquire(r)
  BY <1>3 DEF Acquire, Goto, Restart, github, Critical, TypeInv, TypeOK, ReplyAtHand, HasReply
<1>4. CASE Lookup(r)
  <2>1. at[r] <= Len(todo[r]) /\ pc[r] = "lookup"
    BY <1>4 DEF Lookup, LookupOver, TypeInv, TypeOK
  <2>2. ReadThread(r) /\ UNCHANGED <<pc, lock, todo, clone, replies, handled, github>>
    BY <1>4 DEF Lookup
  <2>3. ReplyAtHand'
    BY <2>1, <2>2 DEF ReadThread, Advance, TypeInv, TypeOK, ReplyAtHand, HasReply
  <2> QED
    BY <2>1, <2>2, <2>3, ReadThreadType DEF github, TypeInv, TypeOK
<1>5. CASE LookupSwept(r)
  <2>1. at[r] <= Len(todo[r]) /\ pc[r] = "sweep"
    BY <1>5 DEF LookupSwept
  <2>2. ReadThread(r) /\ UNCHANGED <<pc, lock, todo, clone, replies, handled, github>>
    BY <1>5 DEF LookupSwept
  <2>3. ReplyAtHand'
    BY <2>1, <2>2 DEF ReadThread, Advance, TypeInv, TypeOK, ReplyAtHand, HasReply
  <2> QED
    BY <2>1, <2>2, <2>3, ReadThreadType DEF github, TypeInv, TypeOK
<1>6. CASE SweepList(r)
  <2>1. PICK s \in Ascending(SweepCandidates(r)) \cup {<<>>} :
          todo' = [todo EXCEPT ![r] = s]
    BY <1>6 DEF SweepList
  <2>2. SweepCandidates(r) \subseteq Ids
    BY ListedType DEF SweepCandidates, TypeInv
  <2>3. s \in Seq(Ids)
    <3>1. CASE s = <<>>
      BY <3>1
    <3>2. CASE s \in Ascending(SweepCandidates(r))
      BY <2>2, <3>2, AscendingType
    <3> QED
      BY <2>1, <3>1, <3>2
  <2>4. pc' = [pc EXCEPT ![r] = "sweep"] /\ at' = [at EXCEPT ![r] = 1]
    BY <1>6 DEF SweepList, Goto, Restart
  <2> QED
    BY <1>6, <2>1, <2>3, <2>4
       DEF SweepList, github, Critical, TypeInv, TypeOK, ReplyAtHand, HasReply
<1>7. CASE Clone(r)
  <2>1. FirstN(pending[r], Budget) \in Seq(PendingItems)
    BY FirstNType, SettingsAssumption DEF Budget, TypeInv, TypeOK
  <2>2. pending' = [pending EXCEPT ![r] = FirstN(pending[r], Budget)]
    BY <1>7 DEF Clone
  <2>3. pending' \in [Runs -> Seq(PendingItems)]
    BY <2>1, <2>2 DEF TypeInv, TypeOK
  <2>4. clone' \in [Runs -> SUBSET Commits]
    BY <1>7 DEF Clone, TypeInv, TypeOK
  <2>5. pc' = [pc EXCEPT ![r] = "triage"] /\ at' = [at EXCEPT ![r] = 1]
    BY <1>7 DEF Clone, Goto, Restart
  <2> QED
    BY <1>7, <2>3, <2>4, <2>5
       DEF Clone, github, Critical, TypeInv, TypeOK, ReplyAtHand, HasReply
<1> QED
  BY <1>1, <1>2, <1>3, <1>4, <1>5, <1>6, <1>7

\* Triage: every verdict queues one well-formed reply.
LEMMA TriageKeepsTypes ==
  ASSUME TypeInv, NEW r \in Runs,
         TriageToHuman(r) \/ TriageSkip(r) \/ TriageDismiss(r) \/ TriageFix(r)
  PROVE  TypeInv'
<1>1. PICK d \in Decisions, v \in BOOLEAN :
        /\ Queue(r, d, v)
        /\ \/ UNCHANGED clone
           \/ clone' = [clone EXCEPT ![r] = @ \cup {FixCommit(r, pending[r][at[r]].comment)}]
  BY VisibleType DEF TriageToHuman, TriageSkip, TriageDismiss, TriageFix, Decisions
<1>2. /\ replies' \in [Runs -> Seq(PendingReplies)]
      /\ at' \in [Runs -> Nat \ {0}]
      /\ ReplyAtHand'
      /\ pending[r][at[r]].comment \in Ids
  BY <1>1, QueueType
<1>3. FixCommit(r, pending[r][at[r]].comment) \in Commits
  BY <1>2, CommentsAssumption DEF FixCommit, Commits, Ids
<1>4. clone' \in [Runs -> SUBSET Commits]
  BY <1>1, <1>3 DEF TypeInv, TypeOK
<1> QED
  BY <1>1, <1>2, <1>4 DEF Queue, github, TypeInv, TypeOK

\* The push and the merge follow-up.
LEMMA PushingKeepsTypes ==
  ASSUME TypeInv, NEW r \in Runs,
         NoPush(r) \/ Push(r) \/ PushRejected(r) \/ PushUnconfirmed(r) \/ MergeNothing(r)
           \/ MergeLocally(r) \/ PushMerge(r) \/ PushMergeFailed(r)
  PROVE  TypeInv'
<1>1. CASE PushRejected(r) \/ PushUnconfirmed(r)
  <2>1. Finish(r, "error") /\ UNCHANGED <<handled, resolved, posts>>
    BY <1>1 DEF PushRejected, PushUnconfirmed, github
  <2>2. branch' \subseteq Commits
    BY <1>1 DEF PushRejected, PushUnconfirmed, github, TypeInv, TypeOK
  <2> QED
    BY <2>1, <2>2, FinishType DEF Ended, TypeInv, TypeOK
<1>2. CASE NoPush(r) \/ Push(r)
  <2>1. PICK l \in {"merge", "post"} : pc' = [pc EXCEPT ![r] = l]
    BY <1>2 DEF NoPush, Push, Goto
  <2>2. at' = [at EXCEPT ![r] = 1] /\ branch' \subseteq Commits
    BY <1>2 DEF NoPush, Push, Restart, github, TypeInv, TypeOK
  <2>3. UNCHANGED <<lock, todo, pending, clone, replies, handled, resolved, posts>>
    BY <1>2 DEF NoPush, Push, github
  <2> QED
    BY <2>1, <2>2, <2>3 DEF Critical, TypeInv, TypeOK, ReplyAtHand, HasReply
<1>3. CASE MergeNothing(r) \/ MergeLocally(r) \/ PushMerge(r) \/ PushMergeFailed(r)
  <2>1. PICK l \in {"push_merge", "post"} : pc' = [pc EXCEPT ![r] = l]
    BY <1>3 DEF MergeNothing, MergeLocally, PushMerge, PushMergeFailed, Goto
  <2>2. MergeCommit(r) \in Commits
    BY DEF MergeCommit, Commits
  <2>3. clone' \in [Runs -> SUBSET Commits] /\ branch' \subseteq Commits
    <3>1. CASE MergeNothing(r) \/ PushMergeFailed(r)
      BY <3>1 DEF MergeNothing, PushMergeFailed, github, TypeInv, TypeOK
    <3>2. CASE MergeLocally(r)
      BY <2>2, <3>2 DEF MergeLocally, github, TypeInv, TypeOK
    <3>3. CASE PushMerge(r)
      BY <3>3 DEF PushMerge, TypeInv, TypeOK
    <3> QED
      BY <1>3, <3>1, <3>2, <3>3
  <2>4. UNCHANGED <<lock, local, resolved, posts>>
    BY <1>3 DEF MergeNothing, MergeLocally, PushMerge, PushMergeFailed, github
  <2> QED
    BY <2>1, <2>3, <2>4 DEF local, Critical, TypeInv, TypeOK, ReplyAtHand, HasReply
<1> QED
  BY <1>1, <1>2, <1>3

\* The replies.
LEMMA PostingKeepsTypes ==
  ASSUME TypeInv, NEW r \in Runs,
         PostReply(r) \/ PostFailed(r) \/ Settle(r) \/ ResolveFailed(r)
           \/ NotifyRaised(r) \/ RepliesDone(r)
  PROVE  TypeInv'
<1>1. CASE PostReply(r)
  <2>1. HasReply(r) /\ posts' = Posted(r) /\ pc' = [pc EXCEPT ![r] = "resolve"]
    BY <1>1 DEF PostReply, Goto
  <2>2. UNCHANGED <<lock, local, clone, branch, resolved>>
    BY <1>1 DEF PostReply
  <2>3. posts' \subseteq [run : Runs, comment : Ids, decision : Decisions]
    BY <2>1, ReplyType
  <2> QED
    BY <2>1, <2>2, <2>3 DEF local, Critical, TypeInv, TypeOK, ReplyAtHand, HasReply
<1>2. CASE PostFailed(r)
  <2>1. HasReply(r) /\ posts' \in {posts, Posted(r)} /\ pc[r] = "post"
    BY <1>2 DEF PostFailed
  <2>2. posts' \subseteq [run : Runs, comment : Ids, decision : Decisions]
    BY <2>1, ReplyType DEF TypeInv, TypeOK
  <2>3. UNCHANGED <<handled, branch, resolved>>
    BY <1>2 DEF PostFailed
  <2>4. CASE Finish(r, "error")
    BY <2>2, <2>3, <2>4, FinishType DEF Ended, TypeInv, TypeOK
  <2>5. CASE Advance(r) /\ UNCHANGED <<pc, lock, todo, pending, clone, replies>>
    BY <2>1, <2>2, <2>3, <2>5 DEF Advance, TypeInv, TypeOK, ReplyAtHand, HasReply
  <2> QED
    BY <1>2, <2>4, <2>5 DEF PostFailed
<1>3. CASE Settle(r)
  <2>1. HasReply(r)
    BY <1>3 DEF Settle, ReadyToResolve, TypeInv, ReplyAtHand
  <2>2. Reply(r).comment \in Ids /\ Reply(r).decision \in Decisions
    BY <2>1, ReplyType DEF PendingReplies
  <2>3. resolved' \subseteq Comments
    BY <1>3, <2>1, ReplyType DEF Settle, TypeInv, TypeOK
  <2>4. handled' \in [Runs -> SUBSET [comment : Ids, decision : Decisions]]
    BY <1>3, <2>2 DEF Settle, TypeInv, TypeOK
  <2>5. pc' = [pc EXCEPT ![r] = "post"] /\ at' = [at EXCEPT ![r] = @ + 1]
    BY <1>3 DEF Settle, Goto, Advance
  <2>6. UNCHANGED <<lock, todo, pending, clone, replies, branch, posts>>
    BY <1>3 DEF Settle
  <2> QED
    BY <2>3, <2>4, <2>5, <2>6 DEF Critical, TypeInv, TypeOK, ReplyAtHand, HasReply
<1>4. CASE ResolveFailed(r)
  <2>1. HasReply(r)
    BY <1>4 DEF ResolveFailed, ReadyToResolve, TypeInv, ReplyAtHand
  <2>2. resolved' \subseteq Comments
    BY <1>4, <2>1, ReplyType DEF ResolveFailed, TypeInv, TypeOK
  <2>3. UNCHANGED <<handled, branch, posts>>
    BY <1>4 DEF ResolveFailed
  <2>4. CASE Finish(r, "error")
    BY <2>2, <2>3, <2>4, FinishType DEF Ended, TypeInv, TypeOK
  <2>5. CASE Advance(r) /\ Goto(r, "post") /\ UNCHANGED <<lock, todo, pending, clone, replies>>
    BY <2>2, <2>3, <2>5
       DEF Advance, Goto, Critical, TypeInv, TypeOK, ReplyAtHand, HasReply
  <2> QED
    BY <1>4, <2>4, <2>5 DEF ResolveFailed
<1>5. CASE RepliesDone(r)
  BY <1>5, FinishType DEF RepliesDone, github, Ended, TypeInv, TypeOK
<1>6. CASE NotifyRaised(r)
  <2>1. HasReply(r)
    BY <1>6 DEF NotifyRaised, ReadyToResolve, TypeInv, ReplyAtHand
  <2>2. Reply(r).comment \in Ids /\ Reply(r).decision \in Decisions
    BY <2>1, ReplyType DEF PendingReplies
  <2>3. resolved' \subseteq Comments
    BY <1>6, <2>1, ReplyType DEF NotifyRaised, TypeInv, TypeOK
  <2>4. handled' \in [Runs -> SUBSET [comment : Ids, decision : Decisions]]
    BY <1>6, <2>2 DEF NotifyRaised, TypeInv, TypeOK
  <2>5. Finish(r, "error") /\ UNCHANGED <<branch, posts>>
    BY <1>6 DEF NotifyRaised
  <2> QED
    BY <2>3, <2>4, <2>5, FinishType DEF Ended, TypeInv, TypeOK
<1> QED
  BY <1>1, <1>2, <1>3, <1>4, <1>5, <1>6

\* Crashes and people.
LEMMA OutsideKeepsTypes ==
  ASSUME TypeInv, Crash \/ HumanPush \/ HumanResolve
  PROVE  TypeInv'
<1>1. CASE Crash
  <2>1. pc' \in [Runs -> {"idle", "waiting"} \cup Critical \cup Ended]
    BY <1>1 DEF Crash, Ended, TypeInv, TypeOK
  <2>2. lock' \in Runs \cup {NoRun} /\ todo' \in [Runs -> Seq(Ids)]
        /\ at' \in [Runs -> Nat \ {0}] /\ clone' \in [Runs -> SUBSET Commits]
        /\ replies' \in [Runs -> Seq(PendingReplies)]
    BY <1>1 DEF Crash
  <2>3. pending' \in [Runs -> Seq(PendingItems)]
    BY <1>1 DEF Crash, TypeInv, TypeOK
  <2>4. \A r \in Runs : pc'[r] # "resolve"
    BY <1>1 DEF Crash, Critical
  <2> QED
    BY <1>1, <2>1, <2>2, <2>3, <2>4 DEF Crash, github, TypeInv, TypeOK, ReplyAtHand
<1>2. CASE HumanPush
  <2>1. \A n \in 1..MaxHumanPushes : HumanCommit(n) \in Commits
    BY SettingsAssumption DEF HumanCommit, Commits
  <2> QED
    BY <1>2, <2>1 DEF HumanPush, local, TypeInv, TypeOK, ReplyAtHand, HasReply
<1>3. CASE HumanResolve
  BY <1>3, CommentsAssumption DEF HumanResolve, local, TypeInv, TypeOK, ReplyAtHand, HasReply
<1> QED
  BY <1>1, <1>2, <1>3

LEMMA TypeInvStep ==
  ASSUME TypeInv, [Next]_vars
  PROVE  TypeInv'
<1>1. ASSUME NEW r \in Runs, Step(r)
      PROVE  TypeInv'
  BY <1>1, SelectingKeepsTypes, TriageKeepsTypes, PushingKeepsTypes, PostingKeepsTypes
     DEF Step, Work
<1>2. CASE Crash \/ HumanPush \/ HumanResolve
  BY <1>2, OutsideKeepsTypes
<1>3. CASE UNCHANGED vars
  BY <1>3 DEF vars, local, github, TypeInv, TypeOK, ReplyAtHand, HasReply
<1> QED
  BY <1>1, <1>2, <1>3 DEF Next, AllEnded

LEMMA TypeInvHolds == Spec => []TypeInv
<1> QED
  BY TypeInvInit, TypeInvStep, PTL DEF Spec

\* Every variable keeps its type, whatever the runs and the environment do.
THEOREM Typing == Spec => []TypeOK
<1>1. TypeInv => TypeOK
  BY DEF TypeInv
<1> QED
  BY <1>1, TypeInvHolds, PTL

-----------------------------------------------------------------------------
(* The lock, the branch and what the bot says of it *)

\* A run inside _process_pr holds the lock.
LockHeld == \A r \in Runs : pc[r] \in Critical => lock = r

\* A run that has not cloned has no replies.
NoEarlyReplies ==
  \A r \in Runs : pc[r] \in {"idle", "waiting", "lookup", "sweep"} => replies[r] = <<>>

\* The commit of a queued fix is in the clone, and after the push on the branch.
QueuedFixesExist ==
  \A r \in Runs : \A i \in DOMAIN replies[r] : replies[r][i].decision = "fix" =>
    /\ pc[r] = "triage" => FixCommit(r, replies[r][i].comment) \in clone[r]
    /\ pc[r] \in {"merge", "push_merge", "post", "resolve"} =>
         FixCommit(r, replies[r][i].comment) \in branch

SafeInv ==
  /\ TypeInv
  /\ LockHeld
  /\ OnlyHumansBlockPush
  /\ NoEarlyReplies
  /\ QueuedFixesExist
  /\ ClaimsArePushed

\* A push takes the branch to a history that extends it.
LEMMA BranchGrows ==
  ASSUME [Next]_vars
  PROVE  branch \subseteq branch'
<1>1. ASSUME NEW r \in Runs, Step(r)
      PROVE  branch \subseteq branch'
  <2>1. CASE Push(r) \/ PushUnconfirmed(r) \/ PushMerge(r)
    BY <2>1 DEF Push, PushUnconfirmed, PushMerge, FastForward
  <2>2. CASE ~(Push(r) \/ PushUnconfirmed(r) \/ PushMerge(r))
    BY <1>1, <2>2
       DEF Step, Work, RefuseRepository, NotInvolved, CollectDelivered, CollectAll, CollectFrom, Acquire, Lookup, SweepList, LookupSwept,
           NothingPending, Clone, TriageToHuman, TriageSkip, TriageDismiss, TriageFix, Queue, NoPush, PushRejected, MergeNothing, MergeLocally,
           PushMergeFailed, PostReply, PostFailed, Settle, ResolveFailed, NotifyRaised,
           RepliesDone, Raise, github
  <2> QED
    BY <2>1, <2>2
<1>2. CASE Crash \/ HumanPush \/ HumanResolve \/ UNCHANGED vars
  BY <1>2 DEF Crash, HumanPush, HumanResolve, vars, github
<1> QED
  BY <1>1, <1>2 DEF Next, AllEnded

\* No step of a run or of a person takes a commit off the branch.
THEOREM BranchOnlyGrows == Spec => BranchNeverRewritten
<1>1. [Next]_vars => [branch \subseteq branch']_vars
  BY BranchGrows
<1> QED
  BY <1>1, PTL DEF Spec, BranchNeverRewritten

LEMMA SafeInvInit == Init => SafeInv
<1> SUFFICES ASSUME Init PROVE SafeInv
  OBVIOUS
<1>1. TypeInv
  BY TypeInvInit
<1> QED
  BY <1>1 DEF Init, SafeInv, LockHeld, OnlyHumansBlockPush, NoEarlyReplies,
              QueuedFixesExist, ClaimsArePushed, Critical

\* A run that ends disturbs nothing of this.
LEMMA FinishKeepsSafe ==
  ASSUME SafeInv, NEW r \in Runs, NEW status \in Ended, Finish(r, status),
         branch \subseteq branch',
         pc[r] \in Critical \/ branch' = branch
  PROVE  /\ LockHeld'
         /\ OnlyHumansBlockPush'
         /\ NoEarlyReplies'
         /\ QueuedFixesExist'
<1>1. /\ pc' = [pc EXCEPT ![r] = status]
      /\ lock' = Released(r)
      /\ clone' = [clone EXCEPT ![r] = {}]
      /\ replies' = [replies EXCEPT ![r] = <<>>]
  BY DEF Finish, Goto
<1>2. status \notin Critical /\ status \notin {"idle", "waiting"}
  BY DEF Critical, Ended
<1>3. LockHeld'
  BY <1>1, <1>2, RunsAssumption DEF Released, SafeInv, LockHeld, TypeInv, TypeOK
<1>4. OnlyHumansBlockPush'
  <2> SUFFICES ASSUME NEW q \in Runs, pc'[q] \in {"triage", "merge", "push_merge"},
                      NEW c \in branch' \ clone'[q]
               PROVE  c.kind = "human"
    BY DEF OnlyHumansBlockPush
  <2>1. q # r /\ pc[q] = pc'[q] /\ clone'[q] = clone[q] /\ pc[q] \in Critical
    BY <1>1, <1>2 DEF Critical, SafeInv, TypeInv, TypeOK
  <2>2. branch' = branch
    BY <2>1 DEF SafeInv, LockHeld
  <2> QED
    BY <2>1, <2>2 DEF SafeInv, OnlyHumansBlockPush
<1>5. NoEarlyReplies'
  BY <1>1, <1>2 DEF SafeInv, NoEarlyReplies, TypeInv, TypeOK
<1>6. QueuedFixesExist'
  <2> SUFFICES ASSUME NEW q \in Runs, NEW i \in DOMAIN replies'[q],
                      replies'[q][i].decision = "fix"
               PROVE  /\ pc'[q] = "triage" => FixCommit(q, replies'[q][i].comment) \in clone'[q]
                      /\ pc'[q] \in {"merge", "push_merge", "post", "resolve"} =>
                           FixCommit(q, replies'[q][i].comment) \in branch'
    BY DEF QueuedFixesExist
  <2>1. q # r
    BY <1>1 DEF SafeInv, TypeInv, TypeOK
  <2>2. replies'[q] = replies[q] /\ pc'[q] = pc[q] /\ clone'[q] = clone[q]
    BY <1>1, <2>1 DEF SafeInv, TypeInv, TypeOK
  <2> QED
    BY <2>2 DEF SafeInv, QueuedFixesExist
<1> QED
  BY <1>3, <1>4, <1>5, <1>6

\* The lock keeps every other run out.
LEMMA OneAtATime ==
  ASSUME SafeInv, NEW r \in Runs, NEW q \in Runs, pc[r] \in Critical, q # r
  PROVE  pc[q] \notin Critical
BY DEF SafeInv, LockHeld

\* Claims hold on when the branch grows and nothing new is claimed.
LEMMA NoNewClaims ==
  ASSUME SafeInv, branch \subseteq branch', UNCHANGED <<posts, handled>>
  PROVE  ClaimsArePushed'
BY DEF SafeInv, ClaimsArePushed, FixCommit

\* The steps before the lock and in the selection of the work.
LEMMA SelectingKeepsSafe ==
  ASSUME SafeInv, NEW r \in Runs,
         RefuseRepository(r) \/ NotInvolved(r) \/ CollectDelivered(r) \/ CollectAll(r)
           \/ Acquire(r) \/ Lookup(r) \/ SweepList(r)
           \/ LookupSwept(r) \/ NothingPending(r) \/ Clone(r) \/ Raise(r)
  PROVE  /\ LockHeld'
         /\ OnlyHumansBlockPush'
         /\ NoEarlyReplies'
         /\ QueuedFixesExist'
         /\ ClaimsArePushed'
<1>0. UNCHANGED <<branch, posts, handled>>
  BY DEF RefuseRepository, NotInvolved, CollectDelivered, CollectAll, CollectFrom, Acquire, Lookup, SweepList, LookupSwept, NothingPending,
         Clone, Raise, github
<1>1. ClaimsArePushed'
  BY <1>0, NoNewClaims
<1>2. CASE \E status \in Ended : Finish(r, status)
  BY <1>0, <1>1, <1>2, FinishKeepsSafe
<1>3. CASE Clone(r)
  <2>1. /\ pc[r] = "sweep" /\ pc' = [pc EXCEPT ![r] = "triage"]
        /\ clone' = [clone EXCEPT ![r] = branch]
        /\ UNCHANGED <<lock, replies, branch>>
    BY <1>3 DEF Clone, Goto, github
  <2>2. LockHeld'
    BY <2>1 DEF SafeInv, LockHeld, Critical, TypeInv, TypeOK
  <2>3. OnlyHumansBlockPush'
    BY <2>1 DEF SafeInv, OnlyHumansBlockPush, TypeInv, TypeOK
  <2>4. NoEarlyReplies'
    BY <2>1 DEF SafeInv, NoEarlyReplies, TypeInv, TypeOK
  <2>5. QueuedFixesExist'
    <3>1. replies[r] = <<>>
      BY <2>1 DEF SafeInv, NoEarlyReplies
    <3> QED
      BY <2>1, <3>1 DEF SafeInv, QueuedFixesExist, TypeInv, TypeOK
  <2> QED
    BY <1>1, <2>2, <2>3, <2>4, <2>5
<1>4. CASE (CollectDelivered(r) \/ CollectAll(r)) /\ ~\E status \in Ended : Finish(r, status)
  <2>1. /\ pc[r] = "idle" /\ pc' = [pc EXCEPT ![r] = "waiting"]
        /\ UNCHANGED <<lock, clone, replies, branch>>
    BY <1>4 DEF CollectDelivered, CollectAll, CollectFrom, Goto, github, Ended
  <2> QED
    BY <1>1, <2>1 DEF SafeInv, LockHeld, OnlyHumansBlockPush, NoEarlyReplies,
                      QueuedFixesExist, Critical, TypeInv, TypeOK
<1>5. CASE Acquire(r)
  <2>1. /\ pc[r] = "waiting" /\ pc' = [pc EXCEPT ![r] = "lookup"]
        /\ lock = NoRun /\ lock' = r
        /\ UNCHANGED <<clone, replies, branch>>
    BY <1>5 DEF Acquire, LockFree, Goto, github
  <2>2. LockHeld'
    BY <2>1, RunsAssumption DEF SafeInv, LockHeld, TypeInv, TypeOK
  <2> QED
    BY <1>1, <2>1, <2>2 DEF SafeInv, OnlyHumansBlockPush, NoEarlyReplies,
                            QueuedFixesExist, TypeInv, TypeOK
<1>6. CASE Lookup(r) \/ LookupSwept(r)
  <2>1. UNCHANGED <<pc, lock, clone, replies, branch>>
    BY <1>6 DEF Lookup, LookupSwept, github
  <2> QED
    BY <1>1, <2>1 DEF SafeInv, LockHeld, OnlyHumansBlockPush, NoEarlyReplies, QueuedFixesExist
<1>7. CASE SweepList(r)
  <2>1. /\ pc[r] = "lookup" /\ pc' = [pc EXCEPT ![r] = "sweep"]
        /\ UNCHANGED <<lock, clone, replies, branch>>
    BY <1>7 DEF SweepList, Goto, github
  <2> QED
    BY <1>1, <2>1 DEF SafeInv, LockHeld, OnlyHumansBlockPush, NoEarlyReplies,
                      QueuedFixesExist, Critical, TypeInv, TypeOK
<1> QED
  BY <1>2, <1>3, <1>4, <1>5, <1>6, <1>7 DEF RefuseRepository, NotInvolved, NothingPending, Raise, Ended

\* Triage: a fix is committed to the clone in the step that queues its reply.
LEMMA TriageKeepsSafe ==
  ASSUME SafeInv, NEW r \in Runs,
         TriageToHuman(r) \/ TriageSkip(r) \/ TriageDismiss(r) \/ TriageFix(r)
  PROVE  /\ LockHeld'
         /\ OnlyHumansBlockPush'
         /\ NoEarlyReplies'
         /\ QueuedFixesExist'
         /\ ClaimsArePushed'
<1> DEFINE c == pending[r][at[r]].comment
<1>1. PICK d \in Decisions, v \in BOOLEAN :
        /\ Queue(r, d, v)
        /\ \/ d # "fix" /\ UNCHANGED clone
           \/ clone' = [clone EXCEPT ![r] = @ \cup {FixCommit(r, c)}]
  BY VisibleType DEF TriageToHuman, TriageSkip, TriageDismiss, TriageFix, Decisions
<1> DEFINE reply == [comment |-> c, thread |-> pending[r][at[r]].thread,
                     decision |-> d, visible |-> v]
<1>2. /\ pc[r] = "triage"
      /\ replies' = [replies EXCEPT ![r] = Append(@, reply)]
      /\ UNCHANGED <<pc, lock, branch, posts, handled>>
  BY <1>1 DEF Queue, github
<1>3. /\ clone[r] \subseteq clone'[r]
      /\ d = "fix" => FixCommit(r, c) \in clone'[r]
      /\ \A q \in Runs \ {r} : clone'[q] = clone[q] /\ replies'[q] = replies[q]
  BY <1>1, <1>2 DEF SafeInv, TypeInv, TypeOK
<1>4. LockHeld' /\ ClaimsArePushed'
  BY <1>2, NoNewClaims DEF SafeInv, LockHeld
<1>5. OnlyHumansBlockPush'
  BY <1>2, <1>3 DEF SafeInv, OnlyHumansBlockPush
<1>6. NoEarlyReplies'
  BY <1>2, <1>3 DEF SafeInv, NoEarlyReplies
<1>7. QueuedFixesExist'
  <2> SUFFICES ASSUME NEW q \in Runs, NEW i \in DOMAIN replies'[q],
                      replies'[q][i].decision = "fix"
               PROVE  /\ pc[q] = "triage" => FixCommit(q, replies'[q][i].comment) \in clone'[q]
                      /\ pc[q] \in {"merge", "push_merge", "post", "resolve"} =>
                           FixCommit(q, replies'[q][i].comment) \in branch
    BY <1>2 DEF QueuedFixesExist
  <2>1. CASE q # r
    BY <1>3, <2>1 DEF SafeInv, QueuedFixesExist
  <2>2. CASE q = r
    <3>1. replies'[r] = Append(replies[r], reply) /\ replies[r] \in Seq(PendingReplies)
      BY <1>2 DEF SafeInv, TypeInv, TypeOK
    <3>2. CASE i \in DOMAIN replies[r]
      <4>1. replies'[r][i] = replies[r][i]
        BY <3>1, <3>2
      <4> QED
        BY <1>2, <1>3, <2>2, <3>2, <4>1 DEF SafeInv, QueuedFixesExist
    <3>3. CASE i \notin DOMAIN replies[r]
      <4>1. replies'[r][i] = reply
        BY <2>2, <3>1, <3>3
      <4> QED
        BY <1>2, <1>3, <2>2, <4>1
    <3> QED
      BY <3>2, <3>3
  <2> QED
    BY <2>1, <2>2
<1> QED
  BY <1>4, <1>5, <1>6, <1>7

\* Pushing moves the queued fixes from the clone to the branch.
LEMMA PushingKeepsSafe ==
  ASSUME SafeInv, NEW r \in Runs,
         NoPush(r) \/ Push(r) \/ PushRejected(r) \/ PushUnconfirmed(r) \/ MergeNothing(r)
           \/ MergeLocally(r) \/ PushMerge(r) \/ PushMergeFailed(r)
  PROVE  /\ LockHeld'
         /\ OnlyHumansBlockPush'
         /\ NoEarlyReplies'
         /\ QueuedFixesExist'
         /\ ClaimsArePushed'
<1>1. branch \subseteq branch' /\ UNCHANGED <<posts, handled>>
  BY DEF NoPush, Push, PushRejected, PushUnconfirmed, MergeNothing, MergeLocally,
         PushMerge, PushMergeFailed, FastForward, github, local
<1>2. ClaimsArePushed'
  BY <1>1, NoNewClaims
<1>3. pc[r] \in {"triage", "merge", "push_merge"}
  BY DEF NoPush, Push, PushRejected, PushUnconfirmed, MergeNothing, MergeLocally,
         PushMerge, PushMergeFailed, TriageOver
<1>4. \A q \in Runs \ {r} : pc[q] \notin Critical
  BY <1>3, OneAtATime DEF Critical
<1>5. CASE PushRejected(r) \/ PushUnconfirmed(r)
  <2>1. Finish(r, "error")
    BY <1>5 DEF PushRejected, PushUnconfirmed
  <2> QED
    BY <1>1, <1>2, <1>3, <2>1, FinishKeepsSafe DEF Ended, Critical
<1>6. CASE ~(PushRejected(r) \/ PushUnconfirmed(r))
  <2>1. PICK l \in {"merge", "push_merge", "post"} :
          pc' = [pc EXCEPT ![r] = l] /\ UNCHANGED <<lock, replies>>
    BY <1>6 DEF NoPush, Push, MergeNothing, MergeLocally, PushMerge, PushMergeFailed,
                Goto, local
  <2>2. LockHeld'
    BY <1>3, <2>1 DEF SafeInv, LockHeld, Critical, TypeInv, TypeOK
  <2>3. NoEarlyReplies'
    BY <2>1 DEF SafeInv, NoEarlyReplies, TypeInv, TypeOK
  <2>4. OnlyHumansBlockPush'
    <3> SUFFICES ASSUME NEW q \in Runs, pc'[q] \in {"triage", "merge", "push_merge"},
                        NEW c \in branch' \ clone'[q]
                 PROVE  c.kind = "human"
      BY DEF OnlyHumansBlockPush
    <3>1. q = r
      BY <1>4, <2>1 DEF Critical, SafeInv, TypeInv, TypeOK
    <3>2. CASE NoPush(r) \/ MergeNothing(r) \/ MergeLocally(r) \/ PushMergeFailed(r)
      <4>1. branch' = branch /\ clone[r] \subseteq clone'[r]
        BY <3>2 DEF NoPush, MergeNothing, MergeLocally, PushMergeFailed, github,
                    SafeInv, TypeInv, TypeOK
      <4> QED
        BY <1>3, <3>1, <4>1 DEF SafeInv, OnlyHumansBlockPush
    <3>3. CASE Push(r) \/ PushMerge(r)
      BY <3>1, <3>3 DEF Push, PushMerge
    <3> QED
      BY <1>6, <3>2, <3>3
  <2>5. QueuedFixesExist'
    <3> SUFFICES ASSUME NEW q \in Runs, NEW i \in DOMAIN replies[q],
                        replies[q][i].decision = "fix",
                        pc'[q] \in {"triage", "merge", "push_merge", "post", "resolve"}
                 PROVE  pc'[q] # "triage" /\ FixCommit(q, replies[q][i].comment) \in branch'
      BY <2>1 DEF QueuedFixesExist
    <3>1. q = r /\ pc'[q] # "triage"
      BY <1>4, <2>1 DEF Critical, SafeInv, TypeInv, TypeOK
    <3>2. CASE pc[r] = "triage"
      <4>1. Push(r)
        BY <1>6, <3>1, <3>2 DEF NoPush, Committed, MergeNothing, MergeLocally, PushMerge, PushMergeFailed
      <4>2. FixCommit(r, replies[r][i].comment) \in clone[r]
        BY <3>1, <3>2 DEF SafeInv, QueuedFixesExist
      <4> QED
        BY <3>1, <4>1, <4>2 DEF Push
    <3>3. CASE pc[r] # "triage"
      <4>1. FixCommit(r, replies[r][i].comment) \in branch
        BY <1>3, <3>1, <3>3 DEF SafeInv, QueuedFixesExist
      <4> QED
        BY <1>1, <3>1, <4>1
    <3> QED
      BY <3>2, <3>3
  <2> QED
    BY <1>2, <2>2, <2>3, <2>4, <2>5
<1> QED
  BY <1>5, <1>6

\* The replies claim only fixes that the push took to the branch.
LEMMA PostingKeepsSafe ==
  ASSUME SafeInv, NEW r \in Runs,
         PostReply(r) \/ PostFailed(r) \/ Settle(r) \/ ResolveFailed(r)
           \/ NotifyRaised(r) \/ RepliesDone(r)
  PROVE  /\ LockHeld'
         /\ OnlyHumansBlockPush'
         /\ NoEarlyReplies'
         /\ QueuedFixesExist'
         /\ ClaimsArePushed'
<1>1. pc[r] \in {"post", "resolve"} /\ branch' = branch
  BY DEF PostReply, PostFailed, Settle, ResolveFailed, NotifyRaised, RepliesDone,
         ReadyToResolve, github
<1>2. HasReply(r) /\ Reply(r).decision = "fix" =>
        FixCommit(r, Reply(r).comment) \in branch
  BY <1>1 DEF HasReply, Reply, SafeInv, QueuedFixesExist, TypeInv, TypeOK
<1>3. ClaimsArePushed'
  <2>1. CASE PostReply(r) \/ PostFailed(r)
    <3>1. HasReply(r) /\ posts' \subseteq Posted(r) /\ handled' = handled
      BY <2>1 DEF PostReply, PostFailed, Posted, local
    <3> QED
      BY <1>1, <1>2, <3>1 DEF Posted, SafeInv, ClaimsArePushed, FixCommit
  <2>2. CASE Settle(r) \/ NotifyRaised(r)
    <3>1. HasReply(r)
      BY <2>2 DEF Settle, NotifyRaised, ReadyToResolve, SafeInv, TypeInv, ReplyAtHand
    <3>2. /\ handled' = [handled EXCEPT ![r] =
               @ \cup {[comment |-> Reply(r).comment, decision |-> Reply(r).decision]}]
          /\ posts' = posts
      BY <2>2 DEF Settle, NotifyRaised
    <3> QED
      BY <1>1, <1>2, <3>1, <3>2 DEF SafeInv, ClaimsArePushed, FixCommit, TypeInv, TypeOK
  <2>3. CASE ResolveFailed(r) \/ RepliesDone(r)
    BY <1>1, <2>3, NoNewClaims DEF ResolveFailed, RepliesDone, github
  <2> QED
    BY <2>1, <2>2, <2>3
<1>4. CASE \E status \in Ended : Finish(r, status)
  BY <1>1, <1>3, <1>4, FinishKeepsSafe
<1>5. CASE ~\E status \in Ended : Finish(r, status)
  <2>1. PICK l \in {"post", "resolve"} :
          pc' = [pc EXCEPT ![r] = l] /\ UNCHANGED <<lock, clone, replies>>
    BY <1>5 DEF PostReply, PostFailed, Settle, ResolveFailed, NotifyRaised, RepliesDone,
                Goto, local, Ended, SafeInv, TypeInv, TypeOK
  <2> QED
    BY <1>1, <1>3, <2>1 DEF SafeInv, LockHeld, OnlyHumansBlockPush, NoEarlyReplies,
                            QueuedFixesExist, Critical, TypeInv, TypeOK
<1> QED
  BY <1>4, <1>5

\* Crashes and people.
LEMMA OutsideKeepsSafe ==
  ASSUME SafeInv, Crash \/ HumanPush \/ HumanResolve
  PROVE  /\ LockHeld'
         /\ OnlyHumansBlockPush'
         /\ NoEarlyReplies'
         /\ QueuedFixesExist'
         /\ ClaimsArePushed'
<1>1. branch \subseteq branch' /\ UNCHANGED <<posts, handled>>
  BY DEF Crash, HumanPush, HumanResolve, github, local
<1>2. ClaimsArePushed'
  BY <1>1, NoNewClaims
<1>3. CASE Crash
  <2>1. /\ branch' = branch
        /\ \A r \in Runs : pc'[r] \notin {"waiting"} \cup Critical /\ replies'[r] = <<>>
    BY <1>3 DEF Crash, github, Critical
  <2> QED
    BY <1>2, <2>1 DEF LockHeld, OnlyHumansBlockPush, NoEarlyReplies, QueuedFixesExist, Critical
<1>4. CASE HumanPush \/ HumanResolve
  <2>1. UNCHANGED <<pc, lock, clone, replies>>
    BY <1>4 DEF HumanPush, HumanResolve, local
  <2>2. \A c \in branch' \ branch : c.kind = "human"
    <3>1. CASE HumanPush
      <4>1. PICK n \in 1..MaxHumanPushes : branch' = branch \cup {HumanCommit(n)}
        BY <3>1 DEF HumanPush
      <4>2. HumanCommit(n).kind = "human"
        BY DEF HumanCommit
      <4> QED
        BY <4>1, <4>2
    <3>2. CASE HumanResolve
      BY <3>2 DEF HumanResolve
    <3> QED
      BY <1>4, <3>1, <3>2
  <2> QED
    BY <1>1, <1>2, <2>1, <2>2
       DEF SafeInv, LockHeld, OnlyHumansBlockPush, NoEarlyReplies, QueuedFixesExist
<1> QED
  BY <1>3, <1>4

LEMMA SafeInvStep ==
  ASSUME SafeInv, [Next]_vars
  PROVE  SafeInv'
<1>1. TypeInv'
  BY TypeInvStep DEF SafeInv
<1>2. ASSUME NEW r \in Runs, Step(r)
      PROVE  SafeInv'
  BY <1>1, <1>2, SelectingKeepsSafe, TriageKeepsSafe, PushingKeepsSafe, PostingKeepsSafe
     DEF Step, Work, SafeInv
<1>3. CASE Crash \/ HumanPush \/ HumanResolve
  BY <1>1, <1>3, OutsideKeepsSafe DEF SafeInv
<1>4. CASE UNCHANGED vars
  BY <1>1, <1>4 DEF vars, local, github, SafeInv, LockHeld, OnlyHumansBlockPush,
                    NoEarlyReplies, QueuedFixesExist, ClaimsArePushed
<1> QED
  BY <1>2, <1>3, <1>4 DEF Next, AllEnded

LEMMA SafeInvHolds == Spec => []SafeInv
<1> QED
  BY SafeInvInit, SafeInvStep, PTL DEF Spec

\* While a run works in its clone nobody but people moves the branch.
THEOREM LockProtectsBranch == Spec => []OnlyHumansBlockPush
<1>1. SafeInv => OnlyHumansBlockPush
  BY DEF SafeInv
<1> QED
  BY <1>1, SafeInvHolds, PTL

\* No reply, count or notification claims a fix that is not on the branch.
THEOREM ClaimsAreTrue == Spec => []ClaimsArePushed
<1>1. SafeInv => ClaimsArePushed
  BY DEF SafeInv
<1> QED
  BY <1>1, SafeInvHolds, PTL

-----------------------------------------------------------------------------
(* Dry runs *)

\* In a dry run no reply says "fix", and so no run gets to the push.
NoFixes ==
  /\ \A r \in Runs : \A i \in DOMAIN replies[r] : replies[r][i].decision # "fix"
  /\ \A r \in Runs : pc[r] \notin {"merge", "push_merge"}

DryInv == DryRun => NoFixes /\ DryRunTouchesNothing

LEMMA DryInvInit == Init => DryInv
BY DEF Init, DryInv, NoFixes, DryRunTouchesNothing, HumanCommits

\* Nothing is claimed, pushed or queued: the rest is where the runs are.
LEMMA QuietStep ==
  ASSUME DryRun, DryInv, UNCHANGED <<branch, posts, handled>>,
         \A q \in Runs : replies'[q] \in {replies[q], <<>>} /\ pc'[q] \notin {"merge", "push_merge"}
  PROVE  DryInv'
BY DEF DryInv, NoFixes, DryRunTouchesNothing, HumanCommits

LEMMA SelectingStaysDry ==
  ASSUME DryRun, TypeInv, DryInv, NEW r \in Runs,
         RefuseRepository(r) \/ NotInvolved(r) \/ CollectDelivered(r) \/ CollectAll(r)
           \/ Acquire(r) \/ Lookup(r) \/ SweepList(r)
           \/ LookupSwept(r) \/ NothingPending(r) \/ Clone(r) \/ Raise(r)
  PROVE  DryInv'
<1>1. UNCHANGED <<branch, posts, handled>>
  BY DEF RefuseRepository, NotInvolved, CollectDelivered, CollectAll, CollectFrom, Acquire,
         Lookup, SweepList, LookupSwept, NothingPending, Clone, Raise, github
<1>2. \/ \E status \in Ended : Finish(r, status)
      \/ /\ UNCHANGED replies
         /\ \/ pc' = pc
            \/ \E l \in {"waiting", "lookup", "sweep", "triage"} : pc' = [pc EXCEPT ![r] = l]
  BY DEF RefuseRepository, NotInvolved, CollectDelivered, CollectAll, CollectFrom, Acquire,
         Lookup, SweepList, LookupSwept, NothingPending, Clone, Raise, Goto, Ended
<1>3. \A q \in Runs : replies'[q] \in {replies[q], <<>>} /\ pc'[q] \notin {"merge", "push_merge"}
  BY <1>2 DEF Finish, Goto, Ended, DryInv, NoFixes, TypeInv, TypeOK
<1> QED
  BY <1>1, <1>3, QuietStep

LEMMA TriageStaysDry ==
  ASSUME DryRun, TypeInv, DryInv, NEW r \in Runs,
         TriageToHuman(r) \/ TriageSkip(r) \/ TriageDismiss(r) \/ TriageFix(r)
  PROVE  DryInv'
<1>1. PICK d \in Decisions \ {"fix"}, v \in BOOLEAN : Queue(r, d, v)
  BY VisibleType
     DEF TriageToHuman, TriageSkip, TriageDismiss, TriageFix, Decisions
<1> DEFINE reply == [comment |-> pending[r][at[r]].comment, thread |-> pending[r][at[r]].thread,
                     decision |-> d, visible |-> v]
<1>2. /\ replies' = [replies EXCEPT ![r] = Append(@, reply)]
      /\ UNCHANGED <<pc, branch, posts, handled>>
  BY <1>1 DEF Queue, github
<1>3. ASSUME NEW q \in Runs, NEW i \in DOMAIN replies'[q]
      PROVE  replies'[q][i].decision # "fix"
  <2>1. CASE q # r
    BY <1>2, <2>1 DEF DryInv, NoFixes, TypeInv, TypeOK
  <2>2. CASE q = r
    <3>1. replies'[r] = Append(replies[r], reply) /\ replies[r] \in Seq(PendingReplies)
      BY <1>2 DEF TypeInv, TypeOK
    <3>2. replies'[r][i] = reply \/ (i \in DOMAIN replies[r] /\ replies'[r][i] = replies[r][i])
      BY <2>2, <3>1
    <3> QED
      BY <2>2, <3>2 DEF DryInv, NoFixes
  <2> QED
    BY <2>1, <2>2
<1> QED
  BY <1>2, <1>3 DEF DryInv, NoFixes, DryRunTouchesNothing, HumanCommits

LEMMA PushingStaysDry ==
  ASSUME DryRun, TypeInv, DryInv, NEW r \in Runs,
         NoPush(r) \/ Push(r) \/ PushRejected(r) \/ PushUnconfirmed(r) \/ MergeNothing(r)
           \/ MergeLocally(r) \/ PushMerge(r) \/ PushMergeFailed(r)
  PROVE  DryInv'
<1>1. ~Committed(r) /\ pc[r] \notin {"merge", "push_merge"}
  BY DEF Committed, DryInv, NoFixes
<1>2. NoPush(r)
  BY <1>1 DEF Push, PushRejected, PushUnconfirmed, MergeNothing, MergeLocally, PushMerge,
              PushMergeFailed
<1>3. pc' = [pc EXCEPT ![r] = "post"] /\ UNCHANGED <<replies, branch, posts, handled>>
  BY <1>2 DEF NoPush, Goto, github
<1>4. \A q \in Runs : replies'[q] \in {replies[q], <<>>} /\ pc'[q] \notin {"merge", "push_merge"}
  BY <1>3 DEF DryInv, NoFixes, TypeInv, TypeOK
<1> QED
  BY <1>3, <1>4, QuietStep

LEMMA PostingStaysDry ==
  ASSUME DryRun, TypeInv, DryInv, NEW r \in Runs,
         PostReply(r) \/ PostFailed(r) \/ Settle(r) \/ ResolveFailed(r)
           \/ NotifyRaised(r) \/ RepliesDone(r)
  PROVE  DryInv'
<1>1. HasReply(r) => Reply(r).decision # "fix"
  BY DEF HasReply, Reply, DryInv, NoFixes, TypeInv, TypeOK
<1>2. branch' = branch
  BY DEF PostReply, PostFailed, Settle, ResolveFailed, NotifyRaised, RepliesDone, github
<1>3. \A p \in posts' : p.decision # "fix"
  <2>1. posts' = posts \/ (HasReply(r) /\ posts' = Posted(r))
    BY DEF PostReply, PostFailed, Settle, ResolveFailed, NotifyRaised, RepliesDone, github
  <2> QED
    BY <1>1, <2>1 DEF Posted, DryInv, DryRunTouchesNothing
<1>4. \A q \in Runs : \A h \in handled'[q] : h.decision # "fix"
  <2>1. CASE handled' = handled
    BY <2>1 DEF DryInv, DryRunTouchesNothing
  <2>2. CASE Settle(r) \/ NotifyRaised(r)
    <3>1. HasReply(r)
      BY <2>2 DEF Settle, NotifyRaised, ReadyToResolve, TypeInv, ReplyAtHand
    <3>2. handled' = [handled EXCEPT ![r] =
            @ \cup {[comment |-> Reply(r).comment, decision |-> Reply(r).decision]}]
      BY <2>2 DEF Settle, NotifyRaised
    <3> QED
      BY <1>1, <3>1, <3>2 DEF DryInv, DryRunTouchesNothing, TypeInv, TypeOK
  <2> QED
    BY <2>1, <2>2 DEF PostReply, PostFailed, ResolveFailed, RepliesDone, local
<1>5. \/ \E status \in Ended : Finish(r, status)
      \/ /\ UNCHANGED replies
         /\ \/ pc' = pc
            \/ \E l \in {"post", "resolve"} : pc' = [pc EXCEPT ![r] = l]
  BY DEF PostReply, PostFailed, Settle, ResolveFailed, NotifyRaised, RepliesDone, Goto,
         local, Ended
<1>6. \A q \in Runs : replies'[q] \in {replies[q], <<>>} /\ pc'[q] \notin {"merge", "push_merge"}
  <2>1. CASE \E status \in Ended : Finish(r, status)
    BY <2>1 DEF Finish, Goto, Ended, DryInv, NoFixes, TypeInv, TypeOK
  <2>2. CASE UNCHANGED replies /\ pc' = pc
    BY <2>2 DEF DryInv, NoFixes
  <2>3. CASE UNCHANGED replies /\ \E l \in {"post", "resolve"} : pc' = [pc EXCEPT ![r] = l]
    BY <2>3 DEF DryInv, NoFixes, TypeInv, TypeOK
  <2> QED
    BY <1>5, <2>1, <2>2, <2>3
<1>7. NoFixes'
  BY <1>6 DEF DryInv, NoFixes
<1> QED
  BY <1>2, <1>3, <1>4, <1>7 DEF DryInv, DryRunTouchesNothing, HumanCommits

LEMMA OutsideStaysDry ==
  ASSUME DryRun, TypeInv, DryInv, Crash \/ HumanPush \/ HumanResolve
  PROVE  DryInv'
<1>1. CASE Crash \/ HumanResolve
  <2>1. UNCHANGED <<branch, posts, handled>>
    BY <1>1 DEF Crash, HumanResolve, github, local
  <2>2. \A q \in Runs : replies'[q] \in {replies[q], <<>>} /\ pc'[q] \notin {"merge", "push_merge"}
    BY <1>1 DEF Crash, HumanResolve, local, DryInv, NoFixes, TypeInv, TypeOK, Critical
  <2> QED
    BY <2>1, <2>2, QuietStep
<1>2. CASE HumanPush
  <2>1. PICK n \in 1..MaxHumanPushes : branch' = branch \cup {HumanCommit(n)}
    BY <1>2 DEF HumanPush
  <2>2. HumanCommit(n).kind = "human"
    BY DEF HumanCommit
  <2>3. UNCHANGED <<pc, replies, posts, handled>>
    BY <1>2 DEF HumanPush, local
  <2> QED
    BY <2>1, <2>2, <2>3 DEF DryInv, NoFixes, DryRunTouchesNothing, HumanCommits
<1> QED
  BY <1>1, <1>2

LEMMA DryInvStep ==
  ASSUME TypeInv, DryInv, [Next]_vars
  PROVE  DryInv'
<1> SUFFICES ASSUME DryRun PROVE DryInv'
  BY DEF DryInv
<1>1. ASSUME NEW r \in Runs, Step(r)
      PROVE  DryInv'
  BY <1>1, SelectingStaysDry, TriageStaysDry, PushingStaysDry, PostingStaysDry DEF Step, Work
<1>2. CASE Crash \/ HumanPush \/ HumanResolve
  BY <1>2, OutsideStaysDry
<1>3. CASE UNCHANGED vars
  BY <1>3 DEF vars, local, github, DryInv, NoFixes, DryRunTouchesNothing, HumanCommits
<1> QED
  BY <1>1, <1>2, <1>3 DEF Next, AllEnded

\* With DRY_RUN set no run commits, pushes or claims a fix, whatever the model
\* answers and whatever fails.
THEOREM DryRunIsDry == Spec => [](DryRun => DryRunTouchesNothing)
<1>1. TypeInv /\ DryInv /\ [Next]_vars => DryInv'
  BY DryInvStep
<1>2. DryInv => (DryRun => DryRunTouchesNothing)
  BY DEF DryInv
<1> QED
  BY <1>1, <1>2, DryInvInit, TypeInvHolds, PTL DEF Spec

=============================================================================
