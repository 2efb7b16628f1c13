--------------------------- MODULE PrWork_proofs ----------------------------
(***************************************************************************)
(* What the runs of PrProcessing do with the comments they pick: seen from *)
(* GitHub they are the plain bot of module ReviewBot, they keep to their   *)
(* budget, and when GitHub answers they leave nothing out and settle       *)
(* nothing twice.                                                          *)
(***************************************************************************)
EXTENDS PrProcessing_proofs

-----------------------------------------------------------------------------
(* Lists of comments *)

\* The ordered list of a set of comments names each of its elements once.
LEMMA AscendingElements ==
  ASSUME NEW S, S \subseteq Ids, NEW s \in Ascending(S)
  PROVE  /\ \A i \in DOMAIN s : s[i] \in S
         /\ \A i, j \in DOMAIN s : s[i] = s[j] => i = j
<1>1. IsFiniteSet(Ids) /\ Ids \subseteq Nat
  BY CommentsAssumption, FS_Interval DEF Ids
<1>2. /\ DOMAIN s = 1..Cardinality(S)
      /\ \A i \in DOMAIN s : s[i] \in S
      /\ \A i, j \in DOMAIN s : i < j => s[i] < s[j]
  BY DEF Ascending
<1>3. Cardinality(S) \in Nat
  BY <1>1, FS_Subset, FS_CardinalityType
<1>4. \A i \in DOMAIN s : i \in Nat
  BY <1>2, <1>3
<1>5. \A i \in DOMAIN s : s[i] \in Nat
  BY <1>1, <1>2
<1> QED
  BY <1>2, <1>4, <1>5

\* The first elements of a list are elements of the list, at the same place.
LEMMA FirstNElements ==
  ASSUME NEW T, NEW s \in Seq(T), NEW n \in Nat
  PROVE  /\ Len(FirstN(s, n)) = IF Len(s) < n THEN Len(s) ELSE n
         /\ \A i \in DOMAIN FirstN(s, n) : i \in DOMAIN s /\ FirstN(s, n)[i] = s[i]
<1> DEFINE m == IF Len(s) < n THEN Len(s) ELSE n
<1>1. m \in Nat /\ m <= Len(s) /\ \A i \in 1..m : s[i] \in T
  OBVIOUS
<1>2. /\ Len(SubSeq(s, 1, m)) = m
      /\ \A i \in 1..m : SubSeq(s, 1, m)[i] = s[i]
      /\ SubSeq(s, 1, m) \in Seq(T)
  BY <1>1, SubSeqProperties
<1> HIDE DEF m
<1>3. DOMAIN SubSeq(s, 1, m) = 1..m /\ 1..m \subseteq DOMAIN s
  BY <1>1, <1>2
<1>4. FirstN(s, n) = SubSeq(s, 1, m)
  BY DEF FirstN, m
<1>5. m = IF Len(s) < n THEN Len(s) ELSE n
  BY DEF m
<1> QED
  BY <1>2, <1>3, <1>4, <1>5

-----------------------------------------------------------------------------
(* What a run is working on *)

\* A run picks a comment of others once: what it has still to look up it has not
\* picked.
Picking(r) ==
  /\ \A i \in DOMAIN todo[r] : todo[r][i] \in Comments
  /\ \A i, j \in DOMAIN todo[r] : todo[r][i] = todo[r][j] => i = j
  /\ \A i \in DOMAIN pending[r] : pending[r][i].comment \in Comments
  /\ \A i, j \in DOMAIN pending[r] :
       pending[r][i].comment = pending[r][j].comment => i = j
  /\ pc[r] \in {"idle", "waiting"} => pending[r] = <<>>
  /\ pc[r] \in {"lookup", "sweep"} =>
       \A i \in DOMAIN todo[r] : i >= at[r] => todo[r][i] \notin PendingComments(r)

\* The replies are those to the pending comments, in their order; only what is
\* left to people, or blank, is not posted.
Answering(r) ==
  /\ \A i \in DOMAIN replies[r] :
       /\ i \in DOMAIN pending[r]
       /\ replies[r][i].comment = pending[r][i].comment
       /\ replies[r][i].decision = "needs_review" => ~replies[r][i].visible
       /\ replies[r][i].visible \/ replies[r][i].decision = "needs_review"
            \/ "blank_reply" \in Environment
  /\ pc[r] = "triage" => at[r] = Len(replies[r]) + 1
  /\ pc[r] \in {"merge", "push_merge", "post", "resolve"} =>
       Len(replies[r]) = Len(pending[r])

\* A run has said nothing before its push, and then only what its loop is past.
Matches(reply, x) == reply.comment = x.comment /\ reply.decision = x.decision
Past(r, i) == i < at[r]
Said(r, i) == i < at[r] \/ (i = at[r] /\ pc[r] = "resolve")

Speaking(r) ==
  /\ pc[r] \notin {"post", "resolve"} \cup Ended =>
       handled[r] = {} /\ \A p \in posts : p.run # r
  /\ pc[r] \in {"post", "resolve"} =>
       /\ \A p \in posts : p.run = r =>
            \E i \in DOMAIN replies[r] : Said(r, i) /\ Matches(replies[r][i], p)
       /\ \A h \in handled[r] :
            \E i \in DOMAIN replies[r] : Past(r, i) /\ Matches(replies[r][i], h)
  /\ pc[r] = "resolve" =>
       [run |-> r, comment |-> Reply(r).comment, decision |-> Reply(r).decision] \in posts

WorkOf(r) == Picking(r) /\ Answering(r) /\ Speaking(r)

\* A clone holds what was on the branch, and the run's own commits.
ClonesAreOwn ==
  \A r \in Runs : \A c \in clone[r] : c \in branch \/ c.run = r

WorkInv ==
  /\ SafeInv
  /\ \A r \in Runs : WorkOf(r)
  /\ ClonesAreOwn

-----------------------------------------------------------------------------
(* A run works on its own lists *)

LocalTo(r, q) ==
  /\ UNCHANGED <<pc[q], at[q], todo[q], pending[q], replies[q], clone[q], handled[q]>>
  /\ posts \subseteq posts'
  /\ \A p \in posts' \ posts : p.run = r

LEMMA SelectingIsLocal ==
  ASSUME TypeInv, NEW r \in Runs, NEW q \in Runs \ {r},
         RefuseRepository(r) \/ NotInvolved(r) \/ CollectDelivered(r) \/ CollectAll(r)
           \/ Acquire(r) \/ Lookup(r) \/ SweepList(r)
           \/ LookupSwept(r) \/ NothingPending(r) \/ Clone(r) \/ Raise(r)
  PROVE  LocalTo(r, q) /\ UNCHANGED <<branch, handled, posts>>
<1> USE DEF LocalTo, TypeInv, TypeOK, Goto, github
<1>1. CASE RefuseRepository(r) \/ NotInvolved(r) \/ NothingPending(r)
  BY <1>1 DEF RefuseRepository, NotInvolved, NothingPending, Finish, Restart
<1>2. CASE CollectDelivered(r) \/ CollectAll(r)
  <2>1. UNCHANGED github /\ UNCHANGED handled
    BY <1>2 DEF CollectDelivered, CollectAll, CollectFrom
  <2>2. (\E s : Goto(r, "waiting") /\ todo' = [todo EXCEPT ![r] = s]
                 /\ UNCHANGED <<at, pending, clone, replies>>)
          \/ Finish(r, "ok")
    BY <1>2, Zenon DEF CollectDelivered, CollectAll, CollectFrom
  <2> QED
    BY <2>1, <2>2 DEF Finish, Restart
<1>3. CASE Acquire(r)
  BY <1>3 DEF Acquire, Restart
<1>4. CASE Lookup(r) \/ LookupSwept(r)
  BY <1>4 DEF Lookup, LookupSwept, ReadThread, Advance
<1>5. CASE SweepList(r) \/ Clone(r)
  BY <1>5 DEF SweepList, Clone, Restart
<1>6. CASE Raise(r)
  BY <1>6 DEF Raise, Finish, Restart
<1> QED
  BY <1>1, <1>2, <1>3, <1>4, <1>5, <1>6

LEMMA TriageIsLocal ==
  ASSUME TypeInv, NEW r \in Runs, NEW q \in Runs \ {r},
         TriageToHuman(r) \/ TriageSkip(r) \/ TriageDismiss(r) \/ TriageFix(r)
  PROVE  LocalTo(r, q) /\ UNCHANGED <<branch, handled, posts>>
BY DEF TriageToHuman, TriageSkip, TriageDismiss, TriageFix, Queue, Advance, github, LocalTo,
       TypeInv, TypeOK

LEMMA PushingIsLocal ==
  ASSUME TypeInv, NEW r \in Runs, NEW q \in Runs \ {r},
         NoPush(r) \/ Push(r) \/ PushRejected(r) \/ PushUnconfirmed(r) \/ MergeNothing(r)
           \/ MergeLocally(r) \/ PushMerge(r) \/ PushMergeFailed(r)
  PROVE  LocalTo(r, q) /\ UNCHANGED <<handled, posts>>
BY DEF NoPush, Push, PushRejected, PushUnconfirmed, MergeNothing, MergeLocally, PushMerge,
       PushMergeFailed, Finish, Goto, Restart, github, local, LocalTo, TypeInv, TypeOK

LEMMA PostingIsLocal ==
  ASSUME TypeInv, NEW r \in Runs, NEW q \in Runs \ {r},
         PostReply(r) \/ PostFailed(r) \/ Settle(r) \/ ResolveFailed(r)
           \/ NotifyRaised(r) \/ RepliesDone(r)
  PROVE  LocalTo(r, q) /\ branch' = branch
BY DEF PostReply, PostFailed, Settle, ResolveFailed, NotifyRaised, RepliesDone, Posted, Finish,
       Goto, Restart, Advance, github, local, LocalTo, TypeInv, TypeOK

\* What is not touched stays in order.
LEMMA WorkKept ==
  ASSUME NEW r \in Runs, NEW q \in Runs \ {r}, WorkOf(q), LocalTo(r, q)
  PROVE  WorkOf(q)'
<1>1. /\ UNCHANGED <<pc[q], at[q], todo[q], pending[q], replies[q], handled[q]>>
      /\ posts \subseteq posts' /\ \A p \in posts' : p.run = q => p \in posts
  BY DEF LocalTo
<1>2. Picking(q)'
  BY <1>1 DEF WorkOf, Picking, PendingComments
<1>3. Answering(q)'
  BY <1>1 DEF WorkOf, Answering
<1>4. Speaking(q)'
  BY <1>1 DEF WorkOf, Speaking, Said, Past, Reply
<1> QED
  BY <1>2, <1>3, <1>4 DEF WorkOf

\* A run that is over has nothing in hand.
LEMMA FinishKeepsWork ==
  ASSUME TypeInv, NEW r \in Runs, WorkOf(r), NEW status \in Ended, Finish(r, status)
  PROVE  WorkOf(r)'
<1>1. /\ pc'[r] \in Ended /\ todo'[r] = <<>> /\ replies'[r] = <<>>
      /\ pending'[r] \in {pending[r], <<>>}
  BY DEF Finish, Goto, TypeInv, TypeOK
<1>2. pc'[r] \notin {"idle", "waiting"} \cup Critical
  BY <1>1 DEF Ended, Critical
<1>3. Picking(r)'
  BY <1>1, <1>2 DEF WorkOf, Picking, Critical
<1>4. Answering(r)'
  BY <1>1, <1>2 DEF WorkOf, Answering, Critical
<1>5. Speaking(r)'
  BY <1>1, <1>2 DEF Speaking, Critical
<1> QED
  BY <1>3, <1>4, <1>5 DEF WorkOf

-----------------------------------------------------------------------------
(* The steps of a run on its lists *)

\* Whatever a run starts from names comments of others, each once.
LEMMA DeliveredElements ==
  ASSUME NEW r \in Runs, NEW s \in Ascending(Delivered[r] \cap BotAuthored)
  PROVE  LET t == FirstN(s, MaxComments) IN
         /\ \A i \in DOMAIN t : t[i] \in Comments
         /\ \A i, j \in DOMAIN t : t[i] = t[j] => i = j
<1>1. Delivered[r] \cap BotAuthored \subseteq Comments /\ Comments \subseteq Ids
  BY RunsAssumption, CommentsAssumption DEF Comments, Ids
<1>2. /\ \A i \in DOMAIN s : s[i] \in Comments
      /\ \A i, j \in DOMAIN s : s[i] = s[j] => i = j
  BY <1>1, AscendingElements
<1>3. s \in Seq(Ids)
  BY <1>1, AscendingType
<1>4. \A i \in DOMAIN FirstN(s, MaxComments) :
        i \in DOMAIN s /\ FirstN(s, MaxComments)[i] = s[i]
  BY <1>3, FirstNElements, SettingsAssumption
<1> QED
  BY <1>2, <1>4

\* A reply of ours is not actionable, with its marker or without.
LEMMA ActionableElements ==
  ASSUME TypeOK, NEW S, S \subseteq {c \in Listed : Actionable(c)}, NEW s \in Ascending(S)
  PROVE  /\ s \in Seq(Ids)
         /\ \A i \in DOMAIN s : s[i] \in S /\ s[i] \in Comments
         /\ \A i, j \in DOMAIN s : s[i] = s[j] => i = j
<1>1. S \subseteq Comments
  BY DEF Actionable, IsReply
<1>2. S \subseteq Ids
  BY ListedType
<1> QED
  BY <1>1, <1>2, AscendingType, AscendingElements

LEMMA ReadThreadKeepsPicking ==
  ASSUME TypeInv, NEW r \in Runs, Picking(r), pc[r] \in {"lookup", "sweep"},
         at[r] <= Len(todo[r]), ReadThread(r), UNCHANGED <<pc, todo>>
  PROVE  Picking(r)'
<1> DEFINE c == todo[r][at[r]]
<1>1. PICK view \in ThreadViews(c) : pending' = [pending EXCEPT ![r] =
        IF view = "resolved" THEN @ ELSE Append(@, [comment |-> c, thread |-> view])]
  BY DEF ReadThread
<1> DEFINE item == [comment |-> c, thread |-> view]
<1>2. /\ at[r] \in Nat \ {0} /\ at[r] \in DOMAIN todo[r]
      /\ at'[r] = at[r] + 1 /\ UNCHANGED <<pc[r], todo[r]>>
      /\ pending[r] \in Seq(PendingItems)
      /\ DOMAIN todo[r] = 1..Len(todo[r])
      /\ DOMAIN pending[r] = 1..Len(pending[r]) /\ Len(pending[r]) \in Nat
  BY DEF ReadThread, Advance, TypeInv, TypeOK
<1>3. c \in Comments /\ c \notin PendingComments(r)
  BY <1>2 DEF Picking
<1>4. \A i \in DOMAIN todo[r] : i >= at[r] + 1 => todo[r][i] # c /\ i >= at[r]
  BY <1>2 DEF Picking
<1>5. CASE view = "resolved"
  <2>1. pending'[r] = pending[r]
    BY <1>1, <1>5 DEF TypeInv, TypeOK
  <2>2. PendingComments(r)' = PendingComments(r)
    BY <2>1 DEF PendingComments
  <2> HIDE DEF c
  <2>3. \A i \in DOMAIN todo'[r] : i >= at'[r] => todo'[r][i] \notin PendingComments(r)'
    BY <1>2, <1>4, <2>2 DEF Picking
  <2> QED
    BY <1>2, <2>1, <2>3 DEF Picking
<1>6. CASE view # "resolved"
  <2>1. pending'[r] = Append(pending[r], item)
    BY <1>1, <1>6 DEF TypeInv, TypeOK
  <2>2. item.comment = c
    OBVIOUS
  <2> HIDE DEF item, c
  <2>3. /\ DOMAIN pending'[r] = 1..(Len(pending[r]) + 1)
        /\ \A i \in DOMAIN pending[r] : pending'[r][i] = pending[r][i]
        /\ pending'[r][Len(pending[r]) + 1] = item
    BY <1>2, <2>1
  <2>4. \A i \in DOMAIN pending'[r] :
          \/ i \in DOMAIN pending[r] /\ pending'[r][i] = pending[r][i]
          \/ i = Len(pending[r]) + 1 /\ pending'[r][i].comment = c
    BY <1>2, <2>2, <2>3
  <2>5. \A i \in DOMAIN pending[r] :
          pending[r][i].comment # c /\ pending[r][i].comment \in Comments
    BY <1>3 DEF PendingComments, Picking
  <2>6. PendingComments(r)' \subseteq PendingComments(r) \cup {c}
    BY <2>4 DEF PendingComments
  <2>7. \A i, j \in DOMAIN pending'[r] :
          pending'[r][i].comment = pending'[r][j].comment => i = j
    BY <2>4, <2>5 DEF Picking
  <2>8. \A i \in DOMAIN todo'[r] : i >= at'[r] => todo'[r][i] \notin PendingComments(r)'
    BY <1>2, <1>4, <2>6 DEF Picking
  <2> QED
    BY <1>2, <1>3, <2>4, <2>5, <2>7, <2>8 DEF Picking
<1> QED
  BY <1>5, <1>6

\* Before the push there is nothing to say, and before the triage nothing queued.
LEMMA NothingSaidYet ==
  ASSUME NEW r \in Runs, WorkOf(r), Picking(r)', UNCHANGED <<handled, posts>>,
         pc[r] \in {"idle", "waiting", "lookup", "sweep"}, replies'[r] = <<>>,
         \/ pc'[r] \in {"waiting", "lookup", "sweep"}
         \/ pc'[r] = "triage" /\ at'[r] = 1
  PROVE  WorkOf(r)'
<1>1. handled[r] = {} /\ \A p \in posts : p.run # r
  BY DEF WorkOf, Speaking, Ended
<1>2. Answering(r)'
  BY DEF Answering
<1>3. Speaking(r)'
  BY <1>1 DEF Speaking
<1> QED
  BY <1>2, <1>3 DEF WorkOf

LEMMA SelectingKeepsWork ==
  ASSUME SafeInv, NEW r \in Runs, WorkOf(r),
         RefuseRepository(r) \/ NotInvolved(r) \/ CollectDelivered(r) \/ CollectAll(r)
           \/ Acquire(r) \/ Lookup(r) \/ SweepList(r)
           \/ LookupSwept(r) \/ NothingPending(r) \/ Clone(r) \/ Raise(r)
  PROVE  WorkOf(r)'
<1>1. TypeInv /\ TypeOK /\ Picking(r)
  BY DEF SafeInv, TypeInv, WorkOf
<1>2. CASE \E status \in Ended : Finish(r, status)
  BY <1>1, <1>2, FinishKeepsWork
<1>3. CASE ~\E status \in Ended : Finish(r, status)
  <2>1. /\ UNCHANGED <<handled, posts, replies>>
        /\ pc[r] \in {"idle", "waiting", "lookup", "sweep"}
    BY <1>3 DEF RefuseRepository, NotInvolved, CollectDelivered, CollectAll, CollectFrom,
         Acquire, Lookup, SweepList, LookupSwept, NothingPending, Clone, Raise, github, Ended
  <2>2. replies'[r] = <<>>
    BY <2>1 DEF SafeInv, NoEarlyReplies
  <2>3. CASE CollectDelivered(r) \/ CollectAll(r)
    <3>1. PICK lists \in {{FirstN(s, MaxComments) : s \in Ascending(Delivered[r] \cap BotAuthored)},
                          Ascending({c \in Listed : Actionable(c)})} : CollectFrom(r, lists)
      BY <2>3 DEF CollectDelivered, CollectAll
    <3>2. PICK t \in lists :
            /\ pc' = [pc EXCEPT ![r] = "waiting"]
            /\ todo' = [todo EXCEPT ![r] = t]
            /\ pending' = pending /\ pc[r] = "idle"
      BY <1>3, <3>1 DEF CollectFrom, Goto, Ended
    <3>3. /\ \A i \in DOMAIN t : t[i] \in Comments
          /\ \A i, j \in DOMAIN t : t[i] = t[j] => i = j
      BY <1>1, <3>1, <3>2, DeliveredElements, ActionableElements
    <3>4. pc'[r] = "waiting" /\ todo'[r] = t /\ pending'[r] = <<>>
      BY <1>1, <3>2 DEF Picking, TypeOK
    <3>5. Picking(r)'
      BY <3>3, <3>4 DEF Picking
    <3> QED
      BY <2>1, <2>2, <3>4, <3>5, NothingSaidYet
  <2>4. CASE Acquire(r)
    <3>1. /\ pc'[r] = "lookup" /\ UNCHANGED <<todo, pending>> /\ pending[r] = <<>>
      BY <1>1, <2>4 DEF Acquire, Goto, Picking, TypeOK
    <3>2. PendingComments(r)' = {}
      BY <3>1 DEF PendingComments
    <3>3. Picking(r)'
      BY <1>1, <3>1, <3>2 DEF Picking
    <3> QED
      BY <2>1, <2>2, <3>1, <3>3, NothingSaidYet
  <2>5. CASE Lookup(r) \/ LookupSwept(r)
    <3>1. /\ at[r] <= Len(todo[r]) /\ ReadThread(r) /\ UNCHANGED <<pc, todo>>
          /\ pc[r] \in {"lookup", "sweep"}
      BY <1>1, <2>5 DEF Lookup, LookupOver, LookupSwept, TypeOK
    <3>2. Picking(r)'
      BY <1>1, <3>1, ReadThreadKeepsPicking
    <3> QED
      BY <2>1, <2>2, <3>1, <3>2, NothingSaidYet
  <2>6. CASE SweepList(r)
    <3>1. PICK t \in Ascending(SweepCandidates(r)) \cup {<<>>} :
            todo' = [todo EXCEPT ![r] = t]
      BY <2>6 DEF SweepList
    <3>2. SweepCandidates(r) \subseteq {c \in Listed : Actionable(c)}
      BY DEF SweepCandidates
    <3>3. /\ \A i \in DOMAIN t : t[i] \in Comments /\ t[i] \in SweepCandidates(r)
          /\ \A i, j \in DOMAIN t : t[i] = t[j] => i = j
      BY <1>1, <3>1, <3>2, ActionableElements
    <3>4. pc'[r] = "sweep" /\ todo'[r] = t /\ UNCHANGED pending
      BY <1>1, <2>6, <3>1 DEF SweepList, Goto, TypeOK
    <3>5. \A i \in DOMAIN t : t[i] \notin PendingComments(r)'
      BY <3>3, <3>4 DEF SweepCandidates, PendingComments
    <3>6. Picking(r)'
      BY <1>1, <3>3, <3>4, <3>5 DEF Picking
    <3> QED
      BY <2>1, <2>2, <3>4, <3>6, NothingSaidYet
  <2>7. CASE Clone(r)
    <3>1. /\ pc'[r] = "triage" /\ at'[r] = 1 /\ todo'[r] = <<>>
          /\ pending'[r] = FirstN(pending[r], Budget)
      BY <1>1, <2>7 DEF Clone, Goto, Restart, TypeOK
    <3>2. /\ pending[r] \in Seq(PendingItems) /\ Budget \in Nat
      BY <1>1, SettingsAssumption DEF Budget, TypeOK
    <3>3. \A i \in DOMAIN pending'[r] :
            i \in DOMAIN pending[r] /\ pending'[r][i] = pending[r][i]
      BY <3>1, <3>2, FirstNElements
    <3>4. Picking(r)'
      BY <1>1, <3>1, <3>3 DEF Picking
    <3> QED
      BY <2>1, <2>2, <3>1, <3>4, NothingSaidYet
  <2> QED
    BY <1>3, <2>3, <2>4, <2>5, <2>6, <2>7
       DEF RefuseRepository, NotInvolved, NothingPending, Raise, Ended
<1> QED
  BY <1>2, <1>3

LEMMA TriageKeepsWork ==
  ASSUME TypeInv, NEW r \in Runs, WorkOf(r),
         TriageToHuman(r) \/ TriageSkip(r) \/ TriageDismiss(r) \/ TriageFix(r)
  PROVE  WorkOf(r)'
<1>1. PICK d \in Decisions, v \in BOOLEAN :
        /\ Queue(r, d, v)
        /\ d = "needs_review" => ~v
        /\ v \/ d = "needs_review" \/ "blank_reply" \in Environment
  BY DEF TriageToHuman, TriageSkip, TriageDismiss, TriageFix, Decisions, Visible
<1> DEFINE reply == [comment |-> pending[r][at[r]].comment,
                     thread |-> pending[r][at[r]].thread,
                     decision |-> d, visible |-> v]
<1>2. /\ pc[r] = "triage" /\ at[r] <= Len(pending[r])
      /\ UNCHANGED <<pc, todo, pending, handled, posts>>
      /\ replies'[r] = Append(replies[r], reply) /\ at'[r] = at[r] + 1
      /\ at[r] \in Nat \ {0}
      /\ replies[r] \in Seq(PendingReplies) /\ pending[r] \in Seq(PendingItems)
  BY <1>1 DEF Queue, Advance, github, TypeInv, TypeOK
<1>3. Picking(r)'
  BY <1>2 DEF WorkOf, Picking, PendingComments
<1>4. Speaking(r)'
  BY <1>2 DEF WorkOf, Speaking, Ended
<1>5. at[r] = Len(replies[r]) + 1
  BY <1>2 DEF WorkOf, Answering
<1>6. /\ reply.comment = pending[r][at[r]].comment
      /\ reply.decision = "needs_review" => ~reply.visible
      /\ reply.visible \/ reply.decision = "needs_review" \/ "blank_reply" \in Environment
  BY <1>1
<1> HIDE DEF reply
<1>7. /\ Len(replies'[r]) = at[r]
      /\ \A i \in DOMAIN replies'[r] :
           \/ i \in DOMAIN replies[r] /\ replies'[r][i] = replies[r][i]
           \/ i = at[r] /\ replies'[r][i] = reply
  BY <1>2, <1>5
<1>8. at[r] \in DOMAIN pending[r]
  BY <1>2
<1>9. Answering(r)'
  BY <1>2, <1>6, <1>7, <1>8 DEF WorkOf, Answering
<1> QED
  BY <1>3, <1>4, <1>9 DEF WorkOf

LEMMA PushingKeepsWork ==
  ASSUME TypeInv, NEW r \in Runs, WorkOf(r),
         NoPush(r) \/ Push(r) \/ PushRejected(r) \/ PushUnconfirmed(r) \/ MergeNothing(r)
           \/ MergeLocally(r) \/ PushMerge(r) \/ PushMergeFailed(r)
  PROVE  WorkOf(r)'
<1>1. CASE \E status \in Ended : Finish(r, status)
  BY <1>1, FinishKeepsWork
<1>2. CASE ~\E status \in Ended : Finish(r, status)
  <2>1. /\ UNCHANGED <<todo, pending, replies, handled, posts>>
        /\ pc[r] \in {"triage", "merge", "push_merge"}
        /\ pc'[r] \in {"merge", "push_merge", "post"}
        /\ pc[r] = "triage" => at[r] > Len(pending[r])
    BY <1>2 DEF NoPush, Push, PushRejected, PushUnconfirmed, MergeNothing, MergeLocally,
                PushMerge, PushMergeFailed, TriageOver, Goto, github, local, Ended,
                TypeInv, TypeOK
  <2>2. Picking(r)'
    BY <2>1 DEF WorkOf, Picking
  <2>3. Len(replies[r]) = Len(pending[r])
    <3>1. /\ replies[r] \in Seq(PendingReplies) /\ pending[r] \in Seq(PendingItems)
          /\ at[r] \in Nat
      BY DEF TypeInv, TypeOK
    <3>2. CASE pc[r] = "triage"
      <4>1. at[r] = Len(replies[r]) + 1 /\ \A i \in DOMAIN replies[r] : i \in DOMAIN pending[r]
        BY <3>2 DEF WorkOf, Answering
      <4>2. Len(replies[r]) >= Len(pending[r])
        BY <2>1, <3>1, <3>2, <4>1
      <4>3. Len(replies[r]) # 0 => Len(replies[r]) \in DOMAIN replies[r]
        BY <3>1
      <4> QED
        BY <3>1, <4>1, <4>2, <4>3
    <3> QED
      BY <2>1, <3>2 DEF WorkOf, Answering
  <2>4. Answering(r)'
    BY <2>1, <2>3 DEF WorkOf, Answering
  <2>5. handled[r] = {} /\ \A p \in posts : p.run # r
    BY <2>1 DEF WorkOf, Speaking, Ended
  <2>6. Speaking(r)'
    BY <2>1, <2>5 DEF Speaking
  <2> QED
    BY <2>2, <2>4, <2>6 DEF WorkOf
<1> QED
  BY <1>1, <1>2

\* The loop says and counts the replies one after the other.
LEMMA PostingKeepsWork ==
  ASSUME TypeInv, NEW r \in Runs, WorkOf(r),
         PostReply(r) \/ PostFailed(r) \/ Settle(r) \/ ResolveFailed(r)
           \/ NotifyRaised(r) \/ RepliesDone(r)
  PROVE  WorkOf(r)'
<1>1. CASE \E status \in Ended : Finish(r, status)
  BY <1>1, FinishKeepsWork
<1>2. CASE ~\E status \in Ended : Finish(r, status)
  <2>1. /\ UNCHANGED <<todo, pending, replies>>
        /\ pc[r] \in {"post", "resolve"} /\ pc'[r] \in {"post", "resolve"}
        /\ at[r] \in DOMAIN replies[r] /\ at[r] \in Nat /\ DOMAIN replies[r] \subseteq Nat
    <3>1. HasReply(r)
      BY <1>2 DEF PostReply, PostFailed, Settle, ResolveFailed, NotifyRaised, RepliesDone,
                  ReadyToResolve, Ended, TypeInv, ReplyAtHand
    <3>2. at[r] \in DOMAIN replies[r] /\ at[r] \in Nat /\ DOMAIN replies[r] \subseteq Nat
      BY <3>1 DEF HasReply, TypeInv, TypeOK
    <3> QED
      BY <1>2, <3>2 DEF PostReply, PostFailed, Settle, ResolveFailed, NotifyRaised, RepliesDone,
                  ReadyToResolve, Goto, local, Ended, TypeInv, TypeOK
  <2>2. Picking(r)'
    BY <2>1 DEF WorkOf, Picking
  <2>3. Answering(r)'
    BY <2>1 DEF WorkOf, Answering
  <2>4. /\ posts' = posts \/ posts' = Posted(r)
        /\ handled'[r] \subseteq handled[r] \cup
             {[comment |-> Reply(r).comment, decision |-> Reply(r).decision]}
    BY <1>2 DEF PostReply, PostFailed, Settle, ResolveFailed, NotifyRaised, RepliesDone,
                github, local, TypeInv, TypeOK
  <2>5. \/ /\ pc[r] = "post" /\ pc'[r] = "resolve"
           /\ at'[r] = at[r] /\ handled' = handled /\ posts' = Posted(r)
        \/ pc'[r] = "post" /\ at'[r] = at[r] + 1
    BY <1>2 DEF PostReply, PostFailed, Settle, ResolveFailed, NotifyRaised, RepliesDone,
                Goto, Advance, local, Ended, TypeInv, TypeOK
  <2>6. /\ \A i \in DOMAIN replies[r] : Said(r, i) => Said(r, i)'
        /\ \A i \in DOMAIN replies[r] : Past(r, i) => Past(r, i)'
    BY <2>1, <2>5 DEF Said, Past
  <2>7. \A p \in posts' : p.run = r =>
          \E i \in DOMAIN replies[r] : Said(r, i)' /\ Matches(replies[r][i], p)
    <3>1. ASSUME NEW p \in posts, p.run = r
          PROVE  \E i \in DOMAIN replies[r] : Said(r, i)' /\ Matches(replies[r][i], p)
      BY <2>1, <2>6, <3>1 DEF WorkOf, Speaking
    <3>2. \A i \in DOMAIN replies[r] : i = at[r] => Said(r, i)'
      BY <2>1, <2>5 DEF Said
    <3> QED
      BY <2>1, <2>4, <3>1, <3>2 DEF Posted, Reply, Matches
  <2>8. \A h \in handled'[r] :
          \E i \in DOMAIN replies[r] : Past(r, i)' /\ Matches(replies[r][i], h)
    <3>1. ASSUME NEW h \in handled[r]
          PROVE  \E i \in DOMAIN replies[r] : Past(r, i)' /\ Matches(replies[r][i], h)
      BY <2>1, <2>6, <3>1 DEF WorkOf, Speaking
    <3>2. CASE handled' = handled
      BY <3>1, <3>2
    <3>3. CASE at'[r] = at[r] + 1
      <4>1. \A i \in DOMAIN replies[r] : i = at[r] => Past(r, i)'
        BY <2>1, <3>3 DEF Past
      <4> QED
        BY <2>1, <2>4, <3>1, <4>1 DEF Reply, Matches
    <3> QED
      BY <2>5, <3>2, <3>3
  <2>9. pc'[r] = "resolve" =>
          [run |-> r, comment |-> Reply(r).comment, decision |-> Reply(r).decision]' \in posts'
    BY <2>1, <2>5 DEF Posted, Reply
  <2> QED
    BY <2>1, <2>2, <2>3, <2>7, <2>8, <2>9 DEF WorkOf, Speaking, Ended
<1> QED
  BY <1>1, <1>2

LEMMA OutsideKeepsWork ==
  ASSUME TypeInv, NEW r \in Runs, WorkOf(r),
         Crash \/ HumanPush \/ HumanResolve \/ UNCHANGED vars
  PROVE  WorkOf(r)'
<1>1. CASE Crash /\ pc[r] \in {"waiting"} \cup Critical
  <2>1. /\ pc'[r] = "killed" /\ todo'[r] = <<>> /\ pending'[r] = <<>> /\ replies'[r] = <<>>
    BY <1>1 DEF Crash
  <2> QED
    BY <2>1 DEF WorkOf, Picking, Answering, Speaking, Ended
<1>2. CASE Crash /\ pc[r] \notin {"waiting"} \cup Critical
  <2>1. /\ pc'[r] = pc[r] /\ todo'[r] = <<>> /\ pending'[r] = pending[r] /\ replies'[r] = <<>>
        /\ UNCHANGED <<handled, posts>> /\ pc[r] \notin Critical
    BY <1>2 DEF Crash, github
  <2>2. Picking(r)'
    BY <2>1 DEF WorkOf, Picking, Critical
  <2> QED
    BY <2>1, <2>2 DEF WorkOf, Answering, Speaking, Critical
<1>3. CASE HumanPush \/ HumanResolve \/ UNCHANGED vars
  <2>1. UNCHANGED <<pc, at, todo, pending, replies, handled, posts>>
    BY <1>3 DEF HumanPush, HumanResolve, vars, local, github
  <2> QED
    BY <2>1 DEF WorkOf, Picking, Answering, Speaking, Said, Past, PendingComments, Reply
<1> QED
  BY <1>1, <1>2, <1>3

\* What a run adds to its clone is its own, or was fetched from the branch.
LEMMA ClonesStayOwn ==
  ASSUME TypeInv, ClonesAreOwn, [Next]_vars
  PROVE  ClonesAreOwn'
<1>1. branch \subseteq branch'
  BY BranchGrows
<1>2. ASSUME NEW r \in Runs, Step(r), NEW q \in Runs, NEW c \in clone'[q]
      PROVE  c \in branch' \/ c.run = q
  <2>1. CASE q # r
    <3>1. clone'[q] = clone[q]
      BY <1>2, <2>1, SelectingIsLocal, TriageIsLocal, PushingIsLocal, PostingIsLocal
         DEF Step, Work, LocalTo
    <3> QED
      BY <1>1, <1>2, <3>1 DEF ClonesAreOwn
  <2>2. CASE q = r
    <3>1. CASE Clone(r)
      BY <1>1, <1>2, <2>2, <3>1 DEF Clone, TypeInv, TypeOK
    <3>2. CASE TriageFix(r)
      <4>1. /\ clone'[r] = clone[r] \cup {FixCommit(r, pending[r][at[r]].comment)}
            /\ FixCommit(r, pending[r][at[r]].comment).run = r
        BY <3>2 DEF TriageFix, FixCommit, TypeInv, TypeOK
      <4> QED
        BY <1>1, <1>2, <2>2, <4>1 DEF ClonesAreOwn
    <3>3. CASE MergeLocally(r)
      <4>1. /\ clone'[r] \subseteq clone[r] \cup branch \cup {MergeCommit(r)}
            /\ MergeCommit(r).run = r
        BY <3>3 DEF MergeLocally, MergeCommit, TypeInv, TypeOK
      <4> QED
        BY <1>1, <1>2, <2>2, <4>1 DEF ClonesAreOwn
    <3>4. CASE ~(Clone(r) \/ TriageFix(r) \/ MergeLocally(r))
      <4>1. clone'[r] \subseteq clone[r]
        BY <1>2, <3>4
           DEF Step, Work, RefuseRepository, NotInvolved, CollectDelivered, CollectAll,
               CollectFrom, Acquire, Lookup, SweepList, LookupSwept, NothingPending,
               TriageToHuman, TriageSkip, TriageDismiss, NoPush, Push, PushRejected,
               PushUnconfirmed, MergeNothing, PushMerge, PushMergeFailed, PostReply,
               PostFailed, Settle, ResolveFailed, NotifyRaised, RepliesDone, Raise, Finish,
               TypeInv, TypeOK
      <4> QED
        BY <1>1, <1>2, <2>2, <4>1 DEF ClonesAreOwn
    <3> QED
      BY <3>1, <3>2, <3>3, <3>4
  <2> QED
    BY <2>1, <2>2
<1>3. CASE Crash
  BY <1>3 DEF Crash, ClonesAreOwn
<1>4. CASE HumanPush \/ HumanResolve \/ UNCHANGED vars
  BY <1>1, <1>4 DEF HumanPush, HumanResolve, vars, ClonesAreOwn
<1> QED
  BY <1>2, <1>3, <1>4 DEF Next, AllEnded, ClonesAreOwn

LEMMA WorkInvStep ==
  ASSUME WorkInv, [Next]_vars
  PROVE  WorkInv'
<1>1. SafeInv /\ TypeInv /\ SafeInv' /\ ClonesAreOwn'
  BY SafeInvStep, ClonesStayOwn DEF WorkInv, SafeInv
<1>2. ASSUME NEW r \in Runs, Step(r), NEW q \in Runs
      PROVE  WorkOf(q)'
  <2>1. CASE q = r
    BY <1>1, <1>2, <2>1, SelectingKeepsWork, TriageKeepsWork, PushingKeepsWork,
       PostingKeepsWork DEF Step, Work, WorkInv
  <2>2. CASE q # r
    <3>1. LocalTo(r, q)
      BY <1>1, <1>2, <2>2, SelectingIsLocal, TriageIsLocal, PushingIsLocal, PostingIsLocal
         DEF Step, Work
    <3> QED
      BY <2>2, <3>1, WorkKept DEF WorkInv
  <2> QED
    BY <2>1, <2>2
<1>3. ASSUME Crash \/ HumanPush \/ HumanResolve \/ UNCHANGED vars, NEW q \in Runs
      PROVE  WorkOf(q)'
  BY <1>1, <1>3, OutsideKeepsWork DEF WorkInv
<1> QED
  BY <1>1, <1>2, <1>3 DEF Next, AllEnded, WorkInv

LEMMA WorkInvHolds == Spec => []WorkInv
<1>1. Init => WorkInv
  <2> SUFFICES ASSUME Init PROVE WorkInv
    OBVIOUS
  <2>1. \A r \in Runs : WorkOf(r)
    BY DEF Init, WorkOf, Picking, Answering, Speaking
  <2> QED
    BY <2>1, SafeInvInit DEF Init, WorkInv, ClonesAreOwn
<1> QED
  BY <1>1, WorkInvStep, PTL DEF Spec

-----------------------------------------------------------------------------
(* Every step is a step of the bot *)

Speakable == {"fix", "dismiss", "skip", "needs_review"}

\* The reply at hand: to a comment of others, backed by its commit.
LEMMA ReplyAtHandIsBacked ==
  ASSUME WorkInv, NEW r \in Runs, pc[r] \in {"post", "resolve"}, HasReply(r)
  PROVE  /\ Reply(r).comment \in Comments
         /\ ThreadOf(Reply(r).comment) = Thread[Reply(r).comment]
         /\ Reply(r).decision \in Speakable
         /\ Bot!Backed(r, Reply(r).comment, Reply(r).decision)
         /\ \A h \in handled[r] : h.comment # Reply(r).comment
         /\ pc[r] = "post" => \A p \in posts : p.run = r => p.comment # Reply(r).comment
<1>1. /\ at[r] \in DOMAIN replies[r] /\ at[r] \in Nat /\ DOMAIN replies[r] \subseteq Nat
      /\ Reply(r) = replies[r][at[r]] /\ Reply(r) \in PendingReplies
  BY DEF HasReply, Reply, WorkInv, SafeInv, TypeInv, TypeOK
<1>2. Reply(r).comment \in Comments
  BY <1>1 DEF WorkInv, WorkOf, Answering, Picking
<1>3. Reply(r).decision \in Speakable
  BY <1>1 DEF PendingReplies, Decisions, Speakable
<1>4. Bot!Backed(r, Reply(r).comment, Reply(r).decision)
  BY <1>1 DEF Bot!Backed, WorkInv, SafeInv, QueuedFixesExist, FixCommit
<1>5. \A i \in DOMAIN replies[r] : replies[r][i].comment = Reply(r).comment => i = at[r]
  BY <1>1 DEF WorkInv, WorkOf, Answering, Picking
<1>6. Speaking(r)
  BY DEF WorkInv, WorkOf
<1>7. ASSUME NEW h \in handled[r]
      PROVE  h.comment # Reply(r).comment
  <2>1. PICK i \in DOMAIN replies[r] : i < at[r] /\ Matches(replies[r][i], h)
    BY <1>6 DEF Speaking, Past
  <2> QED
    BY <1>1, <1>5, <2>1 DEF Matches
<1>8. ASSUME pc[r] = "post", NEW p \in posts, p.run = r
      PROVE  p.comment # Reply(r).comment
  <2>1. PICK i \in DOMAIN replies[r] : i < at[r] /\ Matches(replies[r][i], p)
    BY <1>6, <1>8 DEF Speaking, Said
  <2> QED
    BY <1>1, <1>5, <2>1 DEF Matches
<1> QED
  BY <1>2, <1>3, <1>4, <1>7, <1>8 DEF ThreadOf

\* A push publishes what is the run's own, before it has said anything.
LEMMA PushPublishes ==
  ASSUME WorkInv, NEW r \in Runs, Push(r) \/ PushUnconfirmed(r) \/ PushMerge(r)
  PROVE  Bot!Publish(r)
<1>1. /\ UNCHANGED <<posts, resolved, handled>> /\ branch' = clone[r]
      /\ branch \subseteq clone[r] /\ pc[r] \in {"triage", "push_merge"}
  BY DEF Push, PushUnconfirmed, PushMerge, FastForward, TriageOver, local
<1>2. handled[r] = {} /\ \A p \in posts : p.run # r
  BY <1>1 DEF WorkInv, WorkOf, Speaking, Ended
<1>3. \A c \in clone[r] \ branch : c.run = r
  BY DEF WorkInv, ClonesAreOwn
<1> QED
  BY <1>1, <1>2, <1>3 DEF Bot!Publish

LEMMA PostAnswers ==
  ASSUME WorkInv, NEW r \in Runs, PostReply(r) \/ PostFailed(r)
  PROVE  \/ \E c \in Comments, d \in Speakable : Bot!Answer(r, c, d)
         \/ UNCHANGED <<branch, posts, resolved, handled>>
<1>1. /\ pc[r] = "post" /\ HasReply(r) /\ Reply(r).visible
      /\ posts' = posts \/ posts' = Posted(r)
      /\ UNCHANGED <<branch, resolved, handled>>
  BY DEF PostReply, PostFailed, local
<1>2. Reply(r).decision # "needs_review"
  <2>1. Reply(r) = replies[r][at[r]] /\ at[r] \in DOMAIN replies[r]
    BY <1>1 DEF HasReply, Reply, WorkInv, SafeInv, TypeInv, TypeOK
  <2> QED
    BY <1>1, <2>1 DEF WorkInv, WorkOf, Answering
<1>3. CASE posts' = Posted(r)
  <2>1. Bot!Answer(r, Reply(r).comment, Reply(r).decision)
    BY <1>1, <1>2, <1>3, ReplyAtHandIsBacked DEF Bot!Answer, Bot!Reply, Posted, Speakable
  <2> QED
    BY <1>1, <2>1, ReplyAtHandIsBacked
<1> QED
  BY <1>1, <1>3

\* What is resolved or counted has been answered, if there was something to say.
LEMMA SettleCounts ==
  ASSUME WorkInv, NEW r \in Runs, Settle(r) \/ NotifyRaised(r) \/ ResolveFailed(r)
  PROVE  \/ \E c \in Comments, d \in Speakable :
              Bot!Count(r, c, d) \/ Bot!ResolveUncounted(r, c, d)
         \/ UNCHANGED <<branch, posts, resolved, handled>>
<1> DEFINE c == Reply(r).comment
           d == Reply(r).decision
<1>1. /\ ReadyToResolve(r) /\ pc[r] \in {"post", "resolve"} /\ UNCHANGED <<branch, posts>>
      /\ HasReply(r)
  BY DEF Settle, NotifyRaised, ResolveFailed, ReadyToResolve, WorkInv, SafeInv, TypeInv,
         ReplyAtHand
<1>2. c \in Comments /\ d \in Speakable /\ Bot!Backed(r, c, d) /\ ThreadOf(c) = Thread[c]
  BY <1>1, ReplyAtHandIsBacked
<1>3. Bot!Answered(r, c, d)
  <2>1. CASE pc[r] = "resolve"
    BY <2>1 DEF Bot!Answered, Bot!Reply, WorkInv, WorkOf, Speaking
  <2>2. CASE ~Reply(r).visible
    <3>1. Reply(r) = replies[r][at[r]] /\ at[r] \in DOMAIN replies[r]
      BY <1>1 DEF HasReply, Reply, WorkInv, SafeInv, TypeInv, TypeOK
    <3> QED
      BY <2>2, <3>1 DEF Bot!Answered, WorkInv, WorkOf, Answering
  <2> QED
    BY <1>1, <2>1, <2>2 DEF ReadyToResolve
<1>4. /\ Resolves(Reply(r)) => d \in {"fix", "dismiss"}
      /\ ResolvedBy(Reply(r)) = resolved \cup {Thread[c]}
  BY <1>2 DEF Resolves, ResolvedBy
<1>5. Resolves(Reply(r)) /\ resolved' = ResolvedBy(Reply(r)) => Bot!Resolve(r, c, d)
  BY <1>2, <1>3, <1>4 DEF Bot!Resolve
<1>6. CASE Settle(r) \/ NotifyRaised(r)
  <2>1. /\ handled' = [handled EXCEPT ![r] = @ \cup {[comment |-> c, decision |-> d]}]
        /\ resolved' = IF Resolves(Reply(r)) THEN ResolvedBy(Reply(r)) ELSE resolved
    BY <1>6 DEF Settle, NotifyRaised
  <2>2. \A h \in handled[r] : h.comment # c
    BY <1>1, ReplyAtHandIsBacked
  <2>3. Bot!Count(r, c, d)
    BY <1>1, <1>2, <1>3, <1>5, <2>1, <2>2 DEF Bot!Count
  <2> QED
    BY <1>2, <2>3
<1>7. CASE ResolveFailed(r)
  <2>1. /\ Resolves(Reply(r)) /\ handled' = handled
        /\ resolved' = resolved \/ resolved' = ResolvedBy(Reply(r))
    BY <1>7 DEF ResolveFailed
  <2>2. CASE resolved' = ResolvedBy(Reply(r))
    BY <1>1, <1>2, <1>5, <2>1, <2>2 DEF Bot!ResolveUncounted
  <2> QED
    BY <1>1, <2>1, <2>2
<1> QED
  BY <1>6, <1>7

LEMMA StepIsBotStep ==
  ASSUME WorkInv, [Next]_vars
  PROVE  [Bot!Next]_(Bot!vars)
<1>1. ASSUME NEW r \in Runs, Step(r)
      PROVE  [Bot!Next]_(Bot!vars)
  <2>1. CASE Push(r) \/ PushUnconfirmed(r) \/ PushMerge(r)
    BY <2>1, PushPublishes DEF Bot!Next
  <2>2. CASE PostReply(r) \/ PostFailed(r)
    BY <2>2, PostAnswers DEF Bot!Next, Bot!vars, Speakable
  <2>3. CASE Settle(r) \/ NotifyRaised(r) \/ ResolveFailed(r)
    BY <2>3, SettleCounts DEF Bot!Next, Bot!vars, Speakable
  <2>4. CASE ~ \/ Push(r) \/ PushUnconfirmed(r) \/ PushMerge(r) \/ PostReply(r)
               \/ PostFailed(r) \/ Settle(r) \/ NotifyRaised(r) \/ ResolveFailed(r)
    <3>1. UNCHANGED <<branch, posts, resolved, handled>>
      BY <1>1, <2>4
         DEF Step, Work, RefuseRepository, NotInvolved, CollectDelivered, CollectAll,
             CollectFrom, Acquire, Lookup, SweepList, LookupSwept, NothingPending, Clone,
             TriageToHuman, TriageSkip, TriageDismiss, TriageFix, Queue, NoPush, PushRejected,
             MergeNothing, MergeLocally, PushMergeFailed, RepliesDone, Raise, github, local
    <3> QED
      BY <3>1 DEF Bot!vars
  <2> QED
    BY <2>1, <2>2, <2>3, <2>4
<1>2. CASE HumanPush
  <2>1. PICK n \in 1..MaxHumanPushes : branch' = branch \cup {HumanCommit(n)}
    BY <1>2 DEF HumanPush
  <2>2. HumanCommit(n).kind = "human"
    BY DEF HumanCommit
  <2>3. Bot!PeoplePush
    BY <1>2, <2>1, <2>2 DEF HumanPush, local, Bot!PeoplePush
  <2> QED
    BY <2>3 DEF Bot!Next
<1>3. CASE HumanResolve
  <2>1. Bot!PeopleClose
    BY <1>3 DEF HumanResolve, local, Bot!PeopleClose
  <2> QED
    BY <2>1 DEF Bot!Next
<1>4. CASE Crash \/ UNCHANGED vars
  BY <1>4 DEF Crash, vars, github, local, Bot!vars
<1> QED
  BY <1>1, <1>2, <1>3, <1>4 DEF Next, AllEnded

\* What reviewers and operators see is the plain bot, for any number of runs on
\* any pull request under any failures: a run publishes only its own commits and
\* before it speaks, answers a comment once, and resolves and counts only what
\* it has published and said.
THEOREM RunsActAsReviewBot == Spec => ActsAsReviewBot
<1>1. Init => Bot!Init
  BY DEF Init, Bot!Init
<1>2. WorkInv /\ [Next]_vars => [Bot!Next]_(Bot!vars)
  BY StepIsBotStep
<1> QED
  BY <1>1, <1>2, WorkInvHolds, PTL DEF Spec, ActsAsReviewBot, Bot!Spec

-----------------------------------------------------------------------------
(* The budget *)

\* The fixes of a run on the branch and in its clone are those it has replies
\* for: no more than it picked, and none on the branch before its push.
OwnFixes(S, r) == {c \in S : c.kind = "fix" /\ c.run = r}

QueuedFixes(r) ==
  {FixCommit(r, replies[r][i].comment) :
     i \in {j \in DOMAIN replies[r] : replies[r][j].decision = "fix"}}

FixesOf(r) ==
  /\ pc[r] \in {"idle", "waiting", "lookup", "sweep", "triage"} => OwnFixes(branch, r) = {}
  /\ pc[r] \in {"triage", "merge", "push_merge", "post", "resolve"} =>
       /\ Len(pending[r]) <= Budget
       /\ OwnFixes(branch \cup clone[r], r) \subseteq QueuedFixes(r)
  /\ pc[r] \in Ended => Cardinality(OwnFixes(branch, r)) <= Budget

FixesInv == \A r \in Runs : FixesOf(r)

LEMMA QueuedFixesBound ==
  ASSUME TypeInv, NEW r \in Runs, Answering(r), Len(pending[r]) <= Budget,
         NEW S, S \subseteq QueuedFixes(r)
  PROVE  Cardinality(S) <= Budget
<1> DEFINE n == Len(pending[r])
           f == [i \in 1..n |-> FixCommit(r, pending[r][i].comment)]
           T == {f[i] : i \in 1..n}
<1>1. n \in Nat /\ DOMAIN pending[r] = 1..n /\ Budget \in Nat
  BY SettingsAssumption DEF TypeInv, TypeOK, Budget
<1>2. S \subseteq T
  BY <1>1 DEF QueuedFixes, Answering
<1>3. f \in Surjection(1..n, T)
  BY DEF Surjection
<1>4. IsFiniteSet(1..n) /\ Cardinality(1..n) = n
  <2> HIDE DEF n, f, T
  <2>1. n \in Int /\ 1 \in Int /\ n >= 0
    BY <1>1
  <2>2. /\ IsFiniteSet(1..n)
        /\ Cardinality(1..n) = IF 1 > n THEN 0 ELSE n - 1 + 1
    BY <2>1, FS_Interval
  <2> QED
    BY <2>1, <2>2
<1> HIDE DEF f
<1>5. IsFiniteSet(T) /\ Cardinality(T) <= n
  BY <1>3, <1>4, FS_Surjection
<1>6. Cardinality(S) <= Cardinality(T) /\ Cardinality(S) \in Nat /\ Cardinality(T) \in Nat
  BY <1>2, <1>5, FS_Subset, FS_CardinalityType
<1> HIDE DEF T
<1> QED
  BY <1>1, <1>5, <1>6

\* A step of a run puts only its own commits on the branch.
LEMMA StepPublishesOwn ==
  ASSUME WorkInv, NEW r \in Runs, Step(r)
  PROVE  \A c \in branch' \ branch : c.run = r
<1>1. CASE Push(r) \/ PushUnconfirmed(r) \/ PushMerge(r)
  BY <1>1 DEF Push, PushUnconfirmed, PushMerge, WorkInv, ClonesAreOwn
<1>2. CASE ~(Push(r) \/ PushUnconfirmed(r) \/ PushMerge(r))
  BY <1>2
     DEF Step, Work, RefuseRepository, NotInvolved, CollectDelivered, CollectAll, CollectFrom,
         Acquire, Lookup, SweepList, LookupSwept, NothingPending, Clone, TriageToHuman,
         TriageSkip, TriageDismiss, TriageFix, Queue, NoPush, PushRejected, MergeNothing,
         MergeLocally, PushMergeFailed, PostReply, PostFailed, Settle, ResolveFailed,
         NotifyRaised, RepliesDone, Raise, github
<1> QED
  BY <1>1, <1>2

LEMMA StepIsLocal ==
  ASSUME TypeInv, NEW r \in Runs, Step(r), NEW q \in Runs \ {r}
  PROVE  LocalTo(r, q)
BY SelectingIsLocal, TriageIsLocal, PushingIsLocal, PostingIsLocal DEF Step, Work

LEMMA OthersKeepFixes ==
  ASSUME NEW r \in Runs, FixesOf(r), NEW b, branch' = b, branch \subseteq b,
         OwnFixes(b, r) = OwnFixes(branch, r),
         UNCHANGED <<pc[r], pending[r], replies[r], clone[r]>>
  PROVE  FixesOf(r)'
<1>1. OwnFixes(branch, r)' = OwnFixes(branch, r)
  BY DEF OwnFixes
<1>2. OwnFixes(branch \cup clone[r], r)' = OwnFixes(branch \cup clone[r], r)
  BY DEF OwnFixes
<1>3. QueuedFixes(r)' = QueuedFixes(r)
  BY DEF QueuedFixes
<1> QED
  BY <1>1, <1>2, <1>3 DEF FixesOf

\* A run that ends keeps what it has published.
LEMMA EndKeepsFixes ==
  ASSUME TypeInv, NEW r \in Runs, WorkOf(r), FixesOf(r), pc'[r] \in Ended,
         pc[r] \notin Ended, branch' = branch \/ (pc[r] = "triage" /\ branch' = clone[r])
  PROVE  FixesOf(r)'
<1>1. pc'[r] \notin {"idle", "waiting"} \cup Critical
  BY DEF Ended, Critical
<1>2. Cardinality(OwnFixes(branch', r)) <= Budget
  <2>1. CASE pc[r] \in {"idle", "waiting", "lookup", "sweep"}
    <3>1. OwnFixes(branch', r) = {}
      BY <2>1 DEF FixesOf
    <3> QED
      BY <3>1, FS_EmptySet, SettingsAssumption DEF Budget
  <2>2. CASE pc[r] \notin {"idle", "waiting", "lookup", "sweep"}
    <3>1. pc[r] \in {"triage", "merge", "push_merge", "post", "resolve"}
      BY <2>2 DEF TypeInv, TypeOK, Critical
    <3>2. OwnFixes(branch', r) \subseteq QueuedFixes(r) /\ Len(pending[r]) <= Budget
      BY <3>1 DEF FixesOf, OwnFixes
    <3> QED
      BY <3>2, QueuedFixesBound DEF WorkOf
  <2> QED
    BY <2>1, <2>2
<1>3. OwnFixes(branch, r)' = OwnFixes(branch', r)
  BY DEF OwnFixes
<1> QED
  BY <1>1, <1>2, <1>3 DEF FixesOf, Critical

\* The steps of the run itself: the cut to the budget, the commits, the push.
LEMMA RunKeepsFixes ==
  ASSUME WorkInv, NEW r \in Runs, FixesOf(r), Step(r)
  PROVE  FixesOf(r)'
<1>1. TypeInv /\ WorkOf(r)
  BY DEF WorkInv, SafeInv
<1>2. CASE \E status \in Ended : Finish(r, status)
  <2>1. pc'[r] \in Ended
    BY <1>1, <1>2 DEF Finish, Goto, TypeInv, TypeOK
  <2>2. /\ pc[r] \notin Ended
        /\ branch' = branch \/ (pc[r] = "triage" /\ branch' = clone[r])
    BY <1>1, <2>1 DEF Step, Work, RefuseRepository, NotInvolved, CollectDelivered, CollectAll,
         CollectFrom, Acquire, Lookup, SweepList, LookupSwept, NothingPending, Clone,
         TriageToHuman, TriageSkip, TriageDismiss, TriageFix, Queue, NoPush, Push,
         PushRejected, PushUnconfirmed, MergeNothing, MergeLocally, PushMerge,
         PushMergeFailed, PostReply, PostFailed, Settle, ResolveFailed, ReadyToResolve,
         NotifyRaised, RepliesDone, Raise, TriageOver, Goto, Ended, github, local, TypeInv, TypeOK
  <2> QED
    BY <1>1, <2>1, <2>2, EndKeepsFixes
<1>3. CASE /\ ~\E status \in Ended : Finish(r, status)
           /\ \/ CollectDelivered(r) \/ CollectAll(r) \/ Acquire(r) \/ Lookup(r)
              \/ SweepList(r) \/ LookupSwept(r)
  <2>1. /\ pc[r] \in {"idle", "waiting", "lookup", "sweep"}
        /\ pc'[r] \in {"idle", "waiting", "lookup", "sweep"} /\ branch' = branch
    BY <1>1, <1>3 DEF CollectDelivered, CollectAll, CollectFrom, Acquire, Lookup, SweepList,
         LookupSwept, Goto, github, Ended, TypeInv, TypeOK
  <2> QED
    BY <2>1 DEF FixesOf, OwnFixes, Ended
<1>4. CASE Clone(r)
  <2>1. /\ pc[r] = "sweep" /\ pc'[r] = "triage" /\ branch' = branch /\ clone'[r] = branch
        /\ pending'[r] = FirstN(pending[r], Budget)
        /\ pending[r] \in Seq(PendingItems) /\ Budget \in Nat
    BY <1>1, <1>4, SettingsAssumption DEF Clone, Goto, github, Budget, TypeInv, TypeOK
  <2>2. Len(pending'[r]) = IF Len(pending[r]) < Budget THEN Len(pending[r]) ELSE Budget
    BY <2>1, FirstNElements
  <2>3. Len(pending'[r]) <= Budget
    BY <2>1, <2>2
  <2>4. OwnFixes(branch, r) = {}
    BY <2>1 DEF FixesOf
  <2> QED
    BY <2>1, <2>3, <2>4 DEF FixesOf, OwnFixes, Ended
<1>5. CASE TriageToHuman(r) \/ TriageSkip(r) \/ TriageDismiss(r) \/ TriageFix(r)
  <2>1. PICK d \in Decisions, v \in BOOLEAN :
          /\ Queue(r, d, v)
          /\ \/ UNCHANGED clone
             \/ /\ d = "fix"
                /\ clone' = [clone EXCEPT ![r] =
                                @ \cup {FixCommit(r, pending[r][at[r]].comment)}]
    BY <1>5 DEF TriageToHuman, TriageSkip, TriageDismiss, TriageFix, Decisions, Visible
  <2> DEFINE reply == [comment |-> pending[r][at[r]].comment,
                       thread |-> pending[r][at[r]].thread,
                       decision |-> d, visible |-> v]
  <2>2. /\ pc[r] = "triage" /\ UNCHANGED <<pc, pending, branch>>
        /\ replies'[r] = Append(replies[r], reply) /\ replies[r] \in Seq(PendingReplies)
        /\ \/ clone'[r] = clone[r]
           \/ d = "fix" /\ clone'[r] = clone[r] \cup {FixCommit(r, reply.comment)}
    BY <1>1, <2>1 DEF Queue, github, TypeInv, TypeOK
  <2>3. reply.decision = d
    OBVIOUS
  <2> HIDE DEF reply
  <2>4. /\ Len(replies[r]) + 1 \in DOMAIN replies'[r]
        /\ replies'[r][Len(replies[r]) + 1] = reply
        /\ \A i \in DOMAIN replies[r] : i \in DOMAIN replies'[r] /\ replies'[r][i] = replies[r][i]
    BY <2>2
  <2>5. QueuedFixes(r) \subseteq QueuedFixes(r)'
    BY <2>4 DEF QueuedFixes
  <2>6. d = "fix" => FixCommit(r, reply.comment) \in QueuedFixes(r)'
    BY <2>3, <2>4 DEF QueuedFixes
  <2>7. OwnFixes(branch \cup clone[r], r) \subseteq QueuedFixes(r)
    BY <2>2 DEF FixesOf
  <2>8. OwnFixes(branch \cup clone[r], r)' \subseteq QueuedFixes(r)'
    BY <2>2, <2>5, <2>6, <2>7 DEF OwnFixes
  <2> QED
    BY <2>2, <2>8 DEF FixesOf, OwnFixes, Ended
<1>6. CASE /\ ~\E status \in Ended : Finish(r, status)
           /\ \/ NoPush(r) \/ Push(r) \/ PushRejected(r) \/ PushUnconfirmed(r) \/ MergeNothing(r)
              \/ MergeLocally(r) \/ PushMerge(r) \/ PushMergeFailed(r)
  <2>1. /\ pc[r] \in {"triage", "merge", "push_merge"} /\ pc'[r] \in {"merge", "push_merge", "post"}
        /\ UNCHANGED <<pending, replies>>
    BY <1>1, <1>6 DEF NoPush, Push, PushRejected, PushUnconfirmed, MergeNothing, MergeLocally,
         PushMerge, PushMergeFailed, TriageOver, Goto, local, Ended, TypeInv, TypeOK
  <2>2. \A c \in (branch \cup clone[r])' :
          c \in branch \cup clone[r] \/ c = MergeCommit(r)
    BY <1>1, <1>6 DEF NoPush, Push, PushRejected, PushUnconfirmed, MergeNothing, MergeLocally,
         PushMerge, PushMergeFailed, github, Ended, TypeInv, TypeOK
  <2>3. OwnFixes(branch \cup clone[r], r)' \subseteq OwnFixes(branch \cup clone[r], r)
    BY <2>2 DEF OwnFixes, MergeCommit
  <2>4. QueuedFixes(r)' = QueuedFixes(r)
    BY <2>1 DEF QueuedFixes
  <2> QED
    BY <2>1, <2>3, <2>4 DEF FixesOf, Ended
<1>7. CASE /\ ~\E status \in Ended : Finish(r, status)
           /\ \/ PostReply(r) \/ PostFailed(r) \/ Settle(r) \/ ResolveFailed(r)
              \/ NotifyRaised(r) \/ RepliesDone(r)
  <2>1. /\ pc[r] \in {"post", "resolve"} /\ pc'[r] \in {"post", "resolve"}
        /\ UNCHANGED <<pending, replies, clone, branch>>
    BY <1>1, <1>7 DEF PostReply, PostFailed, Settle, ResolveFailed, NotifyRaised, RepliesDone,
         ReadyToResolve, Goto, local, github, Ended, TypeInv, TypeOK
  <2> QED
    BY <2>1 DEF FixesOf, OwnFixes, QueuedFixes, Ended
<1> QED
  BY <1>2, <1>3, <1>4, <1>5, <1>6, <1>7
     DEF Step, Work, RefuseRepository, NotInvolved, NothingPending, Raise, Ended

LEMMA FixesInvStep ==
  ASSUME WorkInv, FixesInv, [Next]_vars
  PROVE  FixesInv'
<1>1. branch \subseteq branch' /\ TypeInv
  BY BranchGrows DEF WorkInv, SafeInv
<1>2. ASSUME NEW q \in Runs, Step(q), NEW r \in Runs
      PROVE  FixesOf(r)'
  <2>1. CASE q = r
    BY <1>2, <2>1, RunKeepsFixes DEF FixesInv
  <2>2. CASE q # r
    <3>1. UNCHANGED <<pc[r], pending[r], replies[r], clone[r]>>
      BY <1>1, <1>2, <2>2, StepIsLocal DEF LocalTo
    <3>2. \A c \in branch' \ branch : c.run # r
      BY <1>2, <2>2, StepPublishesOwn
    <3>3. OwnFixes(branch', r) = OwnFixes(branch, r)
      BY <1>1, <3>2 DEF OwnFixes
    <3> QED
      BY <1>1, <3>1, <3>3, OthersKeepFixes DEF FixesInv
  <2> QED
    BY <2>1, <2>2
<1>3. ASSUME Crash, NEW r \in Runs
      PROVE  FixesOf(r)'
  <2>1. CASE pc[r] \in {"waiting"} \cup Critical
    <3>1. pc'[r] \in Ended /\ pc[r] \notin Ended /\ branch' = branch
      BY <1>3, <2>1 DEF Crash, Ended, Critical, github
    <3> QED
      BY <1>1, <3>1, EndKeepsFixes DEF WorkInv, FixesInv
  <2>2. CASE pc[r] \notin {"waiting"} \cup Critical
    <3>1. pc'[r] = pc[r] /\ branch' = branch
      BY <1>3, <2>2 DEF Crash, github
    <3> QED
      BY <2>2, <3>1 DEF FixesInv, FixesOf, OwnFixes, Critical
  <2> QED
    BY <2>1, <2>2
<1>4. ASSUME HumanPush \/ HumanResolve \/ UNCHANGED vars, NEW r \in Runs
      PROVE  FixesOf(r)'
  <2>1. UNCHANGED <<pc, pending, replies, clone>>
    BY <1>4 DEF HumanPush, HumanResolve, vars, local
  <2>2. \A c \in branch' \ branch : c.kind = "human"
    <3>1. \A n \in 1..MaxHumanPushes : HumanCommit(n).kind = "human"
      BY DEF HumanCommit
    <3> QED
      BY <1>4, <3>1 DEF HumanPush, HumanResolve, vars, github
  <2>3. OwnFixes(branch', r) = OwnFixes(branch, r)
    BY <1>1, <2>2 DEF OwnFixes
  <2> QED
    BY <1>1, <2>1, <2>3, OthersKeepFixes DEF FixesInv
<1> QED
  BY <1>2, <1>3, <1>4 DEF Next, AllEnded, FixesInv

LEMMA FixesInvHolds == Spec => [](WorkInv /\ FixesInv)
<1>1. Init => FixesInv
  BY DEF Init, FixesInv, FixesOf, OwnFixes, Ended
<1> QED
  BY <1>1, FixesInvStep, WorkInvHolds, PTL DEF Spec

\* No trigger puts more than twice MaxComments fixes on the branch, however many
\* comments the sweep finds and whatever fails.
THEOREM BlastRadiusHolds == Spec => []BlastRadius
<1>1. WorkInv /\ FixesInv => BlastRadius
  <2> SUFFICES ASSUME WorkInv, FixesInv, NEW r \in Runs
               PROVE  Cardinality(OwnFixes(branch, r)) <= 2 * MaxComments
    BY DEF BlastRadius, OwnFixes
  <2>1. TypeInv /\ Answering(r) /\ FixesOf(r)
    BY DEF WorkInv, WorkOf, SafeInv, FixesInv
  <2>2. Budget = 2 * MaxComments /\ Budget \in Nat
    BY SettingsAssumption DEF Budget
  <2>3. CASE pc[r] \in {"idle", "waiting", "lookup", "sweep"}
    <3>1. OwnFixes(branch, r) = {} /\ Cardinality({}) = 0
      BY <2>1, <2>3, FS_EmptySet DEF FixesOf
    <3> QED
      BY <2>2, <3>1
  <2>4. CASE pc[r] \in {"triage", "merge", "push_merge", "post", "resolve"}
    <3>1. OwnFixes(branch, r) \subseteq QueuedFixes(r) /\ Len(pending[r]) <= Budget
      BY <2>1, <2>4 DEF FixesOf, OwnFixes
    <3> QED
      BY <2>1, <2>2, <3>1, QueuedFixesBound
  <2>5. CASE pc[r] \in Ended
    BY <2>1, <2>2, <2>5 DEF FixesOf
  <2> QED
    BY <2>1, <2>3, <2>4, <2>5 DEF TypeInv, TypeOK, Critical
<1> QED
  BY <1>1, FixesInvHolds, PTL

-----------------------------------------------------------------------------
(* When GitHub answers *)

\* Every call is answered, no exception is raised and the process stays up.
\* People may push and resolve, and the model's replies may be blank.
Reliable == Environment \cap {"github_error", "lookup_miss", "exception", "crash"} = {}

\* The thread of what was fixed or dismissed is resolved.
Settled(x) == x.decision \in {"fix", "dismiss"} => ThreadOf(x.comment) \in resolved

\* Every thread that was looked up was found open.
ThreadsFound(r) ==
  /\ \A i \in DOMAIN pending[r] : pending[r][i].thread = "open"
  /\ \A i \in DOMAIN replies[r] : replies[r][i].thread = "open"

\* The loop settles and counts every reply it is past.
LoopSettles(r) ==
  /\ pc[r] \in {"merge", "push_merge"} => at[r] = 1
  /\ pc[r] \in {"post", "resolve"} =>
       \A i \in DOMAIN replies[r] : Past(r, i) =>
         /\ Settled(replies[r][i])
         /\ \E h \in handled[r] : Matches(replies[r][i], h)

\* A run that is over has settled what it has published, said and counted, and
\* has counted what it had picked.
EndSettles(r) ==
  pc[r] \in Ended =>
    /\ \A c \in OwnFixes(branch, r) : ThreadOf(c.n) \in resolved
    /\ \A p \in posts : p.run = r => Settled(p)
    /\ \A h \in handled[r] : Settled(h)
    /\ PendingComments(r) = {h.comment : h \in handled[r]}

\* Nobody else has settled what the run inside the lock has picked.
Alone(r) ==
  pc[r] \in Critical => \A c \in PendingComments(r) :
    /\ \A f \in branch : f.kind = "fix" /\ f.n = c => f.run = r
    /\ \A p \in posts : p.comment = c /\ p.decision \in {"fix", "dismiss"} => p.run = r

\* What is open and a bot's is picked or still to be looked up, until the cut.
Outstanding(r) ==
  {c \in BotAuthored : Thread[c] = c /\ c \notin resolved /\ c \notin PendingComments(r)}

Exhausts(r) ==
  /\ pc[r] = "sweep" =>
       \A c \in Outstanding(r) : \E i \in DOMAIN todo[r] : i >= at[r] /\ todo[r][i] = c
  /\ pc[r] = "triage" => Len(pending[r]) = Budget \/ Outstanding(r) = {}

ReliableOf(r) ==
  ThreadsFound(r) /\ LoopSettles(r) /\ EndSettles(r) /\ Alone(r) /\ Exhausts(r)

FixesAreOurs == \A f \in branch : f.kind = "fix" => f.run \in Runs

ReliableInv ==
  /\ \A r \in Runs : ReliableOf(r)
  /\ FixesAreOurs
  /\ SettledOnce


\* The list of a sweep leaves out no candidate.
LEMMA AscendingCovers ==
  ASSUME NEW S, S \subseteq Ids, NEW s \in Ascending(S), NEW c \in S
  PROVE  \E i \in DOMAIN s : s[i] = c
<1> DEFINE n == Cardinality(S)
<1>1. IsFiniteSet(Ids)
  BY CommentsAssumption, FS_Interval DEF Ids
<1>2. IsFiniteSet(S) /\ n \in Nat
  BY <1>1, FS_Subset, FS_CardinalityType
<1>3. s \in [1..n -> S] /\ \A i, j \in 1..n : s[i] = s[j] => i = j
  BY AscendingElements DEF Ascending
<1> HIDE DEF n
<1>4. Cardinality(1..n) = n
  <2>1. n \in Int /\ 1 \in Int /\ n >= 0
    BY <1>2
  <2>2. Cardinality(1..n) = IF 1 > n THEN 0 ELSE n - 1 + 1
    BY <2>1, FS_Interval
  <2> QED
    BY <2>1, <2>2
<1>5. s \in Injection(1..n, S)
  BY <1>3 DEF Injection, IsInjective
<1>6. s \in Surjection(1..n, S)
  <2>1. Cardinality(1..n) = Cardinality(S)
    BY <1>4 DEF n
  <2> QED
    BY <1>2, <1>5, <2>1, FS_Injection
<1> QED
  BY <1>3, <1>6 DEF Surjection

LEMMA ReliableSteps ==
  ASSUME Reliable, NEW r \in Runs
  PROVE  /\ ~(PostFailed(r) \/ ResolveFailed(r) \/ NotifyRaised(r) \/ PushUnconfirmed(r) \/ Raise(r))
         /\ ~Crash
         /\ \A c : ThreadViews(c) = {IF ThreadOf(c) \in resolved THEN "resolved" ELSE "open"}
         /\ "github_error" \notin Environment
BY DEF Reliable, PostFailed, ResolveFailed, NotifyRaised, PushUnconfirmed, Raise, Crash, ThreadViews

LEMMA ResolvedGrows ==
  ASSUME [Next]_vars
  PROVE  resolved \subseteq resolved'
<1>1. ASSUME NEW r \in Runs, Step(r)
      PROVE  resolved \subseteq resolved'
  BY <1>1
     DEF Step, Work, RefuseRepository, NotInvolved, CollectDelivered, CollectAll, CollectFrom,
         Acquire, Lookup, SweepList, LookupSwept, NothingPending, Clone, TriageToHuman,
         TriageSkip, TriageDismiss, TriageFix, Queue, NoPush, Push, PushRejected,
         PushUnconfirmed, MergeNothing, MergeLocally, PushMerge, PushMergeFailed, PostReply,
         PostFailed, Settle, ResolveFailed, NotifyRaised, RepliesDone, Raise, ResolvedBy, github
<1>2. CASE Crash \/ HumanPush \/ HumanResolve \/ UNCHANGED vars
  BY <1>2 DEF Crash, HumanPush, HumanResolve, vars, github
<1> QED
  BY <1>1, <1>2 DEF Next, AllEnded

\* What others do does not concern a run: while it is in the lock they settle
\* nothing.
LEMMA OthersKeepReliable ==
  ASSUME NEW r \in Runs, ReliableOf(r), resolved \subseteq resolved',
         UNCHANGED <<pc[r], at[r], todo[r], pending[r], replies[r], handled[r]>>,
         \A c \in branch' \ branch : c.kind # "fix" \/ (c.run # r /\ pc[r] \notin Critical),
         \A p \in posts' \ posts : p.run # r /\ pc[r] \notin Critical
  PROVE  ReliableOf(r)'
<1>1. PendingComments(r)' = PendingComments(r)
  BY DEF PendingComments
<1>2. \A x : Settled(x) => Settled(x)'
  BY DEF Settled
<1>3. ThreadsFound(r)'
  BY DEF ReliableOf, ThreadsFound
<1>4. LoopSettles(r)'
  BY <1>2 DEF ReliableOf, LoopSettles, Past
<1>5. EndSettles(r)'
  BY <1>1, <1>2 DEF ReliableOf, EndSettles, OwnFixes
<1>6. Alone(r)'
  BY <1>1 DEF ReliableOf, Alone
<1>7. Exhausts(r)'
  <2>1. Outstanding(r)' \subseteq Outstanding(r)
    BY <1>1 DEF Outstanding
  <2> QED
    BY <2>1 DEF ReliableOf, Exhausts
<1> QED
  BY <1>3, <1>4, <1>5, <1>6, <1>7 DEF ReliableOf

\* A comment that is picked is in an open thread, so nobody else has settled it:
\* the others are out of the lock, and resolved what they settled.
LEMMA OpenIsUnsettled ==
  ASSUME WorkInv, FixesInv, ReliableInv, NEW r \in Runs, pc[r] \in Critical,
         NEW c \in Comments, Thread[c] \notin resolved
  PROVE  /\ \A f \in branch : f.kind = "fix" /\ f.n = c => f.run = r
         /\ \A p \in posts : p.comment = c /\ p.decision \in {"fix", "dismiss"} => p.run = r
<1>1. ThreadOf(c) \notin resolved /\ SafeInv /\ TypeOK
  BY DEF ThreadOf, WorkInv, SafeInv, TypeInv
<1>2. \A q \in Runs \ {r} : pc[q] \in {"idle", "waiting"} \cup Ended
  BY <1>1, OneAtATime DEF TypeOK
<1>3. ASSUME NEW f \in branch, f.kind = "fix", f.n = c, f.run # r
      PROVE  FALSE
  <2>1. f.run \in Runs \ {r} /\ f \in OwnFixes(branch, f.run)
    BY <1>3 DEF ReliableInv, FixesAreOurs, OwnFixes
  <2>2. pc[f.run] \in Ended
    BY <1>2, <2>1 DEF FixesInv, FixesOf
  <2> QED
    BY <1>1, <1>3, <2>1, <2>2 DEF ReliableInv, ReliableOf, EndSettles
<1>4. ASSUME NEW p \in posts, p.comment = c, p.decision \in {"fix", "dismiss"}, p.run # r
      PROVE  FALSE
  <2>1. p.run \in Runs \ {r}
    BY <1>1, <1>4 DEF TypeOK
  <2>2. pc[p.run] \in Ended
    BY <1>2, <2>1 DEF WorkInv, WorkOf, Speaking, Ended
  <2> QED
    BY <1>1, <1>4, <2>1, <2>2 DEF ReliableInv, ReliableOf, EndSettles, Settled
<1> QED
  BY <1>3, <1>4

\* A run that ends before its push has nothing to settle.
LEMMA EarlyEnd ==
  ASSUME WorkInv, FixesInv, NEW r \in Runs, ReliableOf(r),
         NEW status \in Ended, Finish(r, status),
         pc[r] \in {"idle", "waiting", "lookup", "sweep", "triage"},
         pending[r] = <<>> \/ status # "ok",
         UNCHANGED <<branch, resolved, posts, handled>>
  PROVE  ReliableOf(r)'
<1>1. /\ pc'[r] = status /\ pending'[r] = <<>> /\ replies'[r] = <<>>
  BY DEF Finish, Goto, WorkInv, SafeInv, TypeInv, TypeOK
<1>2. status \notin Critical
  BY DEF Ended, Critical
<1>3. /\ OwnFixes(branch, r)' = {} /\ handled'[r] = {} /\ \A p \in posts' : p.run # r
      /\ PendingComments(r)' = {}
  <2>1. OwnFixes(branch, r)' = {}
    BY DEF FixesInv, FixesOf, OwnFixes
  <2>2. handled'[r] = {} /\ \A p \in posts' : p.run # r
    BY DEF WorkInv, WorkOf, Speaking, Ended
  <2> QED
    BY <1>1, <2>1, <2>2 DEF PendingComments
<1>4. EndSettles(r)'
  BY <1>3 DEF EndSettles
<1> QED
  BY <1>1, <1>2, <1>4 DEF ReliableOf, ThreadsFound, LoopSettles, Alone, Exhausts, Critical

LEMMA ReadThreadKeepsReliable ==
  ASSUME Reliable, WorkInv, FixesInv, ReliableInv, NEW r \in Runs,
         pc[r] \in {"lookup", "sweep"}, at[r] <= Len(todo[r]), ReadThread(r),
         UNCHANGED <<pc, todo, replies, branch, resolved, posts>>
  PROVE  ReliableOf(r)'
<1> DEFINE c == todo[r][at[r]]
           item == [comment |-> c, thread |-> "open"]
<1>1. /\ at[r] \in Nat \ {0} /\ at[r] \in DOMAIN todo[r] /\ DOMAIN todo[r] \subseteq Nat
      /\ at'[r] = at[r] + 1
      /\ pending[r] \in Seq(PendingItems) /\ pc[r] \in Critical
  BY DEF ReadThread, Advance, WorkInv, SafeInv, TypeInv, TypeOK, Critical
<1>2. c \in Comments /\ ThreadOf(c) = Thread[c]
  BY <1>1 DEF WorkInv, WorkOf, Picking, ThreadOf
<1>3. pending'[r] = IF Thread[c] \in resolved THEN pending[r] ELSE Append(pending[r], item)
  BY <1>2, ReliableSteps DEF ReadThread, WorkInv, SafeInv, TypeInv, TypeOK
<1>4. item.comment = c /\ item.thread = "open"
  OBVIOUS
<1> HIDE DEF item
<1>5. CASE Thread[c] \in resolved
  <2>1. pending'[r] = pending[r]
    BY <1>3, <1>5
  <2>2. PendingComments(r)' = PendingComments(r)
    BY <2>1 DEF PendingComments
  <2>3. ThreadsFound(r)' /\ Alone(r)'
    BY <2>1, <2>2 DEF ReliableInv, ReliableOf, ThreadsFound, Alone
  <2>4. Outstanding(r)' = Outstanding(r) /\ c \notin Outstanding(r)
    BY <1>5, <2>2 DEF Outstanding
  <2>5. ASSUME pc[r] = "sweep", NEW d \in Outstanding(r)
        PROVE  \E i \in DOMAIN todo[r] : i >= at[r] + 1 /\ todo[r][i] = d
    <3>1. PICK i \in DOMAIN todo[r] : i >= at[r] /\ todo[r][i] = d
      BY <2>5 DEF ReliableInv, ReliableOf, Exhausts
    <3>2. i # at[r]
      BY <2>4, <3>1
    <3> QED
      BY <1>1, <3>1, <3>2
  <2> QED
    BY <1>1, <2>3, <2>4, <2>5 DEF ReliableOf, LoopSettles, EndSettles, Exhausts, Ended
<1>6. CASE Thread[c] \notin resolved
  <2>1. pending'[r] = Append(pending[r], item)
    BY <1>3, <1>6
  <2>2. \A i \in DOMAIN pending'[r] :
          \/ i \in DOMAIN pending[r] /\ pending'[r][i] = pending[r][i]
          \/ pending'[r][i] = item
    BY <1>1, <2>1
  <2>3. /\ \A i \in DOMAIN pending[r] : i \in DOMAIN pending'[r] /\ pending'[r][i] = pending[r][i]
        /\ Len(pending[r]) + 1 \in DOMAIN pending'[r]
        /\ pending'[r][Len(pending[r]) + 1] = item
    BY <1>1, <2>1
  <2>4. PendingComments(r)' = PendingComments(r) \cup {c}
    BY <1>4, <2>2, <2>3 DEF PendingComments
  <2>5. ThreadsFound(r)'
    BY <1>4, <2>2 DEF ReliableInv, ReliableOf, ThreadsFound
  <2>6. Alone(r)'
    <3>1. Alone(r)
      BY DEF ReliableInv, ReliableOf
    <3> QED
      BY <1>1, <1>2, <1>6, <2>4, <3>1, OpenIsUnsettled DEF Alone
  <2>7. Outstanding(r)' = Outstanding(r) \ {c}
    BY <2>4 DEF Outstanding
  <2>8. ASSUME pc[r] = "sweep", NEW d \in Outstanding(r) \ {c}
        PROVE  \E i \in DOMAIN todo[r] : i >= at[r] + 1 /\ todo[r][i] = d
    <3>1. PICK i \in DOMAIN todo[r] : i >= at[r] /\ todo[r][i] = d
      BY <2>8 DEF ReliableInv, ReliableOf, Exhausts
    <3>2. i # at[r]
      BY <2>8, <3>1
    <3> QED
      BY <1>1, <3>1, <3>2
  <2> QED
    BY <1>1, <2>5, <2>6, <2>7, <2>8 DEF ReliableOf, LoopSettles, EndSettles, Exhausts, Ended
<1> QED
  BY <1>5, <1>6

LEMMA SelectingKeepsReliable ==
  ASSUME Reliable, WorkInv, FixesInv, ReliableInv, NEW r \in Runs,
         RefuseRepository(r) \/ NotInvolved(r) \/ CollectDelivered(r) \/ CollectAll(r)
           \/ Acquire(r) \/ Lookup(r) \/ SweepList(r)
           \/ LookupSwept(r) \/ NothingPending(r) \/ Clone(r)
  PROVE  ReliableOf(r)'
<1>1. TypeInv /\ TypeOK /\ Picking(r) /\ ReliableOf(r) /\ replies[r] \in Seq(PendingReplies)
  BY DEF WorkInv, SafeInv, TypeInv, TypeOK, WorkOf, ReliableInv
<1>2. CASE \E status \in Ended : Finish(r, status)
  <2>1. /\ pc[r] \in {"idle", "waiting", "lookup", "sweep"} /\ pending[r] = <<>>
        /\ UNCHANGED <<branch, resolved, posts, handled>>
    <3>1. pc[r] = "idle" => pending[r] = <<>>
      BY <1>1 DEF Picking
    <3>2. pc'[r] \in Ended
      BY <1>1, <1>2 DEF Finish, Goto, TypeOK
    <3> QED
      BY <1>1, <3>1, <3>2 DEF RefuseRepository, NotInvolved, CollectDelivered, CollectAll, CollectFrom,
           Acquire, Lookup, SweepList, LookupSwept, NothingPending, Clone, Goto, github, Ended, TypeOK
  <2> QED
    BY <1>1, <1>2, <2>1, EarlyEnd
<1>3. CASE ~\E status \in Ended : Finish(r, status)
  <2>1. UNCHANGED <<replies, branch, resolved, posts>>
    BY <1>3 DEF RefuseRepository, NotInvolved, CollectDelivered, CollectAll, CollectFrom,
         Acquire, Lookup, SweepList, LookupSwept, NothingPending, Clone, github, Ended
  <2>2. CASE CollectDelivered(r) \/ CollectAll(r)
    <3>1. pc'[r] = "waiting" /\ pending' = pending
      BY <1>1, <1>3, <2>2 DEF CollectDelivered, CollectAll, CollectFrom, Goto, Ended, TypeOK
    <3> QED
      BY <1>1, <2>1, <3>1 DEF ReliableOf, ThreadsFound, LoopSettles, EndSettles, Alone, Exhausts,
                              Critical, Ended
  <2>3. CASE Acquire(r)
    <3>1. pc'[r] = "lookup" /\ pending' = pending /\ pending[r] = <<>>
      BY <1>1, <2>3 DEF Acquire, Goto, Picking, TypeOK
    <3>2. PendingComments(r)' = {}
      BY <3>1 DEF PendingComments
    <3> QED
      BY <1>1, <2>1, <3>1, <3>2 DEF ReliableOf, ThreadsFound, LoopSettles, EndSettles, Alone,
                                    Exhausts, Ended
  <2>4. CASE Lookup(r) \/ LookupSwept(r)
    <3>1. /\ at[r] <= Len(todo[r]) /\ ReadThread(r) /\ UNCHANGED <<pc, todo>>
          /\ pc[r] \in {"lookup", "sweep"}
      BY <1>1, <2>4 DEF Lookup, LookupOver, LookupSwept, TypeOK
    <3> QED
      BY <2>1, <3>1, ReadThreadKeepsReliable
  <2>5. CASE SweepList(r)
    <3>1. PICK t \in Ascending(SweepCandidates(r)) : todo' = [todo EXCEPT ![r] = t]
      BY <2>5, ReliableSteps DEF SweepList
    <3>2. SweepCandidates(r) \subseteq Ids
      BY <1>1, ListedType DEF SweepCandidates
    <3>3. \A c \in SweepCandidates(r) : \E i \in DOMAIN t : t[i] = c
      BY <3>1, <3>2, AscendingCovers
    <3>4. \A i \in DOMAIN t : i >= 1
      BY <3>1, <3>2, AscendingType
    <3>5. /\ pc[r] = "lookup" /\ pc'[r] = "sweep" /\ todo'[r] = t /\ at'[r] = 1
          /\ pending' = pending
      BY <1>1, <2>5, <3>1 DEF SweepList, Goto, Restart, TypeOK
    <3>6. PendingComments(r)' = PendingComments(r)
      BY <3>5 DEF PendingComments
    <3>7. Outstanding(r)' \subseteq SweepCandidates(r)
      BY <2>1, <3>6, CommentsAssumption
         DEF Outstanding, SweepCandidates, Listed, Actionable, IsReply, HasMarker
    <3>8. Exhausts(r)'
      BY <3>3, <3>4, <3>5, <3>7 DEF Exhausts
    <3> QED
      BY <1>1, <2>1, <3>5, <3>6, <3>8
         DEF ReliableOf, ThreadsFound, LoopSettles, EndSettles, Alone, Critical, Ended
  <2>6. CASE Clone(r)
    <3>1. /\ pc[r] = "sweep" /\ pc'[r] = "triage" /\ at[r] > Len(todo[r])
          /\ pending'[r] = FirstN(pending[r], Budget)
          /\ pending[r] \in Seq(PendingItems) /\ Budget \in Nat
          /\ todo[r] \in Seq(Ids) /\ at[r] \in Nat
      BY <1>1, <2>6, SettingsAssumption DEF Clone, Goto, Budget, TypeOK
    <3>2. /\ Len(pending'[r]) = IF Len(pending[r]) < Budget THEN Len(pending[r]) ELSE Budget
          /\ \A i \in DOMAIN pending'[r] :
               i \in DOMAIN pending[r] /\ pending'[r][i] = pending[r][i]
      BY <3>1, FirstNElements
    <3>3. PendingComments(r)' \subseteq PendingComments(r)
      BY <3>2 DEF PendingComments
    <3>4. Outstanding(r) = {}
      <4>1. \A i \in DOMAIN todo[r] : ~(i >= at[r])
        BY <3>1
      <4> QED
        BY <1>1, <3>1, <4>1 DEF ReliableOf, Exhausts
    <3>5. ASSUME Len(pending'[r]) # Budget
          PROVE  Outstanding(r)' = {}
      <4>1. pending'[r] \in Seq(PendingItems)
        BY <3>1, FirstNType
      <4>2. Len(pending'[r]) = Len(pending[r])
        BY <3>2, <3>5
      <4>3. \A i \in DOMAIN pending[r] : i \in DOMAIN pending'[r] /\ pending'[r][i] = pending[r][i]
        BY <3>1, <3>2, <4>1, <4>2
      <4>4. PendingComments(r) \subseteq PendingComments(r)'
        BY <4>3 DEF PendingComments
      <4> QED
        BY <2>1, <3>4, <4>4 DEF Outstanding
    <3>6. ThreadsFound(r)'
      BY <1>1, <2>1, <3>2 DEF ReliableOf, ThreadsFound
    <3>7. Alone(r)'
      BY <1>1, <2>1, <3>1, <3>3 DEF ReliableOf, Alone, Critical
    <3> QED
      BY <3>1, <3>5, <3>6, <3>7 DEF ReliableOf, LoopSettles, EndSettles, Exhausts, Ended
  <2> QED
    BY <1>3, <2>2, <2>3, <2>4, <2>5, <2>6
       DEF RefuseRepository, NotInvolved, NothingPending, Ended
<1> QED
  BY <1>2, <1>3

LEMMA TriageKeepsReliable ==
  ASSUME WorkInv, ReliableInv, NEW r \in Runs,
         TriageToHuman(r) \/ TriageSkip(r) \/ TriageDismiss(r) \/ TriageFix(r)
  PROVE  ReliableOf(r)'
<1>1. ReliableOf(r)
  BY DEF ReliableInv
<1>2. PICK d \in Decisions, v \in BOOLEAN : Queue(r, d, v)
  BY VisibleType DEF TriageToHuman, TriageSkip, TriageDismiss, TriageFix, Decisions
<1> DEFINE reply == [comment |-> pending[r][at[r]].comment, thread |-> pending[r][at[r]].thread,
                     decision |-> d, visible |-> v]
<1>3. /\ pc[r] = "triage" /\ UNCHANGED <<pc, pending, branch, resolved, posts>>
      /\ replies'[r] = Append(replies[r], reply) /\ replies[r] \in Seq(PendingReplies)
      /\ at[r] \in DOMAIN pending[r]
  BY <1>2 DEF Queue, github, WorkInv, SafeInv, TypeInv, TypeOK
<1>4. reply.thread = "open"
  BY <1>1, <1>3 DEF ReliableOf, ThreadsFound
<1> HIDE DEF reply
<1>5. \A i \in DOMAIN replies'[r] :
        (i \in DOMAIN replies[r] /\ replies'[r][i] = replies[r][i]) \/ replies'[r][i] = reply
  BY <1>3
<1>6. PendingComments(r)' = PendingComments(r)
  BY <1>3 DEF PendingComments
<1>7. ThreadsFound(r)'
  BY <1>1, <1>3, <1>4, <1>5 DEF ReliableOf, ThreadsFound
<1>8. Outstanding(r)' = Outstanding(r)
  BY <1>3, <1>6 DEF Outstanding
<1> QED
  BY <1>1, <1>3, <1>6, <1>7, <1>8
     DEF ReliableOf, LoopSettles, EndSettles, Alone, Exhausts, Ended

LEMMA PushingKeepsReliable ==
  ASSUME Reliable, WorkInv, FixesInv, ReliableInv, NEW r \in Runs,
         NoPush(r) \/ Push(r) \/ PushRejected(r) \/ MergeNothing(r)
           \/ MergeLocally(r) \/ PushMerge(r) \/ PushMergeFailed(r)
  PROVE  ReliableOf(r)'
<1>1. ReliableOf(r) /\ TypeOK
  BY DEF ReliableInv, WorkInv, SafeInv, TypeInv
<1>2. CASE PushRejected(r)
  <2>1. /\ Finish(r, "error") /\ pc[r] = "triage" /\ UNCHANGED <<branch, resolved, posts, handled>>
    BY <1>2 DEF PushRejected, TriageOver, github
  <2> QED
    BY <1>1, <2>1, EarlyEnd DEF Ended
<1>3. CASE NoPush(r) \/ Push(r) \/ MergeNothing(r) \/ MergeLocally(r) \/ PushMerge(r)
             \/ PushMergeFailed(r)
  <2>1. /\ UNCHANGED <<pending, replies, resolved, posts>>
        /\ pc[r] \in {"triage", "merge", "push_merge"}
        /\ pc'[r] \in {"merge", "push_merge", "post"}
        /\ at'[r] = 1 \/ (pc[r] # "triage" /\ at' = at)
    BY <1>1, <1>3 DEF NoPush, Push, MergeNothing, MergeLocally, PushMerge, PushMergeFailed,
         TriageOver, Goto, Restart, github, local, TypeOK
  <2>2. at'[r] = 1
    BY <1>1, <2>1 DEF ReliableOf, LoopSettles
  <2>3. \A i \in DOMAIN replies[r] : ~Past(r, i)'
    <3>1. \A i \in DOMAIN replies[r] : i \in Nat /\ i >= 1
      BY <1>1 DEF TypeOK
    <3>2. \A i \in DOMAIN replies[r] : ~(i < 1)
      BY <3>1
    <3> QED
      BY <2>2, <3>2 DEF Past
  <2>4. LoopSettles(r)'
    BY <2>1, <2>2, <2>3 DEF LoopSettles
  <2>5. PendingComments(r)' = PendingComments(r)
    BY <2>1 DEF PendingComments
  <2>6. \A f \in branch' \ branch : f.run = r
    BY <1>3, StepPublishesOwn DEF Step, Work
  <2>7. Alone(r)'
    BY <1>1, <2>1, <2>5, <2>6 DEF ReliableOf, Alone, Critical
  <2> QED
    BY <1>1, <2>1, <2>4, <2>7 DEF ReliableOf, ThreadsFound, EndSettles, Exhausts, Ended
<1> QED
  BY <1>2, <1>3

\* The reply at hand belongs to what the run has picked; settling it leaves
\* nothing of it open.
LEMMA PostingKeepsReliable ==
  ASSUME Reliable, WorkInv, FixesInv, ReliableInv, NEW r \in Runs,
         PostReply(r) \/ Settle(r) \/ RepliesDone(r)
  PROVE  ReliableOf(r)'
<1>1. ReliableOf(r) /\ TypeOK /\ WorkOf(r) /\ FixesOf(r)
  BY DEF ReliableInv, WorkInv, FixesInv, SafeInv, TypeInv
<1>2. /\ pc[r] \in {"post", "resolve"} /\ at[r] \in Nat \ {0} /\ DOMAIN replies[r] \subseteq Nat
      /\ replies[r] \in Seq(PendingReplies) /\ pending[r] \in Seq(PendingItems)
  BY <1>1 DEF PostReply, Settle, RepliesDone, ReadyToResolve, TypeOK
<1>3. CASE PostReply(r)
  <2>1. /\ pc'[r] = "resolve" /\ UNCHANGED <<at, pending, replies, handled, branch, resolved>>
        /\ \A p \in posts' \ posts : p.run = r
    BY <1>1, <1>3 DEF PostReply, Goto, Posted, local, TypeOK
  <2>2. PendingComments(r)' = PendingComments(r)
    BY <2>1 DEF PendingComments
  <2>3. LoopSettles(r)'
    BY <1>1, <1>2, <2>1 DEF ReliableOf, LoopSettles, Past, Settled
  <2>4. Alone(r)'
    BY <1>1, <1>2, <2>1, <2>2 DEF ReliableOf, Alone, Critical
  <2> QED
    BY <1>1, <2>1, <2>3, <2>4 DEF ReliableOf, ThreadsFound, EndSettles, Exhausts, Ended
<1>4. CASE Settle(r)
  <2>1. /\ pc'[r] = "post" /\ UNCHANGED <<pending, replies, branch, posts>>
        /\ at'[r] = at[r] + 1
        /\ handled'[r] = handled[r] \cup
              {[comment |-> Reply(r).comment, decision |-> Reply(r).decision]}
        /\ resolved' = IF Resolves(Reply(r)) THEN ResolvedBy(Reply(r)) ELSE resolved
    BY <1>1, <1>4 DEF Settle, Goto, Advance, TypeOK
  <2>2. at[r] \in DOMAIN replies[r] /\ Reply(r) = replies[r][at[r]]
    BY <1>2, <1>4 DEF Settle, ReadyToResolve, HasReply, Reply, WorkInv, SafeInv, TypeInv,
                      ReplyAtHand
  <2>3. \A x : x = Reply(r) => Settled(x)'
    <3>1. Reply(r).thread = "open"
      BY <1>1, <2>2 DEF ReliableOf, ThreadsFound
    <3> QED
      BY <2>1, <3>1 DEF Resolves, ResolvedBy, Settled
  <2>4. \A x : Settled(x) => Settled(x)'
    BY <2>1 DEF Settled, ResolvedBy
  <2>5. ASSUME NEW i \in DOMAIN replies[r], i < at[r] + 1
        PROVE  /\ Settled(replies[r][i])'
               /\ \E h \in handled'[r] : Matches(replies[r][i], h)
    <3>1. CASE i = at[r]
      <4>1. replies[r][i] = Reply(r) /\ replies'[r][i] = Reply(r)
        BY <2>1, <2>2, <3>1
      <4>2. Settled(replies[r][i])'
        <5>1. \A x : x = replies'[r][i] => Settled(x)'
          BY <2>3, <4>1
        <5> QED
          BY <5>1 DEF Settled
      <4>3. Matches(replies[r][i], [comment |-> Reply(r).comment, decision |-> Reply(r).decision])
        BY <4>1 DEF Matches
      <4> QED
        BY <2>1, <4>2, <4>3
    <3>2. CASE i < at[r]
      BY <1>1, <1>2, <2>1, <2>4, <3>2 DEF ReliableOf, LoopSettles, Past
    <3> QED
      BY <1>2, <2>5, <3>1, <3>2
  <2>6. LoopSettles(r)'
    BY <2>1, <2>5 DEF LoopSettles, Past
  <2>7. PendingComments(r)' = PendingComments(r)
    BY <2>1 DEF PendingComments
  <2>8. Alone(r)'
    BY <1>1, <1>2, <2>1, <2>7 DEF ReliableOf, Alone, Critical
  <2> QED
    BY <1>1, <2>1, <2>6, <2>8 DEF ReliableOf, ThreadsFound, EndSettles, Exhausts, Ended
<1>5. CASE RepliesDone(r)
  <2>1. /\ pc[r] = "post" /\ pc'[r] = "ok" /\ pending'[r] = pending[r] /\ replies'[r] = <<>>
        /\ UNCHANGED <<handled, branch, resolved, posts>> /\ at[r] > Len(replies[r])
    BY <1>1, <1>2, <1>5 DEF RepliesDone, HasReply, Finish, Goto, github, TypeOK
  <2>2. \A i \in DOMAIN replies[r] :
          Settled(replies[r][i]) /\ \E h \in handled[r] : Matches(replies[r][i], h)
    <3>1. \A i \in DOMAIN replies[r] : i < at[r]
      BY <1>2, <2>1
    <3> QED
      BY <1>1, <2>1, <3>1 DEF ReliableOf, LoopSettles, Past
  <2>3. ASSUME NEW c \in OwnFixes(branch, r)
        PROVE  ThreadOf(c.n) \in resolved
    <3>1. c \in QueuedFixes(r)
      BY <1>1, <2>1 DEF FixesOf, OwnFixes
    <3>2. PICK i \in DOMAIN replies[r] :
            replies[r][i].decision = "fix" /\ c.n = replies[r][i].comment
      BY <3>1 DEF QueuedFixes, FixCommit
    <3> QED
      BY <2>2, <3>2 DEF Settled
  <2>4. ASSUME NEW p \in posts, p.run = r
        PROVE  Settled(p)
    BY <1>1, <2>1, <2>2, <2>4 DEF WorkOf, Speaking, Matches, Settled
  <2>5. ASSUME NEW h \in handled[r]
        PROVE  Settled(h) /\ h.comment \in PendingComments(r)
    <3>1. PICK i \in DOMAIN replies[r] : Matches(replies[r][i], h)
      BY <1>1, <2>1 DEF WorkOf, Speaking
    <3> QED
      BY <1>1, <2>2, <3>1 DEF Matches, Settled, WorkOf, Answering, PendingComments
  <2>6. ASSUME NEW i \in DOMAIN pending[r]
        PROVE  \E h \in handled[r] : h.comment = pending[r][i].comment
    <3>1. Len(replies[r]) = Len(pending[r])
      BY <1>1, <2>1 DEF WorkOf, Answering
    <3>2. i \in DOMAIN replies[r]
      BY <1>2, <3>1
    <3> QED
      BY <1>1, <2>2, <3>2 DEF Matches, WorkOf, Answering
  <2>7. PendingComments(r) = {h.comment : h \in handled[r]}
    BY <2>5, <2>6 DEF PendingComments
  <2>8. EndSettles(r)'
    BY <2>1, <2>3, <2>4, <2>5, <2>7 DEF EndSettles, OwnFixes, Settled, PendingComments
  <2> QED
    BY <1>1, <2>1, <2>8 DEF ReliableOf, ThreadsFound, LoopSettles, Alone, Exhausts, Critical
<1> QED
  BY <1>3, <1>4, <1>5

\* What a step publishes or says is about a comment its run has picked.
LEMMA NewIsPicked ==
  ASSUME WorkInv, FixesInv, NEW r \in Runs, Step(r)
  PROVE  /\ \A f \in branch' \ branch : f.kind = "fix" =>
              f.run = r /\ pc[r] \in Critical /\ f.n \in PendingComments(r)
         /\ \A p \in posts' \ posts :
              p.run = r /\ pc[r] \in Critical /\ p.comment \in PendingComments(r)
<1>1. TypeInv /\ TypeOK /\ WorkOf(r) /\ FixesOf(r)
  BY DEF WorkInv, FixesInv, SafeInv, TypeInv
<1>2. \A i \in DOMAIN replies[r] : replies[r][i].comment \in PendingComments(r)
  BY <1>1 DEF WorkOf, Answering, PendingComments
<1>3. ASSUME NEW f \in branch' \ branch, f.kind = "fix"
      PROVE  f.run = r /\ pc[r] \in Critical /\ f.n \in PendingComments(r)
  <2>1. f.run = r
    BY <1>3, StepPublishesOwn
  <2>2. pc[r] \in {"triage", "push_merge"} /\ branch' = clone[r]
    <3>1. CASE Push(r) \/ PushUnconfirmed(r) \/ PushMerge(r)
      BY <3>1 DEF Push, PushUnconfirmed, PushMerge, TriageOver
    <3>2. CASE ~(Push(r) \/ PushUnconfirmed(r) \/ PushMerge(r))
      <4>1. branch' = branch
        BY <3>2
           DEF Step, Work, RefuseRepository, NotInvolved, CollectDelivered, CollectAll,
               CollectFrom, Acquire, Lookup, SweepList, LookupSwept, NothingPending, Clone,
               TriageToHuman, TriageSkip, TriageDismiss, TriageFix, Queue, NoPush,
               PushRejected, MergeNothing, MergeLocally, PushMergeFailed, PostReply,
               PostFailed, Settle, ResolveFailed, NotifyRaised, RepliesDone, Raise, github
      <4> QED
        BY <1>3, <4>1
    <3> QED
      BY <3>1, <3>2
  <2>3. f \in QueuedFixes(r)
    BY <1>1, <1>3, <2>1, <2>2 DEF FixesOf, OwnFixes
  <2> QED
    BY <1>2, <2>1, <2>2, <2>3 DEF QueuedFixes, FixCommit, Critical
<1>4. ASSUME NEW p \in posts' \ posts
      PROVE  p.run = r /\ pc[r] \in Critical /\ p.comment \in PendingComments(r)
  <2>1. CASE PostReply(r) \/ PostFailed(r)
    <3>1. /\ pc[r] = "post" /\ HasReply(r)
          /\ p = [run |-> r, comment |-> Reply(r).comment, decision |-> Reply(r).decision]
      BY <1>4, <2>1 DEF PostReply, PostFailed, Posted
    <3>2. at[r] \in DOMAIN replies[r] /\ Reply(r) = replies[r][at[r]]
      BY <1>1, <3>1 DEF HasReply, Reply, TypeOK
    <3> QED
      BY <1>2, <3>1, <3>2 DEF Critical
  <2>2. CASE ~(PostReply(r) \/ PostFailed(r))
    <3>1. posts' = posts
      BY <2>2
         DEF Step, Work, RefuseRepository, NotInvolved, CollectDelivered, CollectAll,
             CollectFrom, Acquire, Lookup, SweepList, LookupSwept, NothingPending, Clone,
             TriageToHuman, TriageSkip, TriageDismiss, TriageFix, Queue, NoPush, Push,
             PushRejected, PushUnconfirmed, MergeNothing, MergeLocally, PushMerge,
             PushMergeFailed, Settle, ResolveFailed, NotifyRaised, RepliesDone, Raise,
             github, local
    <3> QED
      BY <1>4, <3>1
  <2> QED
    BY <2>1, <2>2
<1> QED
  BY <1>3, <1>4

LEMMA ReliableInvStep ==
  ASSUME Reliable, WorkInv, FixesInv, ReliableInv, [Next]_vars
  PROVE  ReliableInv'
<1>1. SafeInv /\ TypeInv /\ TypeOK /\ resolved \subseteq resolved'
  BY ResolvedGrows DEF WorkInv, SafeInv, TypeInv
<1>2. ASSUME NEW r \in Runs, Step(r)
      PROVE  ReliableInv'
  <2>1. /\ \A f \in branch' \ branch : f.kind = "fix" =>
              f.run = r /\ pc[r] \in Critical /\ f.n \in PendingComments(r)
        /\ \A p \in posts' \ posts :
              p.run = r /\ pc[r] \in Critical /\ p.comment \in PendingComments(r)
    BY <1>2, NewIsPicked
  <2>2. ASSUME NEW q \in Runs
        PROVE  ReliableOf(q)'
    <3>1. CASE q = r
      BY <1>2, <3>1, ReliableSteps, SelectingKeepsReliable, TriageKeepsReliable,
         PushingKeepsReliable, PostingKeepsReliable DEF Step, Work
    <3>2. CASE q # r
      <4>1. UNCHANGED <<pc[q], at[q], todo[q], pending[q], replies[q], handled[q]>>
        BY <1>1, <1>2, <3>2, StepIsLocal DEF LocalTo
      <4>2. pc[r] \in Critical => pc[q] \notin Critical
        BY <1>1, <3>2, OneAtATime
      <4>3. ReliableOf(q)
        BY DEF ReliableInv
      <4>4. \A c \in branch' \ branch : c.kind # "fix" \/ (c.run # q /\ pc[q] \notin Critical)
        BY <2>1, <3>2, <4>2
      <4>5. \A p \in posts' \ posts : p.run # q /\ pc[q] \notin Critical
        BY <2>1, <3>2, <4>2
      <4> QED
        BY <1>1, <4>1, <4>3, <4>4, <4>5, OthersKeepReliable
    <3> QED
      BY <3>1, <3>2
  <2>3. FixesAreOurs'
    BY <2>1 DEF ReliableInv, FixesAreOurs
  <2>4. /\ pc[r] \in Critical => Alone(r)
        /\ SettledOnce
    BY DEF ReliableInv, ReliableOf
  <2>5. \A c, d \in branch' : c.kind = "fix" /\ d.kind = "fix" /\ c.n = d.n => c.run = d.run
    BY <2>1, <2>4 DEF Alone, SettledOnce
  <2>6. \A p, q \in posts' :
          p.comment = q.comment /\ {p.decision, q.decision} \subseteq {"fix", "dismiss"} =>
            p.run = q.run
    BY <2>1, <2>4 DEF Alone, SettledOnce
  <2> QED
    BY <2>2, <2>3, <2>5, <2>6 DEF ReliableInv, SettledOnce
<1>3. CASE HumanPush \/ HumanResolve \/ UNCHANGED vars
  <2>1. UNCHANGED <<pc, at, todo, pending, replies, handled, posts>>
    BY <1>3 DEF HumanPush, HumanResolve, vars, local, github
  <2>2. \A c \in branch' \ branch : c.kind # "fix"
    <3>1. \A n \in 1..MaxHumanPushes : HumanCommit(n).kind = "human"
      BY DEF HumanCommit
    <3> QED
      BY <1>3, <3>1 DEF HumanPush, HumanResolve, vars, github
  <2>3. \A q \in Runs : ReliableOf(q)'
    BY <1>1, <2>1, <2>2, OthersKeepReliable DEF ReliableInv
  <2>4. FixesAreOurs' /\ SettledOnce'
    BY <2>1, <2>2 DEF ReliableInv, FixesAreOurs, SettledOnce
  <2> QED
    BY <2>3, <2>4 DEF ReliableInv
<1>4. ~Crash
  BY DEF Reliable, Crash
<1> QED
  BY <1>2, <1>3, <1>4 DEF Next, AllEnded

LEMMA ReliableInvHolds == Spec => [](WorkInv /\ FixesInv /\ (Reliable => ReliableInv))
<1>1. Init => ReliableInv
  <2> SUFFICES ASSUME Init PROVE ReliableInv
    OBVIOUS
  <2>1. \A r \in Runs : ReliableOf(r)
    BY DEF Init, ReliableOf, ThreadsFound, LoopSettles, EndSettles, Alone, Exhausts, Ended,
           Critical
  <2> QED
    BY <2>1 DEF Init, ReliableInv, FixesAreOurs, SettledOnce
<1>2. WorkInv /\ FixesInv /\ (Reliable => ReliableInv) /\ [Next]_vars => (Reliable => ReliableInv)'
  BY ReliableInvStep DEF Reliable
<1> QED
  BY <1>1, <1>2, FixesInvHolds, PTL DEF Spec

\* No two runs fix a comment, or post a fix or a dismissal below it, however the
\* deliveries of a review queue on the lock.
THEOREM NothingSettledTwice == Spec => [](Reliable => SettledOnce)
<1>1. (Reliable => ReliableInv) => (Reliable => SettledOnce)
  BY DEF ReliableInv
<1> QED
  BY <1>1, ReliableInvHolds, PTL

\* Status "ok" means that every comment the run picked is counted, and its
\* thread resolved if that was due.
THEOREM OkIsSettled == Spec => [](Reliable => OkMeansSettled)
<1>1. ReliableInv => OkMeansSettled
  BY DEF ReliableInv, ReliableOf, EndSettles, Settled, OkMeansSettled, Ended
<1> QED
  BY <1>1, ReliableInvHolds, PTL

\* A run starts its triage with every open thread a bot started, or with as many
\* as its budget allows.
THEOREM SweepLeavesNothing == Spec => [](Reliable => SweepIsExhaustive)
<1>1. ReliableInv => SweepIsExhaustive
  BY DEF ReliableInv, ReliableOf, Exhausts, Outstanding, SweepIsExhaustive
<1> QED
  BY <1>1, ReliableInvHolds, PTL

\* When GitHub answers, no step of any run picks a comment of a thread that is
\* resolved at that moment: what a person resolved while the run was queued on
\* the lock is left alone.
THEOREM ResolvedAreLeftAlone == Spec => (Reliable => ResolvedThreadsSkipped)
<1>1. ASSUME Reliable, WorkInv, [Next]_vars,
             NEW r \in Runs, NEW c \in Comments,
             c \in PendingComments(r)' \ PendingComments(r)
      PROVE  Thread[c] \notin resolved
  <2>1. TypeInv /\ TypeOK
    BY <1>1 DEF WorkInv, SafeInv, TypeInv
  <2>2. pending[r]' # pending[r]
    BY <1>1 DEF PendingComments
  <2>3. PICK q \in Runs : Step(q)
    <3>1. CASE Crash
      BY <1>1, <3>1 DEF Reliable, Crash
    <3>2. CASE HumanPush \/ HumanResolve \/ UNCHANGED vars
      BY <2>2, <3>2 DEF HumanPush, HumanResolve, vars, local
    <3> QED
      BY <1>1, <3>1, <3>2 DEF Next, AllEnded
  <2>4. q = r
    BY <2>1, <2>2, <2>3, StepIsLocal DEF LocalTo
  <2>5. pending[r] \in Seq(PendingItems)
    BY <2>1 DEF TypeOK
  <2>6. CASE Lookup(r) \/ LookupSwept(r)
    <3>1. PICK view \in ThreadViews(todo[r][at[r]]) :
            pending' = [pending EXCEPT ![r] =
              IF view = "resolved" THEN @
              ELSE Append(@, [comment |-> todo[r][at[r]], thread |-> view])]
      BY <2>6 DEF Lookup, LookupSwept, ReadThread
    <3>2. view # "resolved" /\ c = todo[r][at[r]]
      <4>1. pending'[r] = pending[r]
              \/ (view # "resolved" /\
                  pending'[r] = Append(pending[r], [comment |-> todo[r][at[r]], thread |-> view]))
        BY <2>1, <3>1 DEF TypeOK
      <4>2. PICK i \in DOMAIN pending'[r] : pending'[r][i].comment = c
        BY <1>1 DEF PendingComments
      <4>3. i \notin DOMAIN pending[r] \/ pending[r][i].comment # c
        BY <1>1 DEF PendingComments
      <4> QED
        BY <2>2, <2>5, <4>1, <4>2, <4>3
    <3>3. Thread[c] = ThreadOf(c)
      BY DEF ThreadOf
    <3> QED
      BY <1>1, <3>1, <3>2, <3>3 DEF ThreadViews, Reliable
  <2>7. CASE ~(Lookup(r) \/ LookupSwept(r))
    <3>1. \/ pending'[r] = <<>>
          \/ pending'[r] = pending[r]
          \/ pending'[r] = FirstN(pending[r], Budget)
      BY <2>1, <2>3, <2>4, <2>7
         DEF TypeOK, Step, Work, RefuseRepository, NotInvolved, CollectDelivered, CollectAll,
             CollectFrom, Acquire, SweepList, NothingPending, Clone, TriageToHuman,
             TriageSkip, TriageDismiss, TriageFix, Queue, NoPush, Push, PushRejected,
             PushUnconfirmed, MergeNothing, MergeLocally, PushMerge, PushMergeFailed,
             PostReply, PostFailed, Settle, ResolveFailed, NotifyRaised, RepliesDone, Raise,
             Finish, local
    <3>2. PendingComments(r)' \subseteq PendingComments(r)
      <4>1. pending'[r] = FirstN(pending[r], Budget) =>
              \A i \in DOMAIN pending'[r] : i \in DOMAIN pending[r] /\ pending'[r][i] = pending[r][i]
        BY <2>5, SettingsAssumption DEF FirstN, Budget
      <4> QED
        BY <3>1, <4>1 DEF PendingComments
    <3> QED
      BY <1>1, <3>2
  <2> QED
    BY <2>6, <2>7
<1>2. Reliable /\ WorkInv /\ [Next]_vars =>
        [\A r \in Runs : \A c \in Comments :
           c \in PendingComments(r)' \ PendingComments(r) => Thread[c] \notin resolved]_vars
  BY <1>1
<1>3. CASE Reliable
  BY <1>2, <1>3, ReliableInvHolds, PTL DEF Spec, ResolvedThreadsSkipped
<1>4. CASE ~Reliable
  BY <1>4
<1> QED
  BY <1>3, <1>4

=============================================================================
