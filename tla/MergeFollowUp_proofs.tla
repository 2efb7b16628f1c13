------------------------ MODULE MergeFollowUp_proofs ------------------------
(***************************************************************************)
(* What is proved about MergeFollowUp for every set of paths, every pair   *)
(* of branch names (equal ones included) and every environment.            *)
(***************************************************************************)
EXTENDS MergeFollowUp, TLAPS

-----------------------------------------------------------------------------
(* The attempt, step by step *)

Resolved(f) ==
  /\ \A p \in Paths : f[p] # "markers"
  /\ \A p \in conflicts \ Outside : f[p] = "resolved"

\* Only the clone that is about to push has the merge commit: until then nobody
\* has it on GitHub, and it was not fetched.
Unmerged ==
  /\ MergeCommit \notin baseRef
  /\ pc \notin {"push", "done"} => MergeCommit \notin head
  /\ pc = "push" => MergeCommit \in head
  /\ pc # "done" => /\ \A b \in Branches : MergeCommit \notin remote[b]
                    /\ notified = "nothing"

\* The working tree: clean, then with the markers git leaves, then resolved.
WorkingTree ==
  /\ pc \in {"unshallow", "fetch", "merge"} => file = Clean /\ conflicts = {}
  /\ pc \in {"snapshot", "ask", "check", "write"} =>
       file = [p \in Paths |-> IF p \in conflicts \ Outside THEN "markers" ELSE "ours"]
  /\ pc = "write" => Missing = {} /\ MarkerOffenders = {}
  /\ pc = "commit" => Resolved(file)
  /\ pc = "push" => Resolved(tree)

\* README: "never pushes a half-resolved state".  A merge on GitHub has none of
\* git's conflict markers, and for every conflicting path that is not a link out
\* of the repository a resolution the model gave.
MergesAreResolved == Merged => Resolved(tree)

AttemptInv ==
  /\ TypeOK
  /\ Unmerged
  /\ WorkingTree
  /\ MergesAreResolved
  /\ AbortLeavesBranch

-----------------------------------------------------------------------------
(* Lemmas *)

LEMMA CommitFacts ==
  /\ {RootCommit, FixCommit, BaseCommit, MergeCommit} \subseteq Commits
  /\ HumanCommits \subseteq Commits
  /\ MergeCommit \notin HumanCommits \cup {RootCommit, FixCommit, BaseCommit}
BY BoundAssumption
   DEF RootCommit, FixCommit, BaseCommit, MergeCommit, HumanCommits, Commits

\* An answer that passes both checks, as _write_merge_resolutions writes it.
LEMMA WriteResolves ==
  ASSUME AttemptInv, Write
  PROVE  Resolved(file)'
<1>1. /\ answer \subseteq Files
      /\ conflicts \subseteq Paths
      /\ conflicts' = conflicts
      /\ Missing = {} /\ MarkerOffenders = {}
      /\ file = [p \in Paths |-> IF p \in conflicts \ Outside THEN "markers" ELSE "ours"]
  BY DEF AttemptInv, TypeOK, WorkingTree, Write
<1>2. ASSUME NEW p \in conflicts \ Outside
      PROVE  file'[p] = "resolved"
  <2>1. PICK f \in answer : f.path = p
    BY <1>1, <1>2 DEF Missing
  <2>2. Resolutions(p) # {}
    BY <1>2, <2>1 DEF Resolutions, ToApply
  <2>3. Resolutions(p) \subseteq {"resolved"}
    BY <1>1 DEF Resolutions, ToApply, MarkerOffenders, Files
  <2> QED
    BY <1>1, <1>2, <2>2, <2>3 DEF Write
<1>3. ASSUME NEW p \in Paths
      PROVE  file'[p] # "markers"
  <2>1. CASE p \in conflicts \ Outside
    BY <1>2, <2>1
  <2>2. CASE p \notin conflicts \ Outside
    <3>1. file[p] = "ours"
      BY <1>1, <2>2
    <3>2. p \notin Outside => Resolutions(p) = {}
      BY <2>2 DEF Resolutions, ToApply
    <3> QED
      BY <3>1, <3>2 DEF Write
  <2> QED
    BY <2>1, <2>2
<1> QED
  BY <1>1, <1>2, <1>3 DEF Resolved

-----------------------------------------------------------------------------
(* Every step keeps the invariant *)

LEMMA AttemptInvInit == Init => AttemptInv
<1> SUFFICES ASSUME Init PROVE AttemptInv
  OBVIOUS
<1>1. TypeOK
  BY CommitFacts DEF Init, TypeOK, Steps, Clean, Contents, Branches
<1>2. Unmerged
  BY CommitFacts DEF Init, Unmerged, Branches
<1>3. WorkingTree
  BY DEF Init, WorkingTree
<1>4. ~Merged
  BY CommitFacts DEF Init, Merged, Branches
<1> QED
  BY <1>1, <1>2, <1>3, <1>4 DEF AttemptInv, MergesAreResolved, AbortLeavesBranch

\* git fetch and git merge.
LEMMA FetchingKeepsInv ==
  ASSUME AttemptInv,
         Unshallow \/ Fetch \/ FetchFailed \/ MergeRefused \/ UpToDate \/ CleanMerge \/ Conflict
  PROVE  AttemptInv'
<1> USE DEF Unshallow, Fetch, FetchFailed, MergeRefused, UpToDate, CleanMerge, Conflict, Goto,
            Fails, AbortMerge, tells
<1>1. TypeOK /\ Unmerged /\ WorkingTree /\ ~Merged
  BY DEF AttemptInv, Unmerged, Merged, Branches
<1>2. TypeOK'
  BY <1>1 DEF TypeOK, Steps, Clean, Contents, Branches
<1>3. Unmerged' /\ ~Merged'
  BY <1>1 DEF Unmerged, Merged, Branches
<1>4. WorkingTree'
  BY <1>1 DEF TypeOK, WorkingTree, Resolved, Clean
<1> QED
  BY <1>2, <1>3, <1>4 DEF AttemptInv, MergesAreResolved, AbortLeavesBranch

\* The model's answer and the checks on it.
LEMMA AskingKeepsInv ==
  ASSUME AttemptInv,
         Snapshot \/ NothingReadable \/ Declined \/ AskRaised \/ Answered \/ Rejected \/ Accepted
  PROVE  AttemptInv'
<1> USE DEF Snapshot, NothingReadable, Declined, AskRaised, Answered, Rejected, Accepted, Goto,
            Fails, AbortMerge, tells
<1>1. TypeOK /\ Unmerged /\ WorkingTree /\ ~Merged
  BY DEF AttemptInv, Unmerged, Merged, Branches
<1>2. TypeOK'
  <2>1. [path : Readable, content : {"resolved"}] \subseteq Files
    BY <1>1 DEF TypeOK, Readable, Files
  <2> QED
    BY <1>1, <2>1 DEF TypeOK, Steps, Clean, Contents
<1>3. Unmerged' /\ ~Merged'
  BY <1>1 DEF Unmerged, Merged, Branches
<1>4. WorkingTree'
  BY <1>1 DEF TypeOK, WorkingTree, Missing, MarkerOffenders, ToApply
<1> QED
  BY <1>2, <1>3, <1>4 DEF AttemptInv, MergesAreResolved, AbortLeavesBranch

\* Writing, committing and pushing the merge.
LEMMA MergingKeepsInv ==
  ASSUME AttemptInv, Write \/ Commit \/ CommitFailed \/ Push \/ PushFailed
  PROVE  AttemptInv'
<1> USE DEF Write, Commit, CommitFailed, Push, PushFailed, Goto, Fails, tells
<1>1. TypeOK /\ Unmerged /\ WorkingTree /\ ~Merged
  BY DEF AttemptInv, Unmerged, Merged, Branches
<1>2. TypeOK'
  BY <1>1, CommitFacts DEF TypeOK, Steps, Branches
<1>3. Unmerged'
  BY <1>1 DEF Unmerged
<1>4. WorkingTree'
  BY <1>1, WriteResolves DEF WorkingTree, Resolved
<1>5. MergesAreResolved'
  BY <1>1 DEF WorkingTree, MergesAreResolved, Merged, Resolved
<1>6. AbortLeavesBranch'
  BY <1>1 DEF Unmerged, AbortLeavesBranch, Merged
<1> QED
  BY <1>2, <1>3, <1>4, <1>5, <1>6 DEF AttemptInv

LEMMA HumanPushKeepsInv ==
  ASSUME AttemptInv, HumanPush
  PROVE  AttemptInv'
<1>1. /\ remote' \in [Branches -> SUBSET Commits]
      /\ \A b \in Branches : MergeCommit \in remote'[b] => MergeCommit \in remote[b]
  BY CommitFacts DEF AttemptInv, TypeOK, HumanPush, Branches
<1>2. UNCHANGED <<pc, complete, baseRef, head, file, conflicts, answer, tree, notified>>
  BY DEF HumanPush
<1>3. Merged' => Merged
  BY <1>1 DEF Merged, Branches
<1>4. TypeOK' /\ Unmerged'
  BY <1>1, <1>2 DEF AttemptInv, TypeOK, Unmerged
<1>5. WorkingTree' /\ MergesAreResolved' /\ AbortLeavesBranch'
  BY <1>2, <1>3
     DEF AttemptInv, WorkingTree, MergesAreResolved, AbortLeavesBranch, Resolved, Missing,
         MarkerOffenders, ToApply
<1> QED
  BY <1>4, <1>5 DEF AttemptInv

LEMMA AttemptInvStep == AttemptInv /\ [Next]_vars => AttemptInv'
<1> SUFFICES ASSUME AttemptInv, [Next]_vars PROVE AttemptInv'
  OBVIOUS
<1>1. CASE UNCHANGED vars
  BY <1>1
     DEF vars, AttemptInv, TypeOK, Unmerged, WorkingTree, MergesAreResolved, AbortLeavesBranch,
         Resolved, Missing, MarkerOffenders, ToApply, Merged
<1>2. CASE Attempt
  BY <1>2, FetchingKeepsInv, AskingKeepsInv, MergingKeepsInv DEF Attempt
<1> QED
  BY <1>1, <1>2, HumanPushKeepsInv DEF Next, Over

LEMMA AttemptInvHolds == Spec => []AttemptInv
BY AttemptInvInit, AttemptInvStep, PTL DEF Spec

-----------------------------------------------------------------------------
(* Theorems *)

\* Every state of an attempt is well-formed.
THEOREM Typing == Spec => []TypeOK
<1>1. AttemptInv => TypeOK
  BY DEF AttemptInv
<1> QED
  BY <1>1, AttemptInvHolds, PTL

\* README: "never pushes a half-resolved state", where no conflicting path is a
\* link out of the repository: a merge on GitHub has the model's resolution of
\* every conflict, whatever it answered, failed or was pushed meanwhile.
THEOREM NothingHalfResolved == Spec => [](Outside = {} => NeverHalfResolved)
<1>1. AttemptInv => (Outside = {} => NeverHalfResolved)
  BY DEF AttemptInv, MergesAreResolved, Resolved, NeverHalfResolved
<1> QED
  BY <1>1, AttemptInvHolds, PTL

\* With links out of the repository among the conflicts, those keep our side and
\* the rest holds: no markers, and a resolution of every other path.
THEOREM LinksAside == Spec => []MergesAreResolved
<1>1. AttemptInv => MergesAreResolved
  BY DEF AttemptInv
<1> QED
  BY <1>1, AttemptInvHolds, PTL

\* README: when the model declines or its answer is rejected, "the PR is left
\* as-is": Slack hears of an aborted merge only if GitHub has no merge commit.
THEOREM AbortIsHarmless == Spec => []AbortLeavesBranch
<1>1. AttemptInv => AbortLeavesBranch
  BY DEF AttemptInv
<1> QED
  BY <1>1, AttemptInvHolds, PTL

\* Slack is told of a resolved merge in no step but the one that pushes it.
THEOREM ResolveIsAnnounced == Spec => ResolveIsPushed
<1>1. ASSUME AttemptInv, [Next]_vars, notified' = "resolve", notified # "resolve"
      PROVE  MergeCommit \in remote'[HeadBranch]
  <2>1. Push
    BY <1>1
       DEF Next, Attempt, Over, vars, Unshallow, Fetch, FetchFailed, MergeRefused, UpToDate,
           CleanMerge, Conflict, Snapshot, NothingReadable, Declined, AskRaised, Answered,
           Rejected, Accepted, Write, Commit, CommitFailed, PushFailed, HumanPush, tells
  <2> QED
    BY <1>1, <2>1 DEF AttemptInv, TypeOK, Unmerged, Push, Branches
<1>2. AttemptInv /\ [Next]_vars =>
        [notified' = "resolve" /\ notified # "resolve" =>
           MergeCommit \in remote'[HeadBranch]]_vars
  BY <1>1
<1> QED
  BY <1>2, AttemptInvHolds, PTL DEF Spec, ResolveIsPushed

-----------------------------------------------------------------------------
(* What the processor relies on *)

LEMMA PromiseInit == Init => Promise!Init
BY CommitFacts DEF Init, Promise!Init, Branches

\* Until the commit the attempt only stutters or gives up.
LEMMA PreparingKeepsPromise ==
  ASSUME AttemptInv,
         \/ Unshallow \/ Fetch \/ FetchFailed
         \/ MergeRefused \/ UpToDate \/ CleanMerge \/ Conflict
         \/ Snapshot \/ NothingReadable
         \/ Declined \/ AskRaised \/ Answered \/ Rejected \/ Accepted
         \/ Write \/ CommitFailed
  PROVE  Promise!GiveUp \/ UNCHANGED Promise!vars
BY DEF Unshallow, Fetch, FetchFailed, MergeRefused, UpToDate, CleanMerge, Conflict, Snapshot,
       NothingReadable, Declined, AskRaised, Answered, Rejected, Accepted, Write, CommitFailed,
       AbortMerge, Goto, tells, Promise!GiveUp, Promise!vars

LEMMA CommitIsMerge ==
  ASSUME AttemptInv, Commit
  PROVE  Promise!Merge
<1>1. baseRef \in SUBSET (Commits \ {MergeCommit})
  BY DEF AttemptInv, TypeOK, Unmerged
<1> QED
  BY <1>1 DEF Commit, Goto, tells, Promise!Merge

LEMMA PushingKeepsPromise ==
  ASSUME AttemptInv, Push \/ PushFailed
  PROVE  Promise!Push \/ Promise!GiveUp
<1>1. HeadBranch \in DOMAIN remote
  BY DEF AttemptInv, TypeOK, Branches
<1> QED
  BY <1>1 DEF Push, PushFailed, FastForward, Goto, Promise!Push, Promise!GiveUp

LEMMA HumanPushIsPeople ==
  ASSUME AttemptInv, HumanPush
  PROVE  Promise!People
<1>1. /\ remote'[HeadBranch] \in SUBSET Commits
      /\ MergeCommit \in remote'[HeadBranch] => MergeCommit \in remote[HeadBranch]
  BY CommitFacts DEF AttemptInv, TypeOK, HumanPush, Branches
<1> QED
  BY <1>1 DEF HumanPush, Promise!People

\* _process_pr_locked: whatever happens inside the attempt, the replies come
\* next, and all that the attempt does to the head branch is one push of a
\* history that extends it.
THEOREM AttemptKeepsPromise == Spec => PromiseKept
<1>1. AttemptInv /\ [Next]_vars => [Promise!Next]_(Promise!vars)
  <2> SUFFICES ASSUME AttemptInv, [Next]_vars PROVE [Promise!Next]_(Promise!vars)
    OBVIOUS
  <2>1. CASE Attempt
    BY <2>1, PreparingKeepsPromise, CommitIsMerge, PushingKeepsPromise
       DEF Attempt, Promise!Next
  <2>2. CASE HumanPush
    BY <2>2, HumanPushIsPeople DEF Promise!Next
  <2>3. CASE UNCHANGED vars
    BY <2>3 DEF vars, Promise!vars
  <2> QED
    BY <2>1, <2>2, <2>3 DEF Next, Over
<1> QED
  BY <1>1, PromiseInit, AttemptInvHolds, PTL DEF Spec, PromiseKept, Promise!Spec

=============================================================================
