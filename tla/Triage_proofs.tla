---------------------------- MODULE Triage_proofs ----------------------------
(***************************************************************************)
(* What is proved about Triage for every set of files, every checkout,     *)
(* every list of pending comments and every answer of the provider.        *)
(***************************************************************************)
EXTENDS Triage, NaturalsInduction, WellFoundedInduction, TLAPS

-----------------------------------------------------------------------------
(* Lemmas about the operators *)

\* A bounded set of numbers that is not empty has a largest one.
LEMMA MaxExists ==
  ASSUME NEW S \in SUBSET Nat, NEW b \in Nat, \A n \in S : n <= b, S # {}
  PROVE  Max(S) \in S /\ \A n \in S : n <= Max(S)
<1> DEFINE Bounds == {n \in Nat : \A m \in S : m <= n}
<1>1. \E x \in Bounds : \A y \in Bounds : <<y, x>> \notin OpToRel(<, Nat)
  <2>1. Bounds \subseteq Nat /\ b \in Bounds
    OBVIOUS
  <2> HIDE DEF Bounds
  <2> QED
    BY <2>1, NatLessThanWellFounded, WFMin
<1>2. PICK x \in Bounds : \A y \in Bounds : ~(y < x)
  BY <1>1 DEF OpToRel
<1>3. x \in S
  <2> SUFFICES ASSUME x \notin S PROVE FALSE
    OBVIOUS
  <2>1. PICK m \in S : m <= x
    OBVIOUS
  <2>2. x # 0
    BY <2>1
  <2>3. x - 1 \in Bounds
    BY <2>2
  <2> QED
    BY <1>2, <2>3
<1>4. \A n \in S : x >= n
  OBVIOUS
<1>5. Max(S) \in S /\ \A n \in S : Max(S) >= n
  <2> HIDE DEF Bounds
  <2> QED
    BY <1>3, <1>4 DEF Max
<1> QED
  BY <1>5

Places == SUBSET (1..MaxFiles)

LEMMA FilesOfVerdict ==
  ASSUME TypeOK
  PROVE  DOMAIN files \in Places /\ \A i \in DOMAIN files : files[i] \in Changes
BY DEF TypeOK, Places

\* What _apply_files leaves in a file: its last change among those written.
LEMMA WrittenByLast ==
  ASSUME TypeOK, NEW places \in SUBSET DOMAIN files, NEW t \in Trees, NEW f \in Files
  PROVE  \/ /\ \A i \in places : files[i].path # f
            /\ WrittenBy(places, t)[f] = t[f]
         \/ \E i \in places :
              /\ files[i].path = f
              /\ \A j \in places : files[j].path = f => j <= i
              /\ WrittenBy(places, t)[f] = files[i].content
<1> DEFINE mine == {i \in places : files[i].path = f}
<1>1. CASE mine = {}
  BY <1>1 DEF WrittenBy
<1>2. CASE mine # {}
  <2>1. Max(mine) \in mine /\ \A n \in mine : n <= Max(mine)
    <3>1. mine \in SUBSET Nat /\ \A n \in mine : n <= MaxFiles
      BY FilesOfVerdict, BoundsAssumption DEF Places
    <3> HIDE DEF mine
    <3> QED
      BY <1>2, <3>1, MaxExists, BoundsAssumption
  <2>2. WrittenBy(places, t)[f] = files[Max(mine)].content
    BY <1>2 DEF WrittenBy
  <2> QED
    BY <2>1, <2>2
<1> QED
  BY <1>1, <1>2

LEMMA WrittenByTyping ==
  ASSUME TypeOK, NEW places, places \in SUBSET Inside, NEW t \in Trees
  PROVE  WrittenBy(places, t) \in Trees
<1>1. places \in SUBSET DOMAIN files
  BY DEF Inside
<1>2. ASSUME NEW f \in Files
      PROVE  WrittenBy(places, t)[f] \in Texts \cup {Absent}
  <2>1. \A i \in places : files[i].content \in Texts
    BY <1>1, FilesOfVerdict DEF Changes, Entries
  <2>2. t[f] \in Texts \cup {Absent}
    BY DEF Trees
  <2> QED
    BY <1>1, <2>1, <2>2, WrittenByLast
<1> QED
  BY <1>2 DEF WrittenBy, Trees

LEMMA ResetTyping ==
  ASSUME head \in Trees, NEW t \in Trees
  PROVE  Reset(t) \in Trees
BY DEF Reset, Trees

LEMMA StagedTyping ==
  ASSUME head \in Trees, tree \in Trees
  PROVE  Staged \in Trees
BY DEF Staged, Trees

-----------------------------------------------------------------------------
(* The type invariant *)

\* A verdict is for a comment that has no reply yet; a dry run commits nothing.
InHand ==
  /\ pc \in {"asked", "fix", "commit"} => Len(replies) < Len(Commented)
  /\ pc = "commit" => ~settings.dry_run

TypeInv == TypeOK /\ InHand

LEMMA NoFiles == <<>> \in UNION {[places -> Changes] : places \in SUBSET (1..MaxFiles)}
<1>1. <<>> \in [{} -> Changes]
  OBVIOUS
<1> QED
  BY <1>1

LEMMA QueueTyping ==
  ASSUME TypeInv, Len(replies) < Len(Commented),
         NEW decision \in {"fix", "dismiss", "skip", "needs_review"}, Queue(decision)
  PROVE  /\ replies' \in Seq({"fix", "dismiss", "skip", "needs_review"})
         /\ Len(replies') <= Len(Commented)
         /\ InHand'
BY FilesAssumption DEF TypeInv, TypeOK, Queue, InHand

LEMMA TypeInvInit == Init => TypeInv
<1> SUFFICES ASSUME Init PROVE TypeInv
  OBVIOUS
<1>1. Len(Commented) \in Nat
  BY FilesAssumption
<1>2. <<>> \in Seq({"fix", "dismiss", "skip", "needs_review"}) /\ Len(<<>>) = 0
  OBVIOUS
<1> QED
  BY <1>1, <1>2, NoFiles, FilesAssumption DEF Init, TypeInv, TypeOK, InHand

\* Reading, asking, and the answers that touch no file.
LEMMA AskingTyping ==
  ASSUME TypeInv,
         \/ Unreadable \/ Ask \/ LLMFailed \/ LLMRaised \/ Skip \/ SkipRaised \/ Dismiss
         \/ TriageOver
  PROVE  TypeInv'
<1>1. UNCHANGED <<settings, head, tree, committed>>
  BY DEF Unreadable, Ask, LLMFailed, LLMRaised, Skip, SkipRaised, Dismiss, TriageOver, Raised
<1>2. CASE Unreadable \/ LLMFailed \/ Skip \/ Dismiss
  <2>1. Len(replies) < Len(Commented)
    BY <1>2, FilesAssumption
       DEF Unreadable, LLMFailed, Skip, Dismiss, HasComment, Comment, TypeInv, TypeOK, InHand
  <2>2. PICK decision \in {"fix", "dismiss", "skip", "needs_review"} : Queue(decision)
    BY <1>2 DEF Unreadable, LLMFailed, Skip, Dismiss
  <2>3. pc' = "read" /\ files' = <<>>
    BY <2>2 DEF Queue
  <2> QED
    BY <1>1, <2>1, <2>2, <2>3, QueueTyping, NoFiles DEF TypeInv, TypeOK
<1>3. CASE LLMRaised \/ SkipRaised
  BY <1>1, <1>3, NoFiles DEF LLMRaised, SkipRaised, Raised, TypeInv, TypeOK, InHand
<1>4. CASE Ask \/ TriageOver
  BY <1>1, <1>4, FilesAssumption
     DEF Ask, TriageOver, HasComment, Comment, TypeInv, TypeOK, InHand
<1> QED
  BY <1>2, <1>3, <1>4

LEMMA FixTyping ==
  ASSUME TypeInv, NEW n \in 0..MaxFiles, NEW entries \in [1..n -> Entries], Fix(entries)
  PROVE  TypeInv'
<1>1. DOMAIN ParsedFiles(entries) \in SUBSET (1..MaxFiles)
  BY BoundsAssumption DEF ParsedFiles
<1>2. ParsedFiles(entries) \in [DOMAIN ParsedFiles(entries) -> Changes]
  BY DEF ParsedFiles, Changes
<1> QED
  BY <1>1, <1>2 DEF Fix, TypeInv, TypeOK, InHand

\* Writing the files of a fix, or not.
LEMMA FixingTyping ==
  ASSUME TypeInv,
         RefuseTruncated \/ ResetRaised \/ NothingApplied \/ Preview \/ Apply \/ ApplyRaised
  PROVE  TypeInv'
<1>1. /\ UNCHANGED <<settings, head, committed>>
      /\ pc = "fix" /\ Len(replies) < Len(Commented)
  BY DEF RefuseTruncated, ResetRaised, NothingApplied, Preview, Apply, ApplyRaised, Raised,
         TypeInv, InHand
<1>2. tree' \in Trees
  <2>1. tree \in Trees /\ head \in Trees /\ TypeOK
    BY DEF TypeInv, TypeOK
  <2>2. \A places \in SUBSET Inside : WrittenBy(places, tree) \in Trees
    BY <2>1, WrittenByTyping
  <2>3. Applied \in SUBSET Inside /\ \A n : {i \in Applied : i <= n} \in SUBSET Inside
    BY DEF Applied
  <2> QED
    BY <2>1, <2>2, <2>3, ResetTyping
       DEF RefuseTruncated, ResetRaised, NothingApplied, Preview, Apply, ApplyRaised
<1>3. CASE RefuseTruncated \/ NothingApplied \/ Preview
  <2>1. PICK decision \in {"fix", "dismiss", "skip", "needs_review"} : Queue(decision)
    BY <1>3 DEF RefuseTruncated, NothingApplied, Preview
  <2>2. pc' = "read" /\ files' = <<>>
    BY <2>1 DEF Queue
  <2> QED
    BY <1>1, <1>2, <2>1, <2>2, QueueTyping, NoFiles DEF TypeInv, TypeOK
<1>4. CASE ApplyRaised \/ ResetRaised
  BY <1>1, <1>2, <1>4, NoFiles DEF ApplyRaised, ResetRaised, Raised, TypeInv, TypeOK, InHand
<1>5. CASE Apply
  BY <1>1, <1>2, <1>5 DEF Apply, TypeInv, TypeOK, InHand
<1> QED
  BY <1>3, <1>4, <1>5

LEMMA CommittingTyping ==
  ASSUME TypeInv, Commit \/ NothingToCommit \/ CommitRaised
  PROVE  TypeInv'
<1>1. UNCHANGED <<settings, tree>> /\ pc = "commit" /\ Len(replies) < Len(Commented)
  BY DEF Commit, NothingToCommit, CommitRaised, Raised, TypeInv, InHand
<1>2. head' \in Trees
  BY StagedTyping DEF Commit, NothingToCommit, CommitRaised, TypeInv, TypeOK
<1>3. committed' \subseteq DOMAIN Commented
  <2>1. Comment \in DOMAIN Commented
    BY <1>1, FilesAssumption DEF Comment, TypeInv, TypeOK
  <2> QED
    BY <2>1 DEF Commit, NothingToCommit, CommitRaised, TypeInv, TypeOK
<1>4. CASE Commit
  <2>1. pc' = "read" /\ files' = <<>> /\ Queue("fix")
    BY <1>4 DEF Commit, Queue
  <2> QED
    BY <1>1, <1>2, <1>3, <2>1, QueueTyping, NoFiles DEF TypeInv, TypeOK
<1>5. CASE NothingToCommit \/ CommitRaised
  BY <1>1, <1>2, <1>3, <1>5, NoFiles
     DEF NothingToCommit, CommitRaised, Raised, TypeInv, TypeOK, InHand
<1> QED
  BY <1>4, <1>5

LEMMA TypeInvStep == TypeInv /\ [Next]_vars => TypeInv'
<1> SUFFICES ASSUME TypeInv, [Next]_vars PROVE TypeInv'
  OBVIOUS
<1>1. CASE UNCHANGED vars
  BY <1>1 DEF vars, TypeInv, TypeOK, InHand
<1>2. CASE \E entries \in UNION {[1..n -> Entries] : n \in 0..MaxFiles} : Fix(entries)
  BY <1>2, FixTyping
<1> QED
  BY <1>1, <1>2, AskingTyping, FixingTyping, CommittingTyping DEF Next, Over

LEMMA TypeInvHolds == Spec => []TypeInv
BY TypeInvInit, TypeInvStep, PTL DEF Spec

\* Every state of the loop is well-formed: its trees, its verdict, its replies.
THEOREM Typing == Spec => []TypeOK
<1>1. TypeInv => TypeOK
  BY DEF TypeInv
<1> QED
  BY <1>1, TypeInvHolds, PTL

-----------------------------------------------------------------------------
(* The working tree and HEAD *)

\* Between two fixes the working tree is HEAD, but for the untracked files that
\* git ignores; a tracked file that .gitignore names is no exception.
TreeIsHead ==
  pc \in {"read", "asked", "fix"} =>
    \A f \in Files : ~Untracked(f) => tree[f] = head[f]

\* What is about to be committed is what the verdict at hand says: its last entry
\* that changes a file, and HEAD where there is none.
Verdict(f) == IF Effective(f) = {} THEN head[f] ELSE files[Max(Effective(f))].content

TreeIsVerdict ==
  pc = "commit" => \A f \in Files : ~Untracked(f) => tree[f] = Verdict(f)

TreeInv == TypeInv /\ TreeIsHead /\ TreeIsVerdict

LEMMA ResetIsHead ==
  ASSUME NEW t, NEW f \in Files, ~Untracked(f)
  PROVE  Reset(t)[f] = head[f]
BY DEF Reset

\* After the commit of one fix the tree is the new HEAD, for the next verdict.
LEMMA CommitIsHead ==
  ASSUME TypeInv, Commit, NEW f \in Files, ~Untracked(f)'
  PROVE  tree'[f] = head'[f]
<1>1. head' = Staged /\ tree' = tree
  BY DEF Commit
<1>2. ~Untracked(f)
  BY <1>1 DEF Untracked, Staged
<1> QED
  BY <1>1, <1>2 DEF Staged

\* What _apply_files writes is what the verdict says of HEAD.
LEMMA ApplyIsVerdict ==
  ASSUME TreeInv, Apply, NEW f \in Files, ~Untracked(f)
  PROVE  tree'[f] = Verdict(f)
<1>1. tree' = WrittenBy(Applied, tree) /\ tree[f] = head[f]
  BY DEF Apply, TreeInv, TreeIsHead
<1>2. f # Outside
  BY FilesAssumption
<1>3. {i \in Applied : files[i].path = f} = Effective(f)
  BY <1>1, <1>2 DEF Applied, Inside, Effective
<1> QED
  BY <1>1, <1>3 DEF WrittenBy, Verdict

LEMMA TreeInvStep == TreeInv /\ [Next]_vars => TreeInv'
<1> SUFFICES ASSUME TreeInv, [Next]_vars PROVE TreeInv'
  OBVIOUS
<1>1. TypeInv'
  BY TypeInvStep DEF TreeInv
<1>2. CASE \/ Unreadable \/ Ask \/ LLMFailed \/ LLMRaised \/ Skip \/ SkipRaised \/ Dismiss
           \/ TriageOver \/ NothingApplied
           \/ \E entries \in UNION {[1..n -> Entries] : n \in 0..MaxFiles} : Fix(entries)
  <2>1. /\ UNCHANGED <<head, tree>>
        /\ pc \in {"read", "asked", "fix"}
        /\ pc' # "commit"
    BY <1>2
       DEF Unreadable, Ask, LLMFailed, LLMRaised, Skip, SkipRaised, Dismiss, TriageOver,
           NothingApplied, Fix, Queue, Raised, HasComment
  <2> QED
    BY <1>1, <2>1 DEF TreeInv, TreeIsHead, TreeIsVerdict, Untracked
<1>3. CASE RefuseTruncated \/ Preview
  <2>1. UNCHANGED head /\ pc' = "read" /\ \E t : tree' = Reset(t)
    BY <1>3 DEF RefuseTruncated, Preview, Queue
  <2>2. TreeIsHead'
    BY <2>1, ResetIsHead DEF TreeIsHead, Untracked
  <2> QED
    BY <1>1, <2>1, <2>2 DEF TreeInv, TreeIsVerdict
<1>4. CASE Apply
  <2>1. UNCHANGED <<head, files>> /\ pc' = "commit"
    BY <1>4 DEF Apply
  <2>2. TreeIsVerdict'
    BY <1>4, <2>1, ApplyIsVerdict DEF TreeIsVerdict, Verdict, Effective, Untracked
  <2> QED
    BY <1>1, <2>1, <2>2 DEF TreeInv, TreeIsHead
<1>5. CASE Commit
  <2>1. pc' = "read"
    BY <1>5 DEF Commit, Queue
  <2> QED
    BY <1>1, <1>5, <2>1, CommitIsHead DEF TreeInv, TreeIsHead, TreeIsVerdict
<1>6. CASE ApplyRaised \/ ResetRaised \/ NothingToCommit \/ CommitRaised
  <2>1. pc' = "raised"
    BY <1>6 DEF ApplyRaised, ResetRaised, NothingToCommit, CommitRaised, Raised
  <2> QED
    BY <1>1, <2>1 DEF TreeInv, TreeIsHead, TreeIsVerdict
<1>7. CASE UNCHANGED vars
  BY <1>1, <1>7 DEF vars, TreeInv, TreeIsHead, TreeIsVerdict, Verdict, Effective, Untracked
<1> QED
  BY <1>2, <1>3, <1>4, <1>5, <1>6, <1>7 DEF Next, Over

LEMMA TreeInvHolds == Spec => []TreeInv
<1>1. Init => TreeInv
  BY TypeInvInit DEF Init, TreeInv, TreeIsHead, TreeIsVerdict
<1> QED
  BY <1>1, TreeInvStep, PTL DEF Spec

\* The model is asked about HEAD and its fix is applied to it, whatever the
\* verdicts before were: refused, previewed, committed or already there.
THEOREM NothingLeftOver == Spec => []AskedAboutHead
<1>1. TreeInv => AskedAboutHead
  BY DEF TreeInv, TreeIsHead, AskedAboutHead
<1> QED
  BY <1>1, TreeInvHolds, PTL

LEMMA HeadMovesByCommit ==
  ASSUME [Next]_vars, head' # head \/ committed' # committed
  PROVE  pc = "commit" /\ head' = Staged /\ head' # head
BY DEF Next, Over, vars, Unreadable, Ask, LLMFailed, LLMRaised, Skip, SkipRaised, Dismiss, Fix,
       RefuseTruncated, ResetRaised, NothingApplied, Preview, Apply, ApplyRaised, Commit,
       NothingToCommit, CommitRaised, TriageOver, Queue, Raised

\* A commit is not empty, and it is its verdict, no more and no less: the last
\* entry that changes a file decides what it holds, and where no entry does, or
\* git does not look, the file is as it was.
THEOREM CommitsAreVerdicts == Spec => CommitIsItsVerdict
<1>1. ASSUME TreeInv, [Next]_vars, head' # head \/ committed' # committed
      PROVE  /\ head' # head
             /\ \A f \in Files :
                  head'[f] = IF Untracked(f) \/ Effective(f) = {}
                               THEN head[f] ELSE files[Max(Effective(f))].content
  <2>1. pc = "commit" /\ head' = Staged /\ head' # head
    BY <1>1, HeadMovesByCommit
  <2>2. ASSUME NEW f \in Files, Untracked(f)
        PROVE  head'[f] = head[f]
    BY <2>1, <2>2 DEF Staged, Untracked
  <2>3. ASSUME NEW f \in Files, ~Untracked(f)
        PROVE  head'[f] = Verdict(f)
    BY <1>1, <2>1, <2>3 DEF Staged, TreeInv, TreeIsVerdict
  <2> QED
    BY <2>1, <2>2, <2>3 DEF Verdict
<1>2. TreeInv /\ [Next]_vars =>
        [head' # head \/ committed' # committed =>
           /\ head' # head
           /\ \A f \in Files :
                head'[f] = IF Untracked(f) \/ Effective(f) = {}
                             THEN head[f] ELSE files[Max(Effective(f))].content]_vars
  BY <1>1
<1> QED
  BY <1>2, TreeInvHolds, PTL DEF Spec, CommitIsItsVerdict

\* What a dismissed fix says of the files git looks at is in HEAD, but for the
\* ends of lines: HEAD is compared as it is read.
THEOREM DismissedFixes == Spec => DismissedFixIsInHead
<1>1. ASSUME TreeInv, [Next]_vars,
             pc = "fix", replies' # replies, Last(replies') = "dismiss",
             NEW i \in Inside, ~Untracked(files[i].path)
      PROVE  ReadText(head[files[i].path]) = files[i].content
  <2>1. \A decision : replies' = Append(replies, decision) => Last(replies') = decision
    BY <1>1 DEF Last, TreeInv, TypeInv, TypeOK
  <2>2. NothingApplied
    BY <1>1, <2>1
       DEF Next, Over, vars, Unreadable, HasComment, Ask, LLMFailed, LLMRaised, Skip,
           SkipRaised, Dismiss, Fix, RefuseTruncated, ResetRaised, Preview, Apply, ApplyRaised,
           Commit, NothingToCommit, CommitRaised, TriageOver, Queue, Raised
  <2>3. files[i].path \in Files
    BY <1>1, FilesOfVerdict DEF TreeInv, TypeInv, Inside, Changes, Entries
  <2>4. tree[files[i].path] = head[files[i].path]
    BY <1>1, <2>3 DEF TreeInv, TreeIsHead
  <2> QED
    BY <1>1, <2>2, <2>4 DEF NothingApplied, Applied
<1>2. TreeInv /\ [Next]_vars =>
        [pc = "fix" /\ replies' # replies /\ Last(replies') = "dismiss" =>
           \A i \in Inside :
             ~Untracked(files[i].path) => ReadText(head[files[i].path]) = files[i].content]_vars
  BY <1>1
<1> QED
  BY <1>2, TreeInvHolds, PTL DEF Spec, DismissedFixIsInHead

-----------------------------------------------------------------------------
(* What the processor relies on *)

LEMMA AnswersAreOutcomes ==
  ASSUME TypeInv, NEW decision \in {"dismiss", "skip", "needs_review"}, Queue(decision),
         pc \notin {"over", "raised"}, Len(replies) < Len(Commented),
         UNCHANGED <<settings, committed>>
  PROVE  Outcome!Answer(decision)
BY DEF Queue, Outcome!Answer

LEMMA StepIsOutcomeStep ==
  ASSUME TypeInv, [Next]_vars
  PROVE  [Outcome!Next]_(Outcome!vars)
<1>1. CASE Unreadable \/ LLMFailed \/ Skip \/ Dismiss \/ RefuseTruncated \/ NothingApplied
           \/ Preview
  <2>1. /\ pc \notin {"over", "raised"}
        /\ Len(replies) < Len(Commented)
        /\ UNCHANGED <<settings, committed>>
    BY <1>1, FilesAssumption
       DEF Unreadable, LLMFailed, Skip, Dismiss, RefuseTruncated, NothingApplied, Preview,
           HasComment, Comment, TypeInv, TypeOK, InHand
  <2>2. PICK decision \in {"dismiss", "skip", "needs_review"} : Queue(decision)
    BY <1>1
       DEF Unreadable, LLMFailed, Skip, Dismiss, RefuseTruncated, NothingApplied, Preview
  <2> QED
    BY <2>1, <2>2, AnswersAreOutcomes DEF Outcome!Next
<1>2. CASE Commit
  <2>1. Len(replies) < Len(Commented) /\ ~settings.dry_run
    BY <1>2 DEF Commit, TypeInv, InHand
  <2> QED
    BY <1>2, <2>1 DEF Commit, Queue, Comment, Outcome!Next, Outcome!Answer
<1>3. CASE \/ LLMRaised \/ SkipRaised \/ ApplyRaised \/ ResetRaised \/ NothingToCommit
           \/ CommitRaised
  BY <1>3
     DEF LLMRaised, SkipRaised, ApplyRaised, ResetRaised, NothingToCommit, CommitRaised, Raised,
         Comment, Outcome!Next, Outcome!Raise
<1>4. CASE TriageOver
  BY <1>4, FilesAssumption
     DEF TriageOver, Comment, TypeInv, TypeOK, Outcome!Next, Outcome!Done
<1>5. CASE \/ Ask \/ Apply
           \/ \E entries \in UNION {[1..n -> Entries] : n \in 0..MaxFiles} : Fix(entries)
  BY <1>5 DEF Ask, Apply, Fix, HasComment, Outcome!vars
<1>6. CASE UNCHANGED vars
  BY <1>6 DEF vars, Outcome!vars
<1> QED
  BY <1>1, <1>2, <1>3, <1>4, <1>5, <1>6 DEF Next, Over

\* _process_pr_locked: the comments are answered in order with one reply each,
\* "fix" exactly for those that have a commit, and what raises ends the run.
THEOREM LoopKeepsOutcome == Spec => OutcomeKept
<1>1. Init => Outcome!Init
  BY DEF Init, Settings, Outcome!Init
<1> QED
  BY <1>1, StepIsOutcomeStep, TypeInvHolds, PTL DEF Spec, OutcomeKept, Outcome!Spec

=============================================================================
