---------------------------- MODULE MergeFollowUp ----------------------------
(***************************************************************************)
(* _resolve_merge_conflicts: after the processor has pushed its fixes it   *)
(* fetches the base branch, merges it in the clone, has the model resolve  *)
(* the conflicts, and pushes the merge.  Git is the external part: what a  *)
(* clone of one branch fetches, when a merge conflicts, when a push is     *)
(* taken.                                                                  *)
(***************************************************************************)
EXTENDS Naturals, FiniteSets

CONSTANTS
  HeadBranch,     \* the name of the PR's branch
  BaseBranch,     \* the name of the branch it is to be merged into
  Paths,          \* the files that may conflict
  Unreadable,     \* the ones that are too large or not text
  Outside,        \* the ones that are links out of the repository
  MaxHumanPushes, \* bound: pushes people make to the head branch
  Environment     \* what may go wrong around the attempt

ASSUME PathsAssumption ==
  /\ IsFiniteSet(Paths)
  /\ Unreadable \subseteq Paths
  /\ Outside \subseteq Paths

ASSUME BoundAssumption == MaxHumanPushes \in Nat

\* git_error: a git command fails.  llm_error: the provider raises LLMError.
\* llm_timeout: it raises anything else.  llm_abort: it declines.  llm_sloppy:
\* it leaves files out, echoes markers or adds files of its own.  same_changes:
\* both branches make the same changes.
ASSUME EnvironmentAssumption ==
  Environment \subseteq {"git_error", "llm_error", "llm_timeout", "llm_abort",
                         "llm_sloppy", "human_push", "human_rewrite", "same_changes"}

VARIABLES
  pc,        \* where the attempt is
  complete,  \* the clone has the full history (--unshallow worked)
  baseRef,   \* the history of origin/<base> in the clone; {} when there is none
  head,      \* the history of HEAD in the clone
  file,      \* the conflicting files in the working tree
  conflicts, \* the paths git lists as unmerged after the merge
  answer,    \* the files of the model's resolution
  tree,      \* the same files as the merge commit has them
  remote,    \* the branches on GitHub
  notified   \* what Slack was told

vars == <<pc, complete, baseRef, head, file, conflicts, answer, tree, remote, notified>>
tells == <<remote, notified>>

-----------------------------------------------------------------------------
(* Commits, branches and files *)

RootCommit == 0
FixCommit == 1     \* what the processor has just pushed
BaseCommit == 2    \* what the base branch has and the head branch lacks
MergeCommit == 3
HumanCommits == 4..(3 + MaxHumanPushes)
Commits == 0..(3 + MaxHumanPushes)

Branches == {HeadBranch, BaseBranch}

\* git clone --depth 1 --branch <head> is a clone of that branch alone: fetching
\* another one leaves no origin/<name> behind.
Tracked == {HeadBranch}

Contents == {"ours", "markers", "resolved"}
Files == [path : Paths, content : {"markers", "resolved"}]
Steps == {"unshallow", "fetch", "merge", "snapshot", "ask", "check", "write",
          "commit", "push", "done"}

TypeOK ==
  /\ pc \in Steps
  /\ complete \in BOOLEAN
  /\ baseRef \subseteq Commits
  /\ head \subseteq Commits
  /\ file \in [Paths -> Contents]
  /\ conflicts \subseteq Paths
  /\ answer \subseteq Files
  /\ tree \in [Paths -> Contents]
  /\ remote \in [Branches -> SUBSET Commits]
  /\ notified \in {"nothing", "resolve", "abort"}

Clean == [p \in Paths |-> "ours"]

Init ==
  /\ pc = "unshallow"
  /\ complete = FALSE
  /\ baseRef = {}
  /\ head = {RootCommit, FixCommit}
  /\ file = Clean
  /\ conflicts = {}
  /\ answer = {}
  /\ tree = Clean
  /\ remote = [b \in Branches |->
       IF b = HeadBranch THEN {RootCommit, FixCommit} ELSE {RootCommit, BaseCommit}]
  /\ notified = "nothing"

Goto(label) == pc' = label
Fails(kind) == kind \in Environment

\* git merge --abort, then back to the caller.
AbortMerge ==
  /\ Goto("done")
  /\ file' = Clean
  /\ conflicts' = {}

-----------------------------------------------------------------------------
(* Fetching *)

\* A failing --unshallow is ignored.
Unshallow ==
  /\ pc = "unshallow"
  /\ complete' \in (IF Fails("git_error") THEN BOOLEAN ELSE {TRUE})
  /\ Goto("fetch")
  /\ UNCHANGED <<baseRef, head, file, conflicts, answer, tree, tells>>

Fetch ==
  /\ pc = "fetch"
  /\ baseRef' = IF BaseBranch \in Tracked THEN remote[BaseBranch] ELSE {}
  /\ Goto("merge")
  /\ UNCHANGED <<complete, head, file, conflicts, answer, tree, tells>>

FetchFailed ==
  /\ Fails("git_error")
  /\ pc = "fetch"
  /\ Goto("done")
  /\ UNCHANGED <<complete, baseRef, head, file, conflicts, answer, tree, tells>>

-----------------------------------------------------------------------------
(* git merge --no-commit --no-ff origin/<base> *)

\* Git refuses: there is no such ref, or a shallow clone has no merge base.
\* Nothing conflicts; the attempt gives up.
MergeRefused ==
  /\ pc = "merge"
  /\ baseRef = {} \/ ~complete \/ Fails("git_error")
  /\ AbortMerge
  /\ UNCHANGED <<complete, baseRef, head, answer, tree, tells>>

\* Nothing is staged: up to date, or HEAD has made the same changes itself.
UpToDate ==
  /\ pc = "merge"
  /\ baseRef # {}
  /\ baseRef \subseteq head \/ "same_changes" \in Environment
  /\ AbortMerge
  /\ UNCHANGED <<complete, baseRef, head, answer, tree, tells>>

CleanMerge ==
  /\ pc = "merge"
  /\ baseRef # {}
  /\ ~(baseRef \subseteq head)
  /\ Goto("commit")
  /\ UNCHANGED <<complete, baseRef, head, file, conflicts, answer, tree, tells>>

\* Histories that have diverged may conflict.  A link keeps our side on disk,
\* other files get conflict markers.
Conflict ==
  /\ pc = "merge"
  /\ baseRef # {}
  /\ ~(baseRef \subseteq head) /\ ~(head \subseteq baseRef)
  /\ conflicts' \in (SUBSET Paths) \ {{}}
  /\ file' = [p \in Paths |-> IF p \in conflicts' \ Outside THEN "markers" ELSE "ours"]
  /\ Goto("snapshot")
  /\ UNCHANGED <<complete, baseRef, head, answer, tree, tells>>

-----------------------------------------------------------------------------
(* Asking the model *)

\* _read_conflicted_snapshots
Readable == conflicts \ (Unreadable \cup Outside)

Snapshot ==
  /\ pc = "snapshot"
  /\ Readable # {}
  /\ Goto("ask")
  /\ UNCHANGED <<complete, baseRef, head, file, conflicts, answer, tree, tells>>

NothingReadable ==
  /\ pc = "snapshot"
  /\ Readable = {}
  /\ AbortMerge
  /\ UNCHANGED <<complete, baseRef, head, answer, tree, tells>>

DeclinedReason == \* mutant: Slack gets the reason where the outcome belongs
  /\ pc = "ask"
  /\ Fails("llm_error") \/ Fails("llm_abort")
  /\ AbortMerge
  /\ notified' = "llm_abort"
  /\ UNCHANGED <<complete, baseRef, head, answer, tree, remote>>

\* LLMError, or decision = "abort".
Declined ==
  /\ pc = "ask"
  /\ Fails("llm_error") \/ Fails("llm_abort")
  /\ AbortMerge
  /\ notified' = "abort"
  /\ UNCHANGED <<complete, baseRef, head, answer, tree, remote>>

\* Any other exception leaves the merge as it is and goes to the caller.
AskRaised ==
  /\ pc = "ask"
  /\ Fails("llm_timeout")
  /\ Goto("done")
  /\ UNCHANGED <<complete, baseRef, head, file, conflicts, answer, tree, tells>>

\* A careful model resolves the files it was shown and no others.
Answered ==
  /\ pc = "ask"
  /\ answer' \in (IF Fails("llm_sloppy") THEN SUBSET Files
                  ELSE {[path : Readable, content : {"resolved"}]})
  /\ Goto("check")
  /\ UNCHANGED <<complete, baseRef, head, file, conflicts, tree, tells>>

Missing == conflicts \ {f.path : f \in answer}
ToApply == {f \in answer : f.path \in conflicts}
NoOffenders == {} \* mutant: markers are not looked for
MarkerOffenders == {f \in ToApply : f.content = "markers"}

RejectedHalfway == \* mutant: the rejection does not return
  /\ pc = "check"
  /\ Missing # {} \/ MarkerOffenders # {}
  /\ notified' = "abort"
  /\ Goto("write")
  /\ UNCHANGED <<complete, baseRef, head, file, conflicts, answer, tree, remote>>

Rejected ==
  /\ pc = "check"
  /\ Missing # {} \/ MarkerOffenders # {}
  /\ AbortMerge
  /\ notified' = "abort"
  /\ UNCHANGED <<complete, baseRef, head, answer, tree, remote>>

Accepted ==
  /\ pc = "check"
  /\ Missing = {} /\ MarkerOffenders = {}
  /\ Goto("write")
  /\ UNCHANGED <<complete, baseRef, head, file, conflicts, answer, tree, tells>>

-----------------------------------------------------------------------------
(* Committing and pushing the merge *)

\* What the answer has for a path; if it names the path twice, either.
Resolutions(p) == {f.content : f \in {g \in ToApply : g.path = p}}

\* _write_merge_resolutions leaves out what points out of the repository.
Write ==
  /\ pc = "write"
  /\ file' \in [Paths -> Contents]
  /\ \A p \in Paths :
       IF p \notin Outside /\ Resolutions(p) # {}
         THEN file'[p] \in Resolutions(p)
         ELSE file'[p] = file[p]
  /\ Goto("commit")
  /\ UNCHANGED <<complete, baseRef, head, conflicts, answer, tree, tells>>

\* git add --all marks every path as merged, resolved or not.
Commit ==
  /\ pc = "commit"
  /\ head' = head \cup baseRef \cup {MergeCommit}
  /\ tree' = file
  /\ Goto("push")
  /\ UNCHANGED <<complete, baseRef, file, conflicts, answer, tells>>

CommitFailed ==
  /\ Fails("git_error")
  /\ pc = "commit"
  /\ Goto("done")
  /\ UNCHANGED <<complete, baseRef, head, file, conflicts, answer, tree, tells>>

ForcePush == TRUE \* mutant: git push --force
FastForward == remote[HeadBranch] \subseteq head

Push ==
  /\ pc = "push"
  /\ FastForward
  /\ remote' = [remote EXCEPT ![HeadBranch] = head]
  /\ notified' = "resolve"
  /\ Goto("done")
  /\ UNCHANGED <<complete, baseRef, head, file, conflicts, answer, tree>>

\* Refused, or failing before or after it reached GitHub: Slack hears nothing.
PushFailedUnnoticed == \* mutant: _push without check=True
  /\ pc = "push"
  /\ ~FastForward
  /\ notified' = "resolve"
  /\ Goto("done")
  /\ UNCHANGED <<complete, baseRef, head, file, conflicts, answer, tree, remote>>

PushFailed ==
  /\ pc = "push"
  /\ \/ ~FastForward /\ UNCHANGED remote
     \/ Fails("git_error") /\ UNCHANGED remote
     \/ /\ Fails("git_error")
        /\ FastForward
        /\ remote' = [remote EXCEPT ![HeadBranch] = head]
  /\ Goto("done")
  /\ UNCHANGED <<complete, baseRef, head, file, conflicts, answer, tree, notified>>

-----------------------------------------------------------------------------
(* People *)

\* A commit on top of the branch, or a rebase that drops the bot's fix.
HumanPush ==
  /\ \E n \in HumanCommits :
       /\ n \notin remote[HeadBranch]
       /\ \A m \in HumanCommits : m < n => m \in remote[HeadBranch]
       /\ \/ /\ "human_push" \in Environment
             /\ remote' = [remote EXCEPT ![HeadBranch] = @ \cup {n}]
          \/ /\ "human_rewrite" \in Environment
             /\ remote' = [remote EXCEPT ![HeadBranch] =
                  (@ \cup {n}) \ {FixCommit, MergeCommit}]
  /\ UNCHANGED <<pc, complete, baseRef, head, file, conflicts, answer, tree, notified>>

Attempt ==
  \/ Unshallow \/ Fetch \/ FetchFailed
  \/ MergeRefused \/ UpToDate \/ CleanMerge \/ Conflict
  \/ Snapshot \/ NothingReadable
  \/ Declined \/ AskRaised \/ Answered \/ Rejected \/ Accepted
  \/ Write \/ Commit \/ CommitFailed \/ Push \/ PushFailed

\* The attempt is over and nobody pushes any more.
Over == pc = "done" /\ UNCHANGED vars

Next == Attempt \/ HumanPush \/ Over

Spec == Init /\ [][Next]_vars

\* Every call returns: the provider times out, git is assumed to return.
FairSpec == Spec /\ WF_vars(Attempt)

-----------------------------------------------------------------------------
(* Properties *)

Merged == MergeCommit \in remote[HeadBranch]

\* README: "never pushes a half-resolved state".  A merge on GitHub has, for
\* every path that conflicted, a resolution the model gave and none of git's
\* conflict markers, whatever the model answered and whatever people pushed.
NeverHalfResolved ==
  Merged => /\ \A p \in Paths : tree[p] # "markers"
            /\ \A p \in conflicts : tree[p] = "resolved"

\* README: when the model declines or its resolution is partial "the PR is left
\* as-is".  Slack is told of an aborted merge only if there is no merge commit.
AbortLeavesBranch == notified = "abort" => ~Merged

\* Slack is told of a resolved merge only once GitHub has it.
ResolveIsPushed ==
  [][notified' = "resolve" /\ notified # "resolve" => MergeCommit \in remote'[HeadBranch]]_vars

\* What the processor relies on: see MergeAttempt.
Promise == INSTANCE MergeAttempt WITH
  step <- CASE pc = "done" -> "post" [] pc = "push" -> "push_merge" [] OTHER -> "merge",
  clone <- head,
  branch <- remote[HeadBranch]

PromiseKept == Promise!Spec

\* README: "After the push, fetches the PR's base branch and attempts a merge."
\* When nothing fails and the model resolves every conflict, the head branch has
\* the base branch's commits in the end.
BaseIsMerged == pc = "done" => remote[BaseBranch] \subseteq remote[HeadBranch]

=============================================================================
