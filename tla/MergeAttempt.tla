---------------------------- MODULE MergeAttempt ----------------------------
(***************************************************************************)
(* What _process_pr_locked relies on when it calls _resolve_merge_conflicts *)
(* after its own push: whatever happens inside, the replies come next, and *)
(* the only thing the attempt can do to the head branch is one push of a   *)
(* history that extends it.                                                *)
(***************************************************************************)
CONSTANTS
  Commits,     \* every commit there can be
  MergeCommit  \* the commit that concludes a merge

VARIABLES
  step,    \* "merge", then "push_merge", then "post": the replies
  clone,   \* the history in the temporary clone
  branch   \* the head branch on GitHub

vars == <<step, clone, branch>>

Init ==
  /\ step = "merge"
  /\ clone \subseteq Commits \ {MergeCommit}
  /\ branch \subseteq Commits \ {MergeCommit}

\* Nothing to merge, a conflict left to people, a failing command, a refused push.
GiveUp ==
  /\ step \in {"merge", "push_merge"}
  /\ step' = "post"
  /\ UNCHANGED <<clone, branch>>

Merge ==
  /\ step = "merge"
  /\ \E fetched \in SUBSET (Commits \ {MergeCommit}) :
       clone' = clone \cup fetched \cup {MergeCommit}
  /\ step' = "push_merge"
  /\ UNCHANGED branch

Push ==
  /\ step = "push_merge"
  /\ branch \subseteq clone
  /\ branch' = clone
  /\ step' = "post"
  /\ UNCHANGED clone

\* People push to the branch, and may rewrite it.
People ==
  /\ branch' \in SUBSET Commits
  /\ MergeCommit \in branch' => MergeCommit \in branch
  /\ UNCHANGED <<step, clone>>

Next == GiveUp \/ Merge \/ Push \/ People

Spec == Init /\ [][Next]_vars

=============================================================================
