------------------------------ MODULE ReviewBot ------------------------------
(***************************************************************************)
(* What Comment Commander does to a pull request, as its reviewers see it  *)
(* on GitHub and its operators in the results: runs that publish commits,  *)
(* answer comments, resolve threads and count what they did.  Locks,       *)
(* clones, queues and the order of the calls are not visible here; module  *)
(* PrProcessing implements this one.                                       *)
(***************************************************************************)

CONSTANTS
  Runs,          \* what has been started for the pull request
  Comments,      \* the review comments of others
  Thread,        \* the comment that starts the thread a comment is in
  Blank,         \* whether the model's replies may be blank
  PeopleResolve  \* whether people resolve threads meanwhile

VARIABLES
  branch,    \* the commits of the head branch
  posts,     \* the bot's replies
  resolved,  \* the resolved threads
  handled    \* what each run has counted

vars == <<branch, posts, resolved, handled>>

Init ==
  /\ branch = {}
  /\ posts = {}
  /\ resolved = {}
  /\ handled = [r \in Runs |-> {}]

Reply(r, c, d) == [run |-> r, comment |-> c, decision |-> d]

\* A fix is only spoken of when its commit can be seen.
Backed(r, c, d) == d = "fix" => [kind |-> "fix", run |-> r, n |-> c] \in branch

\* What is counted or resolved has been answered, if there was something to say.
Answered(r, c, d) == Reply(r, c, d) \in posts \/ d = "needs_review" \/ Blank

\* A run publishes its own commits, on top of what is there, before it says
\* anything.
Publish(r) ==
  /\ UNCHANGED <<posts, resolved, handled>>
  /\ \A p \in posts : p.run # r
  /\ handled[r] = {}
  /\ branch \subseteq branch'
  /\ \A c \in branch' \ branch : c.run = r

\* Once per comment; a comment left to people is not answered on GitHub.
Answer(r, c, d) ==
  /\ UNCHANGED <<branch, resolved, handled>>
  /\ d \in {"fix", "dismiss", "skip"}
  /\ Backed(r, c, d)
  /\ \A p \in posts : p.run = r => p.comment # c
  /\ posts' = posts \cup {Reply(r, c, d)}

\* The threads of fixes and dismissals are resolved, no others.
Resolve(r, c, d) ==
  /\ d \in {"fix", "dismiss"}
  /\ Backed(r, c, d)
  /\ Answered(r, c, d)
  /\ resolved' = resolved \cup {Thread[c]}

\* Counted once, with the thread's resolution if it has one.
Count(r, c, d) ==
  /\ UNCHANGED <<branch, posts>>
  /\ Backed(r, c, d)
  /\ Answered(r, c, d)
  /\ \A h \in handled[r] : h.comment # c
  /\ handled' = [handled EXCEPT ![r] = @ \cup {[comment |-> c, decision |-> d]}]
  /\ Resolve(r, c, d) \/ UNCHANGED resolved

ResolveUncounted(r, c, d) ==
  /\ UNCHANGED <<branch, posts, handled>>
  /\ Resolve(r, c, d)

PeoplePush ==
  /\ UNCHANGED <<posts, resolved, handled>>
  /\ branch \subseteq branch'
  /\ \A c \in branch' \ branch : c.kind = "human"

PeopleClose ==
  /\ PeopleResolve
  /\ resolved \subseteq resolved'
  /\ UNCHANGED <<branch, posts, handled>>

Next ==
  \/ PeoplePush
  \/ PeopleClose
  \/ \E r \in Runs : Publish(r)
  \/ \E r \in Runs, c \in Comments, d \in {"fix", "dismiss", "skip", "needs_review"} :
       Answer(r, c, d) \/ Count(r, c, d) \/ ResolveUncounted(r, c, d)

Spec == Init /\ [][Next]_vars

=============================================================================
