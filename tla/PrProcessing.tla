---------------------------- MODULE PrProcessing ----------------------------
(***************************************************************************)
(* Runs of the comment processor over one pull request: process_jobs and   *)
(* process_pr_manual, the lock they queue on, and _process_pr_locked, up   *)
(* to the status that main.py records for the run.                         *)
(*                                                                         *)
(* Several runs, each on a thread of its own, act on the same three things *)
(* outside the process: the head branch on GitHub, its review threads and  *)
(* the replies below them.  People act on the branch and the threads too.  *)
(* A step of a run is one call that can be observed from outside, with the *)
(* local work that surrounds it.                                           *)
(***************************************************************************)
EXTENDS Naturals, FiniteSets, Sequences

CONSTANTS
  Runs,           \* the background tasks: webhook deliveries and /process calls
  NoRun,          \* "nobody", for the lock and for commits people make
  Manual,         \* the runs that /process started
  Delivered,      \* the comments in the payload or the review of a webhook run
  NumComments,    \* review comments on the PR, numbered as GitHub lists them
  Thread,         \* the comment that starts the thread a comment is in
  BotAuthored,    \* the comments whose author is in BOT_LOGINS
  MaxComments,    \* settings.max_comments_per_event
  DryRun,         \* settings.dry_run
  MergeFollowUp,  \* settings.merge_conflict_resolution, and a base branch is known
  BaseIsHead,     \* the base branch has the head branch's name (a fork's "main")
  MaxHumanPushes, \* bound: commits people push to the branch
  Environment     \* what may go wrong or happen around the runs

Comments == 1..NumComments

ASSUME RunsAssumption ==
  /\ IsFiniteSet(Runs)
  /\ NoRun \notin Runs
  /\ Manual \subseteq Runs
  /\ Delivered \in [Runs -> SUBSET Comments]

ASSUME CommentsAssumption ==
  /\ NumComments \in Nat
  /\ Thread \in [Comments -> Comments]
  /\ BotAuthored \subseteq Comments

ASSUME SettingsAssumption ==
  /\ MaxComments \in Nat \ {0}
  /\ DryRun \in BOOLEAN
  /\ MergeFollowUp \in BOOLEAN
  /\ BaseIsHead \in BOOLEAN
  /\ MaxHumanPushes \in Nat

\* github_error: a call answers with an error status.  lookup_miss: the thread
\* lookup fails, or the thread is past its 500.  exception: anything the code
\* does not catch near the call (an HTTP timeout, a failing git command).
\* blank_reply: the model's reply is only white space.  long_reply: replies are
\* cut at 2000 characters, and BOT_MARKER at their end with them.
ASSUME EnvironmentAssumption ==
  Environment \subseteq {"github_error", "lookup_miss", "exception", "crash",
                         "blank_reply", "long_reply", "human_push", "human_resolve"}

VARIABLES
  pc,        \* where each run is
  lock,      \* the run that holds _PROCESS_LOCK, or NoRun
  todo,      \* the comments a run has to look up
  at,        \* the position of its loop
  pending,   \* the comments it will triage, each with the thread it read
  clone,     \* the history in its temporary clone
  replies,   \* its _PendingReply list
  handled,   \* what it counted in its TriggerResult and told Slack
  branch,    \* the history of the head branch on GitHub
  resolved,  \* the threads that are resolved on GitHub
  posts      \* the replies posted on GitHub

local == <<todo, at, pending, replies, handled>>
github == <<branch, resolved, posts>>
vars == <<pc, lock, local, clone, github>>

-----------------------------------------------------------------------------
(* Types *)

\* Comments, and our own replies: those in thread t share the number NumComments + t.
Ids == 1..(2 * NumComments)
Decisions == {"fix", "dismiss", "skip", "needs_review"}
Commits == [kind : {"fix", "merge", "human"}, run : Runs \cup {NoRun}, n : Nat]
PendingItems == [comment : Ids, thread : {"open", "none"}]
PendingReplies == [comment : Ids, thread : {"open", "none"},
                   decision : Decisions, visible : BOOLEAN]

\* The steps inside the lock, and the states of a run that is over.
Critical == {"lookup", "sweep", "triage", "merge", "push_merge", "post", "resolve"}
Ended == {"ok", "error", "killed"}

TypeOK ==
  /\ pc \in [Runs -> {"idle", "waiting"} \cup Critical \cup Ended]
  /\ lock \in Runs \cup {NoRun}
  /\ todo \in [Runs -> Seq(Ids)]
  /\ at \in [Runs -> Nat \ {0}]
  /\ pending \in [Runs -> Seq(PendingItems)]
  /\ clone \in [Runs -> SUBSET Commits]
  /\ replies \in [Runs -> Seq(PendingReplies)]
  /\ handled \in [Runs -> SUBSET [comment : Ids, decision : Decisions]]
  /\ branch \subseteq Commits
  /\ resolved \subseteq Comments
  /\ posts \subseteq [run : Runs, comment : Ids, decision : Decisions]

Init ==
  /\ pc = [r \in Runs |-> "idle"]
  /\ lock = NoRun
  /\ todo = [r \in Runs |-> <<>>]
  /\ at = [r \in Runs |-> 1]
  /\ pending = [r \in Runs |-> <<>>]
  /\ clone = [r \in Runs |-> {}]
  /\ replies = [r \in Runs |-> <<>>]
  /\ handled = [r \in Runs |-> {}]
  /\ branch = {}
  /\ resolved = {}
  /\ posts = {}

-----------------------------------------------------------------------------
(* Comments, threads and commits *)

\* The one list of the elements of S in the order GitHub lists them.
Ascending(S) ==
  {s \in [1..Cardinality(S) -> S] : \A i, j \in DOMAIN s : i < j => s[i] < s[j]}

FirstN(s, n) == SubSeq(s, 1, IF Len(s) < n THEN Len(s) ELSE n)

ThreadOf(c) == IF c \in Comments THEN Thread[c] ELSE c - NumComments

\* What list_pr_review_comments returns: our own replies are review comments too.
Listed == Comments \cup {NumComments + ThreadOf(p.comment) : p \in posts}

IsReply(c) == IF c \in Comments THEN Thread[c] # c ELSE TRUE
HasMarker(c) == c \notin Comments /\ "long_reply" \notin Environment
ActionableUnfiltered(c) == ~HasMarker(c) \* mutant: replies are not left out
Actionable(c) == ~IsReply(c) /\ ~HasMarker(c)

\* What find_review_thread tells the caller of comment c.
ThreadViews(c) ==
  {IF ThreadOf(c) \in resolved THEN "resolved" ELSE "open"}
    \cup (IF "lookup_miss" \in Environment THEN {"none"} ELSE {})

PendingComments(r) == {pending[r][i].comment : i \in DOMAIN pending[r]}

\* The comments _collect_sweep_comments leaves for the second lookup loop.
SweepUnlookedOnly(r) == \* mutant: the sweep leaves out all of the first list
  {c \in Listed : (\A i \in DOMAIN todo[r] : todo[r][i] # c) /\ Actionable(c) /\ c \in BotAuthored}
SweepEverything(r) == \* mutant: handled_ids is ignored
  {c \in Listed : Actionable(c) /\ c \in BotAuthored}
SweepCandidates(r) ==
  {c \in Listed : c \notin PendingComments(r) /\ Actionable(c) /\ c \in BotAuthored}

\* The work one trigger may take on: "user explicitly opted into 2x".
BudgetUncapped == MaxComments + NumComments \* mutant: the cap is dropped
Budget == MaxComments * 2

FixCommit(r, c) == [kind |-> "fix", run |-> r, n |-> c]
MergeCommit(r) == [kind |-> "merge", run |-> r, n |-> 0]
HumanCommit(n) == [kind |-> "human", run |-> NoRun, n |-> n]
HumanCommits == {c \in branch : c.kind = "human"}

\* GitHub takes a push only if it does not drop a commit of the branch.
ForcePush(r) == TRUE \* mutant: git push --force
FastForward(r) == branch \subseteq clone[r]

\* committed_any
Committed(r) == \E i \in DOMAIN replies[r] : replies[r][i].decision = "fix"

-----------------------------------------------------------------------------
(* Moving a run *)

Goto(r, label) == pc' = [pc EXCEPT ![r] = label]
RestartAtZero(r) == at' = [at EXCEPT ![r] = 0] \* mutant: the loop starts before its list
Advance(r) == at' = [at EXCEPT ![r] = @ + 1]
Restart(r) == at' = [at EXCEPT ![r] = 1]

LockIgnored == TRUE \* mutant: no _PROCESS_LOCK
LockFree == lock = NoRun
LockKept(r) == lock \* mutant: the lock survives its run
Released(r) == IF lock = r THEN NoRun ELSE lock

\* Leaving _process_pr drops the lock, the temporary directory and the locals;
\* only a run that ends well keeps pending, to say what it had picked.
Finish(r, status) ==
  /\ Goto(r, status)
  /\ lock' = Released(r)
  /\ clone' = [clone EXCEPT ![r] = {}]
  /\ todo' = [todo EXCEPT ![r] = <<>>]
  /\ pending' = [pending EXCEPT ![r] = IF status = "ok" THEN @ ELSE <<>>]
  /\ replies' = [replies EXCEPT ![r] = <<>>]
  /\ Restart(r)

-----------------------------------------------------------------------------
(* Before the lock *)

\* /process: the repository is not in the allow-list.
RefuseRepository(r) ==
  /\ pc[r] = "idle"
  /\ r \in Manual
  /\ Finish(r, "ok")
  /\ UNCHANGED <<handled, github>>

\* A webhook run, with INVOLVED_USERS set and none of them on the PR.  When the
\* commits cannot be listed the run goes on.
NotInvolved(r) ==
  /\ pc[r] = "idle"
  /\ r \notin Manual
  /\ Finish(r, "ok")
  /\ UNCHANGED <<handled, github>>

\* The run is about one of these lists; with an empty one it is over.  A GitHub
\* error on the way leaves an empty list too.
CollectFrom(r, lists) ==
  /\ pc[r] = "idle"
  /\ \E s \in lists \cup (IF "github_error" \in Environment THEN {<<>>} ELSE {}) :
       IF s = <<>>
         THEN Finish(r, "ok")
         ELSE /\ Goto(r, "waiting")
              /\ todo' = [todo EXCEPT ![r] = s]
              /\ UNCHANGED <<lock, at, pending, clone, replies>>
  /\ UNCHANGED <<handled, github>>

\* process_jobs: the bots' comments in the payload or the review.
CollectDelivered(r) ==
  /\ r \notin Manual
  /\ CollectFrom(r, {FirstN(s, MaxComments) : s \in Ascending(Delivered[r] \cap BotAuthored)})

\* process_pr_manual: every comment on the PR that may be work, uncapped.
CollectAll(r) ==
  /\ r \in Manual
  /\ CollectFrom(r, Ascending({c \in Listed : Actionable(c)}))

\* with _PROCESS_LOCK
Acquire(r) ==
  /\ pc[r] = "waiting"
  /\ LockFree
  /\ lock' = r
  /\ Goto(r, "lookup")
  /\ Restart(r)
  /\ UNCHANGED <<todo, pending, clone, replies, handled, github>>

-----------------------------------------------------------------------------
(* Selecting the work: the lookup loop, the sweep and the cap *)

ReadThreadUnlessReplied(r) == \* mutant: resolved threads are picked if nobody replied
  LET c == todo[r][at[r]] IN
  /\ pending' = [pending EXCEPT ![r] =
       IF ThreadOf(c) \in resolved /\ \E p \in posts : ThreadOf(p.comment) = ThreadOf(c)
         THEN @ ELSE Append(@, [comment |-> c, thread |-> "open"])]
  /\ Advance(r)

\* Both loops drop a comment whose thread is resolved and keep the others with
\* the thread they read; a failed lookup reads as "no thread".
ReadThread(r) ==
  LET c == todo[r][at[r]] IN
  /\ \E view \in ThreadViews(c) :
       pending' = [pending EXCEPT ![r] =
         IF view = "resolved" THEN @ ELSE Append(@, [comment |-> c, thread |-> view])]
  /\ Advance(r)

\* The first loop breaks once it has max_comments_per_event comments.
LookupOver(r) == at[r] > Len(todo[r]) \/ Len(pending[r]) >= MaxComments

Lookup(r) ==
  /\ pc[r] = "lookup"
  /\ ~LookupOver(r)
  /\ ReadThread(r)
  /\ UNCHANGED <<pc, lock, todo, clone, replies, handled, github>>

SweepList(r) ==
  /\ pc[r] = "lookup"
  /\ LookupOver(r)
  /\ \E s \in Ascending(SweepCandidates(r))
              \cup (IF "github_error" \in Environment THEN {<<>>} ELSE {}) :
       todo' = [todo EXCEPT ![r] = s]
  /\ Restart(r)
  /\ Goto(r, "sweep")
  /\ UNCHANGED <<lock, pending, clone, replies, handled, github>>

LookupSwept(r) ==
  /\ pc[r] = "sweep"
  /\ at[r] <= Len(todo[r])
  /\ ReadThread(r)
  /\ UNCHANGED <<pc, lock, todo, clone, replies, handled, github>>

NothingPending(r) ==
  /\ pc[r] = "sweep"
  /\ at[r] > Len(todo[r])
  /\ pending[r] = <<>>
  /\ Finish(r, "ok")
  /\ UNCHANGED <<handled, github>>

\* The cap on the work, then _clone and configure_repo_signing.
Clone(r) ==
  /\ pc[r] = "sweep"
  /\ at[r] > Len(todo[r])
  /\ pending[r] # <<>>
  /\ pending' = [pending EXCEPT ![r] = FirstN(@, Budget)]
  /\ clone' = [clone EXCEPT ![r] = branch]
  /\ todo' = [todo EXCEPT ![r] = <<>>]
  /\ Restart(r)
  /\ Goto(r, "triage")
  /\ UNCHANGED <<lock, replies, handled, github>>

-----------------------------------------------------------------------------
(* Triage: one verdict per pending comment *)

\* A verdict queues one reply and moves on to the next comment.  A reply that
\* is only white space is not posted.
Queue(r, decision, visible) ==
  /\ pc[r] = "triage"
  /\ at[r] <= Len(pending[r])
  /\ replies' = [replies EXCEPT ![r] =
       Append(@, [comment |-> pending[r][at[r]].comment,
                  thread |-> pending[r][at[r]].thread,
                  decision |-> decision, visible |-> visible])]
  /\ Advance(r)
  /\ UNCHANGED <<pc, lock, todo, pending, handled, github>>

Visible == IF "blank_reply" \in Environment THEN BOOLEAN ELSE {TRUE}

\* Unreadable file, LLMError, a skip without a reason, a truncated replacement.
TriageToHuman(r) ==
  /\ Queue(r, "needs_review", FALSE)
  /\ UNCHANGED clone

\* A skip verdict; in a dry run also a fix, which is applied, reset and reported
\* as a skip (module Triage).
TriageSkip(r) ==
  /\ \E v \in IF DryRun THEN Visible ELSE {TRUE} : Queue(r, "skip", v)
  /\ UNCHANGED clone

\* A dismiss verdict, or a fix that changes nothing.
TriageDismiss(r) ==
  /\ \E v \in Visible : Queue(r, "dismiss", v)
  /\ UNCHANGED clone

TriageFix(r) ==
  /\ ~DryRun
  /\ \E v \in Visible : Queue(r, "fix", v)
  /\ clone' = [clone EXCEPT ![r] = @ \cup {FixCommit(r, pending[r][at[r]].comment)}]

-----------------------------------------------------------------------------
(* Push and the merge follow-up *)

TriageOver(r) == pc[r] = "triage" /\ at[r] > Len(pending[r])

NoPush(r) ==
  /\ TriageOver(r)
  /\ ~Committed(r)
  /\ Restart(r)
  /\ Goto(r, "post")
  /\ UNCHANGED <<lock, todo, pending, clone, replies, handled, github>>

Push(r) ==
  /\ TriageOver(r)
  /\ Committed(r)
  /\ FastForward(r)
  /\ branch' = clone[r]
  /\ Restart(r)
  /\ Goto(r, IF MergeFollowUp /\ ~DryRun THEN "merge" ELSE "post")
  /\ UNCHANGED <<lock, todo, pending, clone, replies, handled, resolved, posts>>

\* The push is refused: the exception ends the run, nothing is posted.
PushRejectedIgnored(r) == \* mutant: _run without check=True
  /\ TriageOver(r)
  /\ Committed(r)
  /\ ~FastForward(r)
  /\ Restart(r)
  /\ Goto(r, "post")
  /\ UNCHANGED <<lock, todo, pending, clone, replies, handled, github>>

PushRejected(r) ==
  /\ TriageOver(r)
  /\ Committed(r)
  /\ ~FastForward(r)
  /\ Finish(r, "error")
  /\ UNCHANGED <<handled, github>>

\* The push reaches GitHub and git fails all the same.
PushUnconfirmed(r) ==
  /\ "exception" \in Environment
  /\ TriageOver(r)
  /\ Committed(r)
  /\ FastForward(r)
  /\ branch' = clone[r]
  /\ Finish(r, "error")
  /\ UNCHANGED <<handled, resolved, posts>>

\* _resolve_merge_conflicts finds nothing to merge, gives up or raises: the
\* replies go out all the same.  The clone follows the head branch only, so a
\* base of another name is never there to be merged (module MergeFollowUp).
MergeNothing(r) ==
  /\ pc[r] = "merge"
  /\ Goto(r, "post")
  /\ UNCHANGED <<lock, local, clone, github>>

\* What the clone merges it fetched a moment before.
MergeLocally(r) ==
  /\ pc[r] = "merge"
  /\ BaseIsHead
  /\ \E fetched \in SUBSET branch :
       /\ ~(fetched \subseteq clone[r])
       /\ clone' = [clone EXCEPT ![r] = @ \cup fetched \cup {MergeCommit(r)}]
  /\ Goto(r, "push_merge")
  /\ UNCHANGED <<lock, local, github>>

PushMerge(r) ==
  /\ pc[r] = "push_merge"
  /\ FastForward(r)
  /\ branch' = clone[r]
  /\ Goto(r, "post")
  /\ UNCHANGED <<lock, local, clone, resolved, posts>>

PushMergeFailed(r) ==
  /\ pc[r] = "push_merge"
  /\ ~FastForward(r) \/ "exception" \in Environment
  /\ Goto(r, "post")
  /\ UNCHANGED <<lock, local, clone, github>>

-----------------------------------------------------------------------------
(* Posting the replies and resolving the threads *)

Reply(r) == replies[r][at[r]]
HasReplyShort(r) == at[r] < Len(replies[r]) \* mutant: the last reply is left out
HasReply(r) == at[r] <= Len(replies[r])
Posted(r) ==
  posts \cup {[run |-> r, comment |-> Reply(r).comment, decision |-> Reply(r).decision]}

\* mutant: every thread that was found is resolved
ResolvesAll(reply) == reply.thread = "open"

\* The thread is resolved for a fix and a dismissal, when one was found.
Resolves(reply) == reply.decision \in {"fix", "dismiss"} /\ reply.thread = "open"
ResolvedBy(reply) == resolved \cup {ThreadOf(reply.comment)}

PostReply(r) ==
  /\ pc[r] = "post"
  /\ HasReply(r)
  /\ Reply(r).visible
  /\ posts' = Posted(r)
  /\ Goto(r, "resolve")
  /\ UNCHANGED <<lock, local, clone, branch, resolved>>

\* The call fails, applied or not: the item is dropped, or the run with it.
PostFailed(r) ==
  /\ pc[r] = "post"
  /\ HasReply(r)
  /\ Reply(r).visible
  /\ posts' \in {posts, Posted(r)}
  /\ \/ /\ "github_error" \in Environment
        /\ Advance(r)
        /\ UNCHANGED <<pc, lock, todo, pending, clone, replies>>
     \/ /\ "exception" \in Environment
        /\ Finish(r, "error")
  /\ UNCHANGED <<handled, branch, resolved>>

\* Past the post, or with nothing to post.
ReadyToResolve(r) ==
  \/ pc[r] = "resolve"
  \/ pc[r] = "post" /\ HasReply(r) /\ ~Reply(r).visible

\* resolve_thread, result.record_decision and slack.notify_decision.
Settle(r) ==
  /\ ReadyToResolve(r)
  /\ resolved' = IF Resolves(Reply(r)) THEN ResolvedBy(Reply(r)) ELSE resolved
  /\ handled' = [handled EXCEPT ![r] =
       @ \cup {[comment |-> Reply(r).comment, decision |-> Reply(r).decision]}]
  /\ Advance(r)
  /\ Goto(r, "post")
  /\ UNCHANGED <<lock, todo, pending, clone, replies, branch, posts>>

ResolveFailed(r) ==
  /\ ReadyToResolve(r)
  /\ Resolves(Reply(r))
  /\ resolved' \in {resolved, ResolvedBy(Reply(r))}
  /\ \/ /\ "github_error" \in Environment
        /\ Advance(r)
        /\ Goto(r, "post")
        /\ UNCHANGED <<lock, todo, pending, clone, replies>>
     \/ /\ "exception" \in Environment
        /\ Finish(r, "error")
  /\ UNCHANGED <<handled, branch, posts>>

\* The reply is settled and counted, and telling Slack raises: a body that is
\* JSON but no object is not caught.
NotifyRaised(r) ==
  /\ "exception" \in Environment
  /\ ReadyToResolve(r)
  /\ resolved' = IF Resolves(Reply(r)) THEN ResolvedBy(Reply(r)) ELSE resolved
  /\ handled' = [handled EXCEPT ![r] =
       @ \cup {[comment |-> Reply(r).comment, decision |-> Reply(r).decision]}]
  /\ Finish(r, "error")
  /\ UNCHANGED <<branch, posts>>

RepliesDone(r) ==
  /\ pc[r] = "post"
  /\ ~HasReply(r)
  /\ Finish(r, "ok")
  /\ UNCHANGED <<handled, github>>

-----------------------------------------------------------------------------
(* Faults and people *)

\* An exception that main.py catches: GitHub or the model times out, git fails.
Raise(r) ==
  /\ "exception" \in Environment
  /\ pc[r] \in {"idle", "lookup", "sweep", "triage"}
  /\ Finish(r, "error")
  /\ UNCHANGED <<handled, github>>

\* The process restarts: tasks, lock and clones live in memory and /tmp.
Crash ==
  LET live == {r \in Runs : pc[r] \in {"waiting"} \cup Critical} IN
  /\ "crash" \in Environment
  /\ live # {}
  /\ pc' = [r \in Runs |-> IF r \in live THEN "killed" ELSE pc[r]]
  /\ lock' = NoRun
  /\ clone' = [r \in Runs |-> {}]
  /\ todo' = [r \in Runs |-> <<>>]
  /\ pending' = [r \in Runs |-> IF r \in live THEN <<>> ELSE pending[r]]
  /\ replies' = [r \in Runs |-> <<>>]
  /\ at' = [r \in Runs |-> 1]
  /\ UNCHANGED <<handled, github>>

\* People add commits; that they rewrite the branch is in MergeFollowUp only.
HumanPush ==
  /\ "human_push" \in Environment
  /\ \E n \in 1..MaxHumanPushes :
       /\ HumanCommit(n) \notin branch
       /\ branch' = branch \cup {HumanCommit(n)}
  /\ UNCHANGED <<pc, lock, local, clone, resolved, posts>>

HumanResolve ==
  /\ "human_resolve" \in Environment
  /\ \E c \in Comments :
       /\ Thread[c] \notin resolved
       /\ resolved' = resolved \cup {Thread[c]}
  /\ UNCHANGED <<pc, lock, local, clone, branch, posts>>

-----------------------------------------------------------------------------

\* A step that the code of run r takes by itself once the task is started.
Work(r) ==
  \/ Acquire(r)
  \/ Lookup(r) \/ SweepList(r) \/ LookupSwept(r) \/ NothingPending(r) \/ Clone(r)
  \/ TriageToHuman(r) \/ TriageSkip(r) \/ TriageDismiss(r)
  \/ TriageFix(r)
  \/ NoPush(r) \/ Push(r) \/ PushRejected(r) \/ PushUnconfirmed(r)
  \/ MergeNothing(r) \/ MergeLocally(r) \/ PushMerge(r) \/ PushMergeFailed(r)
  \/ PostReply(r) \/ PostFailed(r) \/ Settle(r) \/ ResolveFailed(r) \/ NotifyRaised(r)
  \/ RepliesDone(r)

Step(r) ==
  \/ RefuseRepository(r) \/ NotInvolved(r) \/ CollectDelivered(r) \/ CollectAll(r)
  \/ Work(r)
  \/ Raise(r)

\* Every run is over: nothing is left to do.
AllEnded == (\A r \in Runs : pc[r] \in Ended) /\ UNCHANGED vars

Next == (\E r \in Runs : Step(r)) \/ Crash \/ HumanPush \/ HumanResolve \/ AllEnded

Spec == Init /\ [][Next]_vars

\* The thread pool keeps scheduling a task that has started, and every call it
\* makes returns: HTTP calls time out, git is assumed to.
FairSpec == Spec /\ \A r \in Runs : WF_vars(Work(r))

-----------------------------------------------------------------------------
(* Safety *)

\* While a run works in its clone, only people put commits on the branch behind
\* its back: this is what _PROCESS_LOCK is for (two deliveries of one review
\* used to race on git push and the loser lost its commit and its replies).
OnlyHumansBlockPush ==
  \A r \in Runs : pc[r] \in {"triage", "merge", "push_merge"} =>
    \A c \in branch \ clone[r] : c.kind = "human"

\* What the bot says is fixed is on the branch: a reply "Addressed in <sha>", a
\* fix counted in a run's result or told to Slack has its commit on GitHub,
\* whatever failed, crashed or was pushed by others in between (people who rewrite
\* the branch may of course drop what the bot has pushed: see HumanPush).
ClaimsArePushed ==
  /\ \A p \in posts : p.decision = "fix" => FixCommit(p.run, p.comment) \in branch
  /\ \A r \in Runs : \A h \in handled[r] :
       h.decision = "fix" => FixCommit(r, h.comment) \in branch

\* Neither a run nor its merge follow-up ever drops a commit from the branch.
BranchNeverRewritten == [][branch \subseteq branch']_vars

\* The 2x cap on the work of one trigger: that many fixes and no more reach the
\* branch from one run, however many comments the sweep brings in.
BlastRadius ==
  \A r \in Runs : Cardinality({c \in branch : c.kind = "fix" /\ c.run = r}) <= 2 * MaxComments

\* When GitHub answers and nothing crashes, no comment is settled twice: no two
\* runs commit a fix for it or post a fix or a dismissal below it.  This is
\* what reading the thread inside the lock is for.
SettledOnce ==
  /\ \A c, d \in branch : c.kind = "fix" /\ d.kind = "fix" /\ c.n = d.n => c.run = d.run
  /\ \A p, q \in posts :
       /\ p.comment = q.comment
       /\ {p.decision, q.decision} \subseteq {"fix", "dismiss"}
       => p.run = q.run

\* When GitHub answers, a run that starts to triage has picked every unresolved
\* thread a bot started, or as many as its budget allows: the sweep makes up
\* for what the payload, the early break and lost deliveries left out.
SweepIsExhaustive ==
  \A r \in Runs : pc[r] = "triage" =>
    \/ Len(pending[r]) = Budget
    \/ \A c \in BotAuthored :
         Thread[c] = c /\ c \notin resolved => c \in PendingComments(r)

\* README: "Resolved threads are still skipped (same as the webhook flow)".  When
\* GitHub answers, no run picks a comment of a thread that is resolved when it
\* looks the thread up, whoever resolved it while the run was queued.  (A lookup
\* that fails reads as "no thread", and the comment is picked all the same.)
ResolvedThreadsSkipped ==
  [][\A r \in Runs : \A c \in Comments :
       c \in PendingComments(r)' \ PendingComments(r) => Thread[c] \notin resolved]_vars

\* When GitHub answers, status "ok" means the whole batch was dealt with: every
\* comment the run picked is counted, and its thread resolved if that was due.
OkMeansSettled ==
  \A r \in Runs : pc[r] = "ok" =>
    /\ PendingComments(r) = {h.comment : h \in handled[r]}
    /\ \A h \in handled[r] :
         h.decision \in {"fix", "dismiss"} => ThreadOf(h.comment) \in resolved

\* A dry run leaves the branch to people and claims no fix.
DryRunTouchesNothing ==
  /\ branch = HumanCommits
  /\ \A p \in posts : p.decision # "fix"
  /\ \A r \in Runs : \A h \in handled[r] : h.decision # "fix"

-----------------------------------------------------------------------------
(* What can be seen of it *)

\* What reviewers see on GitHub and operators in the results are the steps of
\* the plain bot of module ReviewBot: a run publishes its own commits before it
\* says anything, answers a comment of others at most once, speaks only of what
\* it has published, resolves only threads it has fixed or dismissed - after it
\* has answered - and counts a comment once, whatever fails in between.
Bot == INSTANCE ReviewBot WITH
  Blank <- "blank_reply" \in Environment,
  PeopleResolve <- "human_resolve" \in Environment

ActsAsReviewBot == Bot!Spec

-----------------------------------------------------------------------------
(* Liveness *)

\* Every run that was started comes to an end, however many queue on the lock
\* and whatever ends the run that holds it.
StartedRunsEnd == \A r \in Runs : pc[r] = "waiting" ~> pc[r] \in Ended

-----------------------------------------------------------------------------
(* What the documentation says and the code does not do *)

\* _process_pr: "A queued delivery re-reads thread state on entry, so anything
\* already handled is filtered out and it simply no-ops."
HandledIsFilteredOut ==
  \A q, r \in Runs : q # r /\ pc[q] = "ok" /\ pc[r] = "triage" =>
    {h.comment : h \in handled[q]} \cap PendingComments(r) = {}

=============================================================================
