# Comment Commander in TLA+

Specifications, model checks and proofs for the review bot in `src/`. Comment
Commander receives GitHub webhooks (or a `/process` call), asks a language model
what to do about each review comment, commits and pushes the fixes, answers in
the review threads and resolves them.

The code is small and mostly sequential, but what it acts on is not its own: a
branch people push to, threads people resolve, deliveries that come in several
at a time, calls that fail half-way, and a process that may be restarted at any
moment. These specifications are about that.

## Inventory

| Part | Source | State | Operations | Model |
|---|---|---|---|---|
| Review processor | `processor.py` 60-760 | `_PROCESS_LOCK`; per run: pending comments, clone, queued replies | `process_jobs`, `process_pr_manual`, `_process_pr_locked` | `PrProcessing`, `Triage`; seen from outside: `ReviewBot`, `TriageOutcome` |
| Merge follow-up | `processor.py` 1002-1290 | the clone's merge in progress | `_resolve_merge_conflicts` | `MergeFollowUp`, `MergeAttempt` |
| File changes | `processor.py` 804-866 | the working tree of the clone | `_apply_files` | `ApplyFiles`, `Triage` |
| Job extraction | `processor.py` 131-290, `github_client.py` 84-110 | none | `verify_signature`, `extract_jobs`, `find_instance_for_payload` | `JobExtraction`, `Subscription` |
| Webhook set-up | `main.py` 369-500 | hooks on GitHub | `/setup-webhook` | `Subscription` |
| Ingress | `main.py` 133-228 | tasks waiting for a thread | `/webhook`, `_run_jobs`, `/health` | `Ingress` |
| Delivery store | `dedupe.py` | SQLite table on a volume | `claim` | `Ingress` |
| Trigger store | `triggers.py`, `main.py` 325-367 | results in memory, bounded | `create`, `record_decision`, `add_slack_message`, `finish`, `get`, `recent` | `TriggerStore` |
| GitHub client | `github_client.py` | none | threads, comments, replies, resolutions, hooks | as `PrProcessing` and `Subscription` see it |
| Model providers | `llm/` | none | `decide`, `resolve_merge`, parsers | `Triage` (how a call of `decide` ends), `MergeFollowUp` (what `resolve_merge` answers) |
| Slack | `slack.py` | none | `notify_decision` | that it may raise: `PrProcessing`; what is kept of it: `TriggerStore` |
| Signing, configuration | `signing.py`, `config.py` | none | | constants only |

How they interact: `/webhook` runs on the event loop, claims the delivery, looks
for jobs in it and hands a task to the thread pool. The task creates a
`TriggerResult`, selects comments and waits for `_PROCESS_LOCK`; inside it reads
each thread from GitHub, clones the branch, has the model triage each comment
(`_apply_files` writes the fixes), pushes once, tries to merge the base branch,
and then posts replies and resolves threads one by one. Dashboards read the
results meanwhile. Which deliveries come at all depends on the hooks that
`/setup-webhook` and people have made on GitHub.

What is hard, and which properties are about it, is listed in `PROJECT.json`
under `hazards`, each at its line.

## Modules

`PrProcessing` - any number of runs on one pull request. A run is a program
counter over the calls that can be observed outside; local work is part of the
call it belongs to. GitHub is three variables: `branch` (the commits of the head
branch), `resolved` (threads) and `posts` (replies). A commit is identified by
the run and the comment it was made for, so that "the bot says this is fixed"
and "this commit is on GitHub" can be compared. `Environment` names what may go
wrong: error answers, lost lookups, exceptions, a crash, blank or over-long
replies, people who push or resolve.

| Action | Code (`processor.py` unless said otherwise) |
|---|---|
| `RefuseRepository`, `NotInvolved`, `CollectDelivered`, `CollectAll` | the part of `process_pr_manual` / `process_jobs` before the lock |
| `Acquire` | `with _PROCESS_LOCK` (447) |
| `Lookup`, `SweepList`, `LookupSwept`, `NothingPending` | 468-524 |
| `Clone` | the cap (517) and `_clone` (533) |
| `Triage...` | one iteration of 548-674, by its outcome; a dry run reports fixes as skips (`TriageSkip`) |
| `NoPush`, `Push`, `PushRejected`, `PushUnconfirmed` | 676-678 |
| `MergeNothing`, `MergeLocally`, `PushMerge`, `PushMergeFailed` | 684-709, in brief |
| `PostReply`, `PostFailed`, `Settle`, `ResolveFailed` | one iteration of 711-759 |
| `NotifyRaised` | 740-759: `notify_decision` raises on a body that is JSON but no object |
| `RepliesDone`, `Raise`, `Finish` | the return to `_run_jobs` / `_run_manual` in `main.py` |

`ReviewBot` is the same bot with everything inside hidden: commits, replies,
resolved threads and counts. `PrProcessing` is shown to implement it
(`ActsAsReviewBot`): commits come before the first reply of their run, a comment
of others is answered at most once by a run and the bot's own replies never, only
threads that were fixed or dismissed are resolved, after they were answered.

`Triage` - the loop 548-674 in the clone: `head`, the working `tree`, the files of
the verdict in hand (a function from places of the answer: an entry the parser
drops leaves its place empty and the order stands). `Ask` is `_gather_files_for_comment` and the call;
`LLMFailed` / `LLMRaised` divide what `_chat` and `parse_decision` do with an
answer into what the loop catches and what ends the batch, for both wire formats;
`Fix`, `RefuseTruncated`, `NothingApplied`, `Preview`, `Apply`, `Commit` are the
branches of a fix, with `git reset --hard`, `git clean -fd` and `git add --all`
as functions of the two trees; `ResetRaised`, `ApplyRaised` and `CommitRaised` are
the ways in which these raise. A text on disk and the text that is read are apart:
`read_text` (849) makes CR LF and CR to LF, which is the constant `Decoded`, and
`write_text` (864) writes what it is given. `TriageOutcome` states what `PrProcessing` takes
for granted in its `Triage...` actions, and `Triage` is shown to implement it
(`OutcomeKept`).

`MergeAttempt` states what the processor relies on when it calls the merge
follow-up: what comes after it are the replies, and it does at most one push, of
a history that extends the branch. (That the attempt ends is part of
`StartedRunsEnd`, with the assumptions on git under "Fairness".) `MergeFollowUp` is `_resolve_merge_conflicts` command by command and is
shown to implement it (`PromiseKept`; a person's push or rewrite maps to
`People`). `PrProcessing` uses the abstract form.

`ApplyFiles` - `_apply_files` over files that are a number of lines, whether they
are blank, and whether lines of them end in CR LF (`ReadText` is what
`read_text` makes of these: the comparison is with that, the write is not). Names and files are apart: `src/./a.py` and `src/a.py` are one
file, and a path may lead out of the clone. (`Triage` has the same function over
abstract texts, where which pairs are truncations is a constant.)

`JobExtraction` - operators only: from a payload, a record of what the code looks
at, to the set of jobs (one or none). `Subscription` - around them the hooks on
GitHub and `/setup-webhook` in its steps `Call`, `AlreadyExists` / `NoneExists` /
`ListRefused` and `Created` / `CreateRefused` / `CallFailed`, people who edit
hooks, restarts with another secret, deliveries through every hook that is
subscribed (a repository's and its organisation's), and the branches the jobs
push to.

`Ingress` - the handler step by step (`Receive`, `Prune`, `Ignore`, `Dispatch`),
the table that survives a restart, the queue that does not, and the pool on
which tasks and `/health` wait for threads. A duplicate is answered in `Receive`.
`Hang` is a git command that does not return; the others then wait for its lock.

`TriggerStore` - results built outside the store's lock and inserted under it,
updates under the result's own lock in two steps each, and two kinds of readers.

`MC...` modules give the constants values for TLC; `..._proofs` modules hold the
theorems about the module they are named after (`PrProcessing` has two:
`PrWork_proofs` goes on where `PrProcessing_proofs` ends).

## Checks

| Run | Shows |
|---|---|
| `MCPrFaults` | errors, failed lookups, exceptions, a crash at any step, people pushing, replies that lost their marker: `OnlyHumansBlockPush`, `ClaimsArePushed`, `BranchNeverRewritten`, and `ActsAsReviewBot`, the refinement |
| `MCPrFanOut` | one review as two deliveries and a `/process` run, four comments in three threads, a cap of one (budget two), people resolving: `SettledOnce`, `SweepIsExhaustive`, `OkMeansSettled`, `BlastRadius`, `ResolvedThreadsSkipped` |
| `MCPrLiveness` | `StartedRunsEnd` |
| `MCTriage` | three comments in one clone, dry or not: `AskedAboutHead`, `CommitIsItsVerdict`, `DismissedFixIsInHead`, and `OutcomeKept`, the refinement |
| `MCMergeFork` | `NeverHalfResolved`, `AbortLeavesBranch`, `ResolveIsPushed`, and `PromiseKept`, the refinement |
| `MCApplyFiles` | `NothingHalfApplied`, `NoFileCollapses`, `WrittenIsChanged`, `LastChangeWins` |
| `MCIngress` | `DispatchedApart` across crashes, `LostOnlyWhenOverloaded`, `AcceptedIsRun`, `HungIsEnded` |
| `MCSubscription` | `SubscribedIsHandled`, `IdempotentSetup` with lost answers and restarts, `HeadBranchOrGone` with forks that are deleted |
| `MCStore` | `StoreKeepsLatest`, with deliveries that share the id "unknown", `RunsNewestFirst`, `RowsAreConsistent`, `PollsOnlyAdvance` |

Every property of these runs has a mutant, a changed definition that stands for
a plausible bug (the lock dropped, a push forced, the database off its volume),
under which TLC finds it violated. The mutants stand before the definitions they
change.

Runs that are expected to fail show where the code departs from what is written
about it:

- `MCPrQueued`: "anything already handled is filtered out" does not hold for
  skipped comments; each delivery of a review answers them again. (For the same
  reason comments that stay open use up the cap of later triggers, and `/process`
  returns to threads the bot has touched.)
- `MCMergeBase`: a clone made with `--depth 1 --branch` follows one branch, so
  `origin/<base>` never exists and the base is not merged. The follow-up can
  only merge when the base has the name of the head branch (a fork's `main`),
  and then what it merges is what others have pushed to that branch.
- `MCHeadGone`: when the fork of an open pull request is deleted, GitHub sends
  `head.repo = null` and the job falls back to the base repository with the
  head branch's name: fixes are pushed to the base repository's `main`, say.

Seen while modelling, without a run of its own: a failed thread lookup reads as
"no thread", and the comment of a resolved thread is then processed
(`ResolvedThreadsSkipped` holds when GitHub answers); a "fix" whose paths lead out
of the clone, whose entries are all malformed, or that has none writes nothing, is
taken for one that is there already, and its thread is resolved
(`DismissedFixIsInHead` is what is true of the files in the clone that git looks
at); a file of CR LF lines is
compared as if it had LF lines, so a fix that only makes them LF is answered as
already addressed while `HEAD` has CR LF, and one that gives the file's own bytes
counts as applied, finds nothing to commit and ends the batch, as does a fix that
only writes new files git ignores (`WrittenIsChanged` and `CommitIsItsVerdict`
hold with exactly these exceptions); new files that git ignores are left out of a
commit whose reply says "Addressed"; a delivery that is claimed before a crash is not taken again; a
conflicting path that is a link out of the repository is never written, and the
merge that resolves the others is pushed with our side of it
(`NeverHalfResolved` needs that there is none, see `LinksAside` below).

## Bounds, and why they are enough

- Two or three runs: what goes wrong between runs is between the one in the lock and one
  that waits or comes after it. `MCPrLiveness` has them compete for the lock and
  release it by every way out.
- Two to four comments with `MaxComments = 1`: the payload cap, the early break
  of the first loop, the sweep and the budget of two all bite.
- One commit by people: it may fall between any two steps of either run. Two of
  them in `MergeFollowUp`, for one before and one after the fetch.
- Three comments in `Triage`, the first and last on one file: something is left
  by a verdict, passes the next and meets a third. One tracked, one new and one
  ignored file, two entries in a verdict, and five texts, of which one is a
  truncation of the others, one too long to be read again, and two differ in the
  ends of their lines only.
- Three conflicting files: one resolved, one forgotten or still with markers, one
  the model is not shown.
- Two files in a verdict, three names for two files and a path out of the clone, texts of
  up to three lines, either end of line, with `MinLines = 2`: every side of both comparisons.
- Three requests, a retention of one and a clock up to three: a row can expire,
  be pruned by another delivery and be claimed again. Pool of two: one hung task
  and one behind it fill it.
- Two hooks, two secrets, one organisation with an allowed repository and one
  that is not, a host that is not configured: each reason to drop an event occurs,
  alone and together, and a lost answer leaves a hook the second call meets.
- Four runs of three ids for a store of two, and a list cut to one or to two: it has
  to evict, to replace, to choose and to sort. The two nameless runs are alike, which is
  the symmetry TLC uses; the insertions of all four interleave, and one of them
  is followed through its decisions by the readers.

## Fairness

`FairSpec` of `PrProcessing` assumes weak fairness of the steps of a run whose
task has started: the pool keeps scheduling its thread and every call returns.
HTTP calls have timeouts, in `GitHubClient`, the providers and Slack; git has
none, so for git it is an assumption, listed as a hazard. The lock itself is not
assumed to be fair: with finitely many runs weak fairness of `Acquire` is enough.
`FairSpec` of `Ingress` assumes that the event loop and the pool go on and that
each task that is not behind a hung one ends, which is `StartedRunsEnd`; and that
the kubelet probes again and again and restarts a container whose probe is not
answered, as `deployment.yaml` tells it to. Only `HungIsEnded` needs the latter.
The pool serves waiting calls in order, as its limiter does. Crashes, people,
GitHub's errors and hangs are never assumed to happen.

## Proofs

The theorems hold for every value of the constants that satisfies the
assumptions of the modules: any number of runs, comments, files, deliveries or
hooks, every setting and every environment. Each rests on an inductive
invariant, which is named with why the property alone would not do. Together
they cover every safety invariant, action property and refinement that the
passing runs check.

**`PrProcessing_proofs`.** `Typing` (`TypeOK`), `BranchOnlyGrows`
(`BranchNeverRewritten`), `LockProtectsBranch` (`OnlyHumansBlockPush`),
`ClaimsAreTrue` (`ClaimsArePushed`), and `DryRunIsDry`: with `DryRun` the branch
has people's commits only and no reply or count speaks of a fix
(`DryRunTouchesNothing`, which no run checks).
`TypeOK` is not inductive alone: the steps after a reply use an element of the
list of replies, so `TypeInv` adds that the position is inside it. The two safety
theorems share `SafeInv`: whoever is in the critical section holds the lock (so
no two are); a run in its clone has all the bot's commits that the branch has;
the commits of its queued fixes are in its clone while it triages and on the
branch once it is past the push; and the property itself. The lock carries the
second part, the fast-forward rule the third. `DryRunIsDry` has an invariant of
its own: no queued reply is a fix, no run is in the merge, and a clone holds only
what people pushed.

**`PrWork_proofs`.** `RunsActAsReviewBot` is the refinement of `ReviewBot`:
initial states map to initial states and each action to a step of the bot or to
a stutter. `WorkInv` is what it needs: what a run has picked and what it has yet
to look up are apart and name each comment once; the replies are those to the
picked comments in their order; before its push a run has said nothing, and after
it only what its loop is past. `BlastRadiusHolds` (`BlastRadius`) adds `FixesInv`:
the run's commits, on the branch or in the clone, are the fixes among its queued
replies, which are no more than it has picked, and that the cap bounds.

Four theorems are about a GitHub that answers and a process that stays up, which
is `Reliable` (no error answers, failed lookups, exceptions or crashes; people
may push and resolve, and the model's replies may be blank), the setting of
`MCPrFanOut`: `NothingSettledTwice` (`SettledOnce`), `OkIsSettled`
(`OkMeansSettled`), `SweepLeavesNothing` (`SweepIsExhaustive`) and
`ResolvedAreLeftAlone` (`ResolvedThreadsSkipped`). Without the hypothesis they are
false, by design of the code: a failed lookup hides a resolved thread, and a run
that crashes leaves fixes in open threads. `ReliableInv` says of each run: the
threads of what it picked were found; what its loop is past has its thread
resolved if that was due; nobody else settles what the run in the lock has
picked; and every open candidate is picked, still to be looked up, or beyond the
budget.

**`MergeFollowUp_proofs`.** `Typing`, `NothingHalfResolved`, `LinksAside`,
`AbortIsHarmless` (`AbortLeavesBranch`), `ResolveIsAnnounced`
(`ResolveIsPushed`) and `AttemptKeepsPromise`, the refinement of `MergeAttempt`.
`AttemptInv` follows the working tree: clean, then git's markers in every
conflicting path, then resolutions; and no branch on GitHub has the merge before
the push. `NothingHalfResolved` is `NeverHalfResolved` under `Outside = {}`, the
constant of `MCMergeFork`; `LinksAside` says what remains true with links out of
the repository among the conflicts.

**`Triage_proofs`.** `Typing`, `NothingLeftOver` (`AskedAboutHead`),
`CommitsAreVerdicts` (`CommitIsItsVerdict`), `DismissedFixes`
(`DismissedFixIsInHead`) and `LoopKeepsOutcome`, the refinement of
`TriageOutcome`. `TreeInv`: between two fixes the working tree is `HEAD` but for
ignored files, which a reset does not touch and a commit does not take; before a
commit each file git looks at is what the last entry of the verdict that changes
it says, and `HEAD`'s where there is none. That the last of the written entries exists (`MaxExists`)
is a descent on the upper bounds of a set of numbers.

**`ApplyFiles_proofs`.** `Typing`, `RefusalIsClean` (`NothingHalfApplied`),
`FilesDoNotCollapse` (`NoFileCollapses`), `WrittenFilesChange`
(`WrittenIsChanged`), `OrderDecides` (`LastChangeWins`). `ApplyInv`: nothing is
written while the first pass validates; it keeps in its list, for every file, the
last change so far that has an effect, each checked against the original; the
second pass has written a prefix of that list. For two names of one file this is
what makes the guard hold of the result and not only of each entry.

**`Ingress_proofs`.** `Typing`, `WorkIsKept` (`LostOnlyWhenOverloaded`),
`NoDoubleDispatch` (`DispatchedApart`). `Headroom`:
each task is in one place (waiting, on a thread or ended), and as long as the
threads have never run out fewer tasks are on their way than there are threads, so
a probe finds one. `DedupeInv`: each dispatched delivery that has an id is in the
table or outdated, and the delivery in the handler has its claim there and nothing
but outdated ones before it.

**`TriggerStore_proofs`.** `Typing`, `ListIsSorted` (`RunsNewestFirst`),
`ReadersSeeDecisions` (`RowsAreConsistent`), `PollsAdvance` (`PollsOnlyAdvance`),
`LatestAreKept` (`StoreKeepsLatest`). That `NewestFirst` is a sort at all is a
lemma: the number of positions that come before one is a rank below the length
of the list, different positions have different ranks, so by counting every rank
is taken. `RowsInv` relates each result to the verdicts of its run, one short
between the two steps of an update, which is exactly when the lock is held.
`StoreInv` relates the store to all insertions there ever were: each kept run has
the same ids after it in both, ids in the store are distinct, and an insertion
that is gone has its own id or `MaxSize` ids after it. The property alone does
not say which entry is the oldest.

**`Subscription_proofs`.** `Typing`, `HooksAreHandled` (`SubscribedIsHandled`),
`PushesGoToHead` (`HeadBranchOrGone`), `SetupIsIdempotent` (`IdempotentSetup`).
`SetupInv`: the set of hooks is finite; a hook of the service is as it was made;
a call in hand has no answer yet, has seen no list before it asked for it, and,
once it has seen one without our hook, meets only people's; and queued jobs, too,
name the head branch while its repository is there. `WorksOnHeadBranch`, which
`MCHeadGone` refutes, is thus true exactly up to deleted forks.

Only model-checked, because the prover has no means for them: `StartedRunsEnd`,
`AcceptedIsRun` and `HungIsEnded`, liveness under fairness. The expected
violations are TLC's counterexamples. The assumptions on constants are named in
the modules that declare the constants and evaluated by the runs.

## Not modelled, and why

- HTTP, prompts, JSON, formatting and logging: outcomes only.
- Several pull requests: all runs share one lock, so a run of another pull
  request is a run that ends.
- Deliveries whose author is the bot's own account: `BOT_LOGINS` names other
  accounts, so a payload holds no reply of the bot.
- The files themselves in `PrProcessing`; `Triage` and `ApplyFiles` have them.
- Pages: the comments of a review beyond the first page, threads beyond the
  fifth. A thread that is not found is the `lookup_miss` of `PrProcessing`. Hooks
  are listed at once: GitHub allows fewer than a page of them.
- Hosts written with capitals in the configuration; see the hazards.
- `get_file`, which nothing calls; `signing.py` and `config.py`, which set up a
  clone and constants and keep no state.
- People who rewrite the head branch in `PrProcessing`, where they only add to it:
  a commit of the bot that they drop after its push is theirs to answer for.
  `MergeFollowUp` has them.
- Git's own conversions of line ends (`.gitattributes`, `core.autocrlf`): a commit
  takes the bytes of the working tree.
- In `Ingress`, `/process` tasks: they wait in the same pool and count for
  `LostOnlyWhenOverloaded` as deliveries do.
- Clocks going backwards, a full volume.

## Plan

1. Done: `PrProcessing` with `ReviewBot`, `Triage`, `MergeFollowUp`,
   `ApplyFiles`, `Ingress`, `TriggerStore`, `JobExtraction`, `Subscription`.
2. Done: theorems for the safety properties and refinements of all of them.
3. Left: `SettledOnce` and `OkMeansSettled` under single faults instead of none
   (which of the four each really needs), and a sharper `LinksAside`.
