---------------------------- MODULE JobExtraction ----------------------------
(***************************************************************************)
(* From a delivery to the jobs of a run: the signature check, the choice   *)
(* of a GitHub instance, and extract_jobs; and what process_pr_manual      *)
(* makes of the pull request that /process names.  GitHub's payloads are   *)
(* records of what these functions look at.                                *)
(***************************************************************************)
EXTENDS Naturals

CONSTANTS
  Repos,                \* the repositories with pull requests
  HostOf,               \* the host each of them is on
  Instances,            \* the hosts the deployment is configured for
  AllowedRepositories,  \* settings.allowed_repositories
  Pulls,                \* pull requests
  BaseRepo,             \* the repository of each
  HeadRepo,             \* the repository of its head branch: the same, or a fork
  HeadRef,              \* the name of its head branch
  Authors,              \* who writes reviews
  BotLogins             \* settings.bot_logins

NoRepo == "null"
NoPull == "no pull request"

ASSUME ReposAssumption ==
  /\ HostOf \in [Repos -> STRING]
  /\ AllowedRepositories \subseteq Repos
  /\ NoRepo \notin Repos
  /\ BotLogins \subseteq Authors

ASSUME PullsAssumption ==
  /\ NoPull \notin Pulls
  /\ BaseRepo \in [Pulls -> Repos]
  /\ DOMAIN HeadRepo = Pulls
  /\ \A p \in Pulls : HeadRepo[p] # NoRepo
  /\ DOMAIN HeadRef = Pulls

\* What GitHub sends about a pull request, and one event that is not about one.
ReviewEvents ==
  {<<"pull_request_review", "submitted">>, <<"pull_request_review_comment", "created">>}
OtherEvents ==
  {<<"pull_request_review", "edited">>, <<"pull_request_review_comment", "deleted">>,
   <<"pull_request", "synchronize">>, <<"issues", "opened">>}

\* A payload about pull request p, while the repositories in existing exist: the
\* head repository is null when it was deleted.
Payload(p, event, author, existing) ==
  [host |-> HostOf[BaseRepo[p]],
   repository |-> BaseRepo[p],
   pull |-> IF event[1] = "issues" THEN NoPull ELSE p,
   event |-> event,
   author |-> author,
   head_repo |-> IF HeadRepo[p] \in existing THEN HeadRepo[p] ELSE NoRepo,
   head_ref |-> HeadRef[p]]

-----------------------------------------------------------------------------

\* verify_signature
Signed(key, secret) == key = secret

\* find_instance_for_payload: the instance whose URLs the payload's start with.
\* Its hosts are taken as configured, not folded to lower case.
InstanceFor(payload) == {host \in Instances : host = payload.host}

Allowed(repo) == AllowedRepositories = {} \/ repo \in AllowedRepositories

JobAtBase(payload) == \* mutant: the head repository is not looked at
  [instance |-> payload.host,
   base_repo |-> payload.repository,
   head_repo |-> payload.repository,
   head_branch |-> payload.head_ref,
   pull |-> payload.pull]

Job(payload) ==
  [instance |-> payload.host,
   base_repo |-> payload.repository,
   head_repo |-> IF payload.head_repo = NoRepo THEN payload.repository ELSE payload.head_repo,
   head_branch |-> payload.head_ref,
   pull |-> payload.pull]

\* extract_jobs: one job or none.
ExtractReviewJobs(payload) == \* mutant: comment events are not handled
  {Job(payload) : host \in {h \in InstanceFor(payload) :
     /\ Allowed(payload.repository)
     /\ payload.pull # NoPull
     /\ payload.event = <<"pull_request_review", "submitted">>
     /\ payload.author \in BotLogins}}

ExtractJobs(payload) ==
  {Job(payload) : host \in {h \in InstanceFor(payload) :
     /\ Allowed(payload.repository)
     /\ payload.pull # NoPull
     /\ payload.event \in ReviewEvents
     /\ payload.author \in BotLogins}}

\* /process and process_pr_manual: the pull request as GitHub answers it.  Its
\* author does not matter, and the caller has named the host.
ManualJobs(payload) ==
  {Job(payload) : host \in {h \in InstanceFor(payload) : Allowed(payload.repository)}}

\* The webhook handler, up to the queued task.
Handle(payload, key, secret) == IF Signed(key, secret) THEN ExtractJobs(payload) ELSE {}

=============================================================================
