---------------------------- MODULE Subscription ----------------------------
(***************************************************************************)
(* How pull requests get to the bot: /setup-webhook, the hooks it finds or *)
(* creates on GitHub, the reviews GitHub sends through them, and the       *)
(* branches that the runs they start push to.                              *)
(*                                                                         *)
(* One event loop serves /setup-webhook, and the call blocks it: there is  *)
(* one call at a time.  Hooks are changed by people too, the answers of    *)
(* GitHub get lost, the process restarts in a call, and its secret is      *)
(* rotated.                                                                *)
(***************************************************************************)
EXTENDS JobExtraction, FiniteSets

CONSTANTS
  Scopes,          \* what /setup-webhook is called for: repositories, organisations
  Covers,          \* the repositories of each scope
  MaxHooks,        \* bound: hooks on GitHub
  MaxSecrets       \* bound: the secrets the deployment goes through

ASSUME ScopesAssumption ==
  /\ Covers \in [Scopes -> SUBSET Repos]
  /\ MaxHooks \in Nat
  /\ MaxSecrets \in Nat \ {0}

VARIABLES
  secret,  \* settings.github_webhook_secret
  hooks,   \* the hooks on GitHub
  call,    \* the /setup-webhook call in hand
  answer,  \* the status of the last one
  forks,   \* the head repositories that exist
  jobs,    \* jobs of runs that have not pushed yet
  pushed   \* the branches runs have pushed to

intake == <<forks, jobs, pushed>>
vars == <<secret, hooks, call, answer, intake>>

SetupEvents == {"pull_request_review", "pull_request_review_comment"}
EventSets == {SetupEvents, {"pull_request_review"}, SetupEvents \cup {"pull_request", "issues"}}

\* by: the service made it and nobody has touched it, or people's doing.
\* key: the secret GitHub signs with; people's may be one that is not in use.
Hooks == [scope : Scopes, url : {"ours", "other"}, events : EventSets,
          key : 1..MaxSecrets, active : BOOLEAN, by : {"service", "people"}]
AllJobs == [instance : Instances, base_repo : Repos, head_repo : {HeadRepo[p] : p \in Pulls} \cup Repos,
            head_branch : {HeadRef[p] : p \in Pulls}, pull : Pulls]

TypeOK ==
  /\ secret \in 1..MaxSecrets
  /\ hooks \subseteq Hooks
  /\ Cardinality(hooks) <= MaxHooks
  /\ call \in [step : {"none", "list", "create"}, scope : Scopes, listed : BOOLEAN]
  /\ answer \in {"none", "201", "200", "400", "401", "403", "404", "422", "500", "502"}
  /\ forks \subseteq {HeadRepo[p] : p \in Pulls}
  /\ jobs \subseteq AllJobs
  /\ pushed \subseteq AllJobs

Init ==
  /\ secret = 1
  /\ hooks = {}
  /\ call \in [step : {"none"}, scope : Scopes, listed : {FALSE}]
  /\ answer = "none"
  /\ forks = {HeadRepo[p] : p \in Pulls}
  /\ jobs = {}
  /\ pushed = {}

-----------------------------------------------------------------------------
(* /setup-webhook *)

SetupHook(scope) ==
  [scope |-> scope, url |-> "ours", events |-> SetupEvents, key |-> secret,
   active |-> TRUE, by |-> "service"]

OurHooks(scope) == {h \in hooks : h.scope = scope /\ h.url = "ours"}

\* _find_existing_hook, when GitHub lists the hooks.
NoHook(scope) == {} \* mutant: nothing is compared with the URL
ExistingHooks(scope) == OurHooks(scope)

Same(h, g) == h.scope = g.scope /\ h.url = g.url /\ h.events = g.events

Answer(status) ==
  /\ answer' = status
  /\ call' = [call EXCEPT !.step = "none"]

\* A bad token, no PUBLIC_WEBHOOK_URL, a malformed body, target or host.
Refuse ==
  /\ call.step = "none"
  /\ answer' \in {"403", "500", "400"}
  /\ UNCHANGED <<secret, hooks, call, intake>>

Call(scope) ==
  /\ call.step = "none"
  /\ call' = [step |-> "list", scope |-> scope, listed |-> FALSE]
  /\ answer' = "none"
  /\ UNCHANGED <<secret, hooks, intake>>

AlreadyExists ==
  /\ call.step = "list"
  /\ ExistingHooks(call.scope) # {}
  /\ Answer("200")
  /\ UNCHANGED <<secret, hooks, intake>>

NoneExists ==
  /\ call.step = "list"
  /\ ExistingHooks(call.scope) = {}
  /\ call' = [call EXCEPT !.step = "create", !.listed = TRUE]
  /\ UNCHANGED <<secret, hooks, answer, intake>>

\* GitHubError: "let the create call decide".
ListRefused ==
  /\ call.step = "list"
  /\ call' = [call EXCEPT !.step = "create"]
  /\ UNCHANGED <<secret, hooks, answer, intake>>

\* GitHub takes a second hook for a URL unless it is the same as the first.
Created ==
  /\ call.step = "create"
  /\ \A h \in hooks : ~Same(h, SetupHook(call.scope))
  /\ Cardinality(hooks) < MaxHooks
  /\ hooks' = hooks \cup {SetupHook(call.scope)}
  /\ Answer("201")
  /\ UNCHANGED <<secret, intake>>

\* GitHub's status is passed on if the caller can act on it.
CreateRefusedAsIs == \* mutant: whatever GitHub's status is
  /\ call.step = "create"
  /\ \E status \in {"401", "403", "404", "429"} : Answer(status)
  /\ UNCHANGED <<secret, hooks, intake>>

CreateRefused ==
  /\ call.step = "create"
  /\ \/ OurHooks(call.scope) # {} /\ Answer("422")
     \/ \E status \in {"401", "403", "404", "502"} : Answer(status)
  /\ UNCHANGED <<secret, hooks, intake>>

\* The answer is lost, or is no JSON: the hook may have been created.  What is
\* not a GitHubError is not caught, and answered by the framework.
CallFailed ==
  /\ call.step \in {"list", "create"}
  /\ \/ UNCHANGED hooks
     \/ /\ call.step = "create"
        /\ \A h \in hooks : ~Same(h, SetupHook(call.scope))
        /\ Cardinality(hooks) < MaxHooks
        /\ hooks' = hooks \cup {SetupHook(call.scope)}
  /\ \/ Answer("500")
     \/ call.step = "create" /\ Answer("502")
  /\ UNCHANGED <<secret, intake>>

-----------------------------------------------------------------------------
(* The process and people *)

\* A restart ends the call and drops the queued runs; a new secret comes with one.
Restart ==
  /\ secret' \in {secret, secret + 1} \cap (1..MaxSecrets)
  /\ call' = [call EXCEPT !.step = "none"]
  /\ answer' = "none"
  /\ jobs' = {}
  /\ UNCHANGED <<hooks, forks, pushed>>

AddHook ==
  /\ Cardinality(hooks) < MaxHooks
  /\ \E h \in Hooks :
       /\ h.by = "people"
       /\ \A g \in hooks : ~Same(g, h)
       /\ hooks' = hooks \cup {h}
  /\ UNCHANGED <<secret, call, answer, intake>>

\* One setting of hook h is changed.
Edits(h) ==
  {[h EXCEPT !.by = "people", !.url = url] : url \in {"ours", "other"}}
    \cup {[h EXCEPT !.by = "people", !.events = events] : events \in EventSets}
    \cup {[h EXCEPT !.by = "people", !.key = key] : key \in 1..MaxSecrets}
    \cup {[h EXCEPT !.by = "people", !.active = active] : active \in BOOLEAN}

EditHook ==
  /\ \E h \in hooks : \E g \in Edits(h) :
       /\ \A other \in hooks \ {h} : ~Same(other, g)
       /\ hooks' = (hooks \ {h}) \cup {g}
  /\ UNCHANGED <<secret, call, answer, intake>>

DeleteHook ==
  /\ \E h \in hooks : hooks' = hooks \ {h}
  /\ UNCHANGED <<secret, call, answer, intake>>

DeleteFork ==
  /\ \E p \in Pulls :
       /\ HeadRepo[p] \in forks
       /\ HeadRepo[p] # BaseRepo[p]
       /\ forks' = forks \ {HeadRepo[p]}
  /\ UNCHANGED <<secret, hooks, call, answer, jobs, pushed>>

-----------------------------------------------------------------------------
(* Reviews, runs and what they push *)

\* The hooks GitHub delivers an event of a repository through: one of the
\* repository and one of its organisation each get it.
Subscribed(repo, event) ==
  {h \in hooks : h.url = "ours" /\ h.active /\ repo \in Covers[h.scope] /\ event[1] \in h.events}

\* However late a delivery comes, its payload is of the moment it was made.
Deliver(p, event, author) ==
  LET payload == Payload(p, event, author, forks) IN
  /\ \E h \in Subscribed(BaseRepo[p], event) : jobs' = jobs \cup Handle(payload, h.key, secret)
  /\ UNCHANGED <<secret, hooks, call, answer, forks, pushed>>

Process(p) ==
  /\ jobs' = jobs \cup ManualJobs(Payload(p, <<"", "">>, "", forks))
  /\ UNCHANGED <<secret, hooks, call, answer, forks, pushed>>

\* A branch with the name of the head branch is in the fork, while that exists,
\* and there may be one in the base repository: every repository has a "main".
\* _clone, and _push to where it was cloned from.
Work(job) ==
  /\ job \in jobs
  /\ job.head_repo \in forks \cup Repos
  /\ pushed' = pushed \cup {job}
  /\ jobs' = jobs \ {job}
  /\ UNCHANGED <<secret, hooks, call, answer, forks>>

\* Nothing to fix, or the clone fails.
WorkNothing(job) ==
  /\ job \in jobs
  /\ jobs' = jobs \ {job}
  /\ UNCHANGED <<secret, hooks, call, answer, forks, pushed>>

Next ==
  \/ Refuse \/ (\E scope \in Scopes : Call(scope))
  \/ AlreadyExists \/ NoneExists \/ ListRefused
  \/ Created \/ CreateRefused \/ CallFailed
  \/ Restart \/ AddHook \/ EditHook \/ DeleteHook \/ DeleteFork
  \/ \E p \in Pulls, event \in ReviewEvents \cup OtherEvents, author \in Authors :
       Deliver(p, event, author)
  \/ (\E p \in Pulls : Process(p))
  \/ \E job \in jobs : Work(job) \/ WorkNothing(job)

Spec == Init /\ [][Next]_vars

-----------------------------------------------------------------------------
(* Properties *)

\* "If a hook already targets our PUBLIC_WEBHOOK_URL, return that one instead
\* of failing with 422": a caller whose PAT may list the hooks is never refused
\* because of the service's own hook, also after an answer that was lost and a
\* restart in a call; only people who add or change one meanwhile can cause it.
IdempotentSetup ==
  [][answer' = "422" /\ call.step = "create" /\ call.listed =>
       \E h \in OurHooks(call.scope) : h.by = "people"]_vars

\* What /setup-webhook subscribes to is what the handler takes: as long as
\* nobody touches the hook or rotates the secret, each event of a bot's review
\* in an allowed repository comes through it and becomes a job of that pull
\* request, on the instance it came from.
SubscribedIsHandled ==
  \A h \in hooks : h.by = "service" /\ h.key = secret =>
    \A p \in Pulls, event \in ReviewEvents, author \in BotLogins :
      LET repo == BaseRepo[p] IN
      repo \in Covers[h.scope] /\ Allowed(repo) /\ HostOf[repo] \in Instances =>
        /\ h \in Subscribed(repo, event)
        /\ \E job \in Handle(Payload(p, event, author, forks), h.key, secret) :
             job.pull = p /\ job.base_repo = repo /\ job.instance = HostOf[repo]

\* What is pushed for a pull request goes to its head branch and to no other
\* branch of any repository, as long as that is there: however long a job has
\* been queued, and whatever became of other forks.
HeadBranchOrGone ==
  \A job \in pushed : HeadRepo[job.pull] \in forks =>
    job.head_repo = HeadRepo[job.pull] /\ job.head_branch = HeadRef[job.pull]

-----------------------------------------------------------------------------
(* What the documentation says and the code does not do *)

\* README: "Clones the PR branch", "Forks are handled only if the PAT can push
\* to the head repo": what the bot pushes for a pull request goes to its head
\* branch and to no other branch of any repository.
WorksOnHeadBranch ==
  \A job \in pushed : job.head_repo = HeadRepo[job.pull] /\ job.head_branch = HeadRef[job.pull]

=============================================================================
