------------------------ MODULE Subscription_proofs ------------------------
(***************************************************************************)
(* What is proved about Subscription for any repositories, pull requests,  *)
(* scopes and hosts, any number of hooks and any number of secrets.        *)
(***************************************************************************)
EXTENDS Subscription, FiniteSetTheorems, TLAPS

-----------------------------------------------------------------------------
(* The inductive invariant *)

\* Whatever people have not touched is as /setup-webhook made it, for whichever
\* secret there was then.
MadeHooks == \A h \in hooks : h.by = "service" =>
  h.url = "ours" /\ h.events = SetupEvents /\ h.active = TRUE

\* The call in hand has no answer yet, and if it has seen the list and found no
\* hook, those that are there now are people's.
CallInHand ==
  /\ call.step # "none" => answer = "none"
  /\ call.step = "list" => ~ call.listed
  /\ call.step = "create" /\ call.listed => \A h \in OurHooks(call.scope) : h.by = "people"

\* The jobs of the queue and those that were worked on name the head branch,
\* unless its repository is gone.
AtHead(job) ==
  HeadRepo[job.pull] \in forks =>
    job.head_repo = HeadRepo[job.pull] /\ job.head_branch = HeadRef[job.pull]

JobsAtHead == \A job \in jobs \cup pushed : AtHead(job)

HooksInv == IsFiniteSet(hooks) /\ MadeHooks /\ CallInHand

SetupInv == TypeOK /\ HooksInv /\ JobsAtHead

-----------------------------------------------------------------------------
(* Jobs *)

\* extract_jobs and process_pr_manual, on a payload of pull request p.
LEMMA JobFacts ==
  ASSUME NEW p \in Pulls, NEW event, NEW author, NEW existing,
         NEW job, \/ job \in ExtractJobs(Payload(p, event, author, existing))
                  \/ job \in ManualJobs(Payload(p, event, author, existing)) /\ event[1] # "issues"
  PROVE  /\ job \in AllJobs
         /\ job.pull = p
         /\ HeadRepo[p] \in existing => job.head_repo = HeadRepo[p] /\ job.head_branch = HeadRef[p]
<1> DEFINE payload == Payload(p, event, author, existing)
<1>1. /\ payload.host = HostOf[BaseRepo[p]] /\ payload.repository = BaseRepo[p]
      /\ payload.pull = IF event[1] = "issues" THEN NoPull ELSE p
      /\ payload.head_repo = IF HeadRepo[p] \in existing THEN HeadRepo[p] ELSE NoRepo
      /\ payload.head_ref = HeadRef[p]
  BY DEF Payload
<1>2. job = Job(payload) /\ payload.host \in Instances /\ payload.pull = p
  BY <1>1 DEF ExtractJobs, ManualJobs, InstanceFor
<1> HIDE DEF payload
<1>3. /\ job.instance = payload.host /\ job.base_repo = payload.repository /\ job.pull = payload.pull
      /\ job.head_branch = payload.head_ref
      /\ job.head_repo = IF payload.head_repo = NoRepo THEN payload.repository ELSE payload.head_repo
  BY <1>2 DEF Job
<1>4. BaseRepo[p] \in Repos /\ HeadRepo[p] # NoRepo
  BY PullsAssumption
<1>5. job.head_repo \in {HeadRepo[q] : q \in Pulls} \cup Repos
  BY <1>1, <1>3, <1>4
<1>6. job \in AllJobs
  BY <1>1, <1>2, <1>3, <1>4, <1>5 DEF Job, AllJobs
<1> QED
  BY <1>1, <1>2, <1>3, <1>4, <1>6

LEMMA NewJobs ==
  ASSUME TypeOK, (\E p \in Pulls : Process(p))
                 \/ \E p \in Pulls, event \in ReviewEvents \cup OtherEvents, author \in Authors :
                      Deliver(p, event, author)
  PROVE  /\ \A job \in jobs' : job \in jobs \/ (job \in AllJobs /\ AtHead(job))
         /\ UNCHANGED <<secret, hooks, call, answer, forks, pushed>>
<1>1. CASE \E p \in Pulls : Process(p)
  <2>1. PICK p \in Pulls : Process(p)
    BY <1>1
  <2>2. \A job \in ManualJobs(Payload(p, <<"", "">>, "", forks)) :
          job \in AllJobs /\ job.pull = p
          /\ (HeadRepo[p] \in forks => job.head_repo = HeadRepo[p] /\ job.head_branch = HeadRef[p])
    <3>1. <<"", "">>[1] # "issues"
      OBVIOUS
    <3>2. ASSUME NEW event, event[1] # "issues", NEW author,
                 NEW job \in ManualJobs(Payload(p, event, author, forks))
          PROVE  job \in AllJobs /\ job.pull = p
                 /\ (HeadRepo[p] \in forks =>
                       job.head_repo = HeadRepo[p] /\ job.head_branch = HeadRef[p])
      BY <3>2, JobFacts
    <3> QED
      BY <3>1, <3>2
  <2> QED
    BY <2>1, <2>2 DEF Process, AtHead
<1>2. CASE \E p \in Pulls, event \in ReviewEvents \cup OtherEvents, author \in Authors :
             Deliver(p, event, author)
  <2>1. PICK p \in Pulls, event \in ReviewEvents \cup OtherEvents, author \in Authors :
          Deliver(p, event, author)
    BY <1>2
  <2>2. \A job \in ExtractJobs(Payload(p, event, author, forks)) :
          job \in AllJobs /\ job.pull = p
          /\ (HeadRepo[p] \in forks => job.head_repo = HeadRepo[p] /\ job.head_branch = HeadRef[p])
    BY JobFacts
  <2>3. jobs' \subseteq jobs \cup ExtractJobs(Payload(p, event, author, forks))
    BY <2>1 DEF Deliver, Handle
  <2> QED
    BY <2>1, <2>2, <2>3 DEF Deliver, AtHead
<1> QED
  BY <1>1, <1>2

-----------------------------------------------------------------------------
(* The hooks *)

LEMMA SetupHookFacts ==
  ASSUME TypeOK, NEW scope \in Scopes
  PROVE  SetupHook(scope) \in Hooks /\ SetupHook(scope).by = "service"
         /\ SetupHook(scope).url = "ours" /\ SetupHook(scope).events = SetupEvents
         /\ SetupHook(scope).active = TRUE
BY DEF TypeOK, SetupHook, Hooks, EventSets

LEMMA OneMoreHook ==
  ASSUME TypeOK, IsFiniteSet(hooks), NEW h, Cardinality(hooks) < MaxHooks
  PROVE  IsFiniteSet(hooks \cup {h}) /\ Cardinality(hooks \cup {h}) <= MaxHooks
<1>1. Cardinality(hooks) \in Nat
  BY FS_CardinalityType
<1>2. /\ IsFiniteSet(hooks \cup {h})
      /\ Cardinality(hooks \cup {h}) = IF h \in hooks THEN Cardinality(hooks) ELSE Cardinality(hooks) + 1
  BY FS_AddElement
<1> QED
  BY <1>1, <1>2, ScopesAssumption

\* An answer ends the call.
LEMMA Answered ==
  ASSUME TypeOK, NEW status, Answer(status),
         status \in {"201", "200", "401", "403", "404", "422", "500", "502"}
  PROVE  /\ call' \in [step : {"none"}, scope : Scopes, listed : BOOLEAN]
         /\ answer' \in {"none", "201", "200", "400", "401", "403", "404", "422", "500", "502"}
BY DEF TypeOK, Answer

\* What one step of anybody does to the hooks and the call.
LEMMA HooksStep ==
  ASSUME TypeOK, HooksInv, Next
  PROVE  /\ hooks' \subseteq Hooks /\ Cardinality(hooks') <= MaxHooks
         /\ secret' \in 1..MaxSecrets
         /\ call' \in [step : {"none", "list", "create"}, scope : Scopes, listed : BOOLEAN]
         /\ answer' \in {"none", "201", "200", "400", "401", "403", "404", "422", "500", "502"}
         /\ HooksInv'
<1> DEFINE Typed ==
      /\ secret' \in 1..MaxSecrets
      /\ call' \in [step : {"none", "list", "create"}, scope : Scopes, listed : BOOLEAN]
      /\ answer' \in {"none", "201", "200", "400", "401", "403", "404", "422", "500", "502"}
    Sized == hooks' \subseteq Hooks /\ Cardinality(hooks') <= MaxHooks /\ IsFiniteSet(hooks')
<1>1. /\ hooks \subseteq Hooks /\ Cardinality(hooks) <= MaxHooks /\ IsFiniteSet(hooks)
      /\ secret \in 1..MaxSecrets
      /\ call \in [step : {"none", "list", "create"}, scope : Scopes, listed : BOOLEAN]
      /\ answer \in {"none", "201", "200", "400", "401", "403", "404", "422", "500", "502"}
  BY DEF TypeOK, HooksInv
<1>2. CASE UNCHANGED <<secret, hooks, call, answer>>
  BY <1>1, <1>2 DEF HooksInv, MadeHooks, CallInHand, OurHooks
<1>3. CASE Refuse \/ (\E scope \in Scopes : Call(scope)) \/ AlreadyExists \/ NoneExists \/ ListRefused
  <2>1. UNCHANGED <<secret, hooks>>
    BY <1>3 DEF Refuse, Call, AlreadyExists, NoneExists, ListRefused
  <2>2. Typed /\ CallInHand'
    <3>1. CASE Refuse
      BY <1>1, <3>1 DEF Refuse, CallInHand, OurHooks
    <3>2. CASE \E scope \in Scopes : Call(scope)
      BY <1>1, <3>2 DEF Call, CallInHand
    <3>3. CASE AlreadyExists
      BY <1>1, <3>3 DEF AlreadyExists, Answer, CallInHand
    <3>4. CASE NoneExists
      <4>1. /\ call' = [call EXCEPT !.step = "create", !.listed = TRUE]
            /\ ExistingHooks(call.scope) = {} /\ call.step = "list" /\ answer' = answer
        BY <3>4 DEF NoneExists
      <4>2. OurHooks(call.scope)' = {}
        <5>1. call'.scope = call.scope
          BY <1>1, <4>1
        <5> QED
          BY <2>1, <4>1, <5>1 DEF OurHooks, ExistingHooks
      <4>3. answer' = "none"
        BY <4>1 DEF HooksInv, CallInHand
      <4> QED
        BY <1>1, <2>1, <4>1, <4>2, <4>3 DEF CallInHand
    <3>5. CASE ListRefused
      <4>1. call' = [call EXCEPT !.step = "create"] /\ call.step = "list" /\ answer' = answer
        BY <3>5 DEF ListRefused
      <4>2. answer' = "none" /\ ~ call.listed
        BY <4>1 DEF HooksInv, CallInHand
      <4>3. call'.step = "create" /\ ~ call'.listed
        BY <1>1, <4>1, <4>2
      <4> QED
        BY <1>1, <2>1, <4>1, <4>2, <4>3 DEF CallInHand
    <3> QED
      BY <1>3, <3>1, <3>2, <3>3, <3>4, <3>5
  <2> QED
    BY <1>1, <2>1, <2>2 DEF HooksInv, MadeHooks
<1>4. CASE Created \/ CreateRefused \/ CallFailed
  <2>1. UNCHANGED secret
    BY <1>4 DEF Created, CreateRefused, CallFailed
  <2>2. PICK status \in {"201", "401", "403", "404", "422", "500", "502"} : Answer(status)
    BY <1>4 DEF Created, CreateRefused, CallFailed
  <2>3. /\ call' \in [step : {"none"}, scope : Scopes, listed : BOOLEAN]
        /\ answer' \in {"none", "201", "200", "400", "401", "403", "404", "422", "500", "502"}
    BY <2>2, Answered
  <2>4. Typed /\ CallInHand'
    BY <1>1, <2>1, <2>3 DEF CallInHand
  <2>5. \/ hooks' = hooks
        \/ Cardinality(hooks) < MaxHooks /\ hooks' = hooks \cup {SetupHook(call.scope)}
    BY <1>4 DEF Created, CreateRefused, CallFailed
  <2>6. call.scope \in Scopes
    BY <1>1
  <2>7. Sized /\ MadeHooks'
    BY <1>1, <2>5, <2>6, OneMoreHook, SetupHookFacts DEF HooksInv, MadeHooks
  <2> QED
    BY <2>4, <2>7 DEF HooksInv
<1>5. CASE Restart
  BY <1>1, <1>5 DEF Restart, HooksInv, MadeHooks, CallInHand
<1>6. CASE AddHook \/ EditHook \/ DeleteHook
  <2>1. UNCHANGED <<secret, call, answer>>
    BY <1>6 DEF AddHook, EditHook, DeleteHook
  <2>2. Sized /\ \A h \in hooks' : h \in hooks \/ h.by = "people"
    <3>1. CASE AddHook
      <4>1. PICK h \in Hooks : h.by = "people" /\ hooks' = hooks \cup {h} /\ Cardinality(hooks) < MaxHooks
        BY <3>1 DEF AddHook
      <4>2. IsFiniteSet(hooks \cup {h}) /\ Cardinality(hooks \cup {h}) <= MaxHooks
        BY <1>1, <4>1, OneMoreHook
      <4> QED
        BY <1>1, <4>1, <4>2
    <3>2. CASE EditHook
      <4>1. PICK h \in hooks : \E g \in Edits(h) : hooks' = (hooks \ {h}) \cup {g}
        BY <3>2 DEF EditHook
      <4> PICK g \in Edits(h) : hooks' = (hooks \ {h}) \cup {g}
        BY <4>1
      <4>2. h \in Hooks
        BY <1>1
      <4>3. g \in Hooks /\ g.by = "people"
        BY <4>2 DEF Edits, Hooks
      <4>4. /\ IsFiniteSet(hooks \ {h})
            /\ Cardinality(hooks \ {h}) = Cardinality(hooks) - 1
            /\ Cardinality(hooks \ {h}) \in Nat /\ Cardinality(hooks) \in Nat
        BY <1>1, FS_RemoveElement, FS_CardinalityType
      <4>5. /\ IsFiniteSet((hooks \ {h}) \cup {g})
            /\ Cardinality((hooks \ {h}) \cup {g}) =
                 IF g \in hooks \ {h} THEN Cardinality(hooks \ {h}) ELSE Cardinality(hooks \ {h}) + 1
        BY <4>4, FS_AddElement
      <4>6. Cardinality((hooks \ {h}) \cup {g}) <= MaxHooks
        BY <1>1, <4>4, <4>5, ScopesAssumption
      <4> QED
        BY <1>1, <4>1, <4>3, <4>5, <4>6
    <3>3. CASE DeleteHook
      <4>1. PICK h \in hooks : hooks' = hooks \ {h}
        BY <3>3 DEF DeleteHook
      <4>2. /\ IsFiniteSet(hooks \ {h}) /\ Cardinality(hooks \ {h}) = Cardinality(hooks) - 1
            /\ Cardinality(hooks) \in Nat
        BY <1>1, FS_RemoveElement, FS_CardinalityType
      <4> QED
        BY <1>1, <4>1, <4>2, ScopesAssumption
    <3> QED
      BY <1>6, <3>1, <3>2, <3>3
  <2>3. MadeHooks'
    BY <2>2 DEF HooksInv, MadeHooks
  <2>4. CallInHand'
    BY <2>1, <2>2 DEF HooksInv, CallInHand, OurHooks
  <2> QED
    BY <1>1, <2>1, <2>2, <2>3, <2>4 DEF HooksInv
<1>7. CASE DeleteFork \/ (\E p \in Pulls : Process(p)) \/ (\E job \in jobs : Work(job) \/ WorkNothing(job))
           \/ \E p \in Pulls, event \in ReviewEvents \cup OtherEvents, author \in Authors :
                Deliver(p, event, author)
  <2>1. UNCHANGED <<secret, hooks, call, answer>>
    BY <1>7 DEF DeleteFork, Process, Work, WorkNothing, Deliver
  <2> QED
    BY <1>2, <2>1
<1> QED
  BY <1>3, <1>4, <1>5, <1>6, <1>7 DEF Next

\* What one step does to the jobs.
LEMMA JobsStep ==
  ASSUME TypeOK, JobsAtHead, Next
  PROVE  /\ forks' \subseteq forks
         /\ jobs' \subseteq AllJobs /\ pushed' \subseteq AllJobs
         /\ JobsAtHead'
<1>1. jobs \subseteq AllJobs /\ pushed \subseteq AllJobs
  BY DEF TypeOK
<1>2. \/ UNCHANGED intake
      \/ jobs' = {} /\ UNCHANGED <<forks, pushed>>
      \/ forks' \subseteq forks /\ UNCHANGED <<jobs, pushed>>
      \/ \E job \in jobs : forks' = forks /\ jobs' \subseteq jobs /\ pushed' \subseteq pushed \cup {job}
      \/ /\ \A job \in jobs' : job \in jobs \/ (job \in AllJobs /\ AtHead(job))
         /\ UNCHANGED <<forks, pushed>>
  <2>1. CASE (\E p \in Pulls : Process(p))
             \/ \E p \in Pulls, event \in ReviewEvents \cup OtherEvents, author \in Authors :
                  Deliver(p, event, author)
    BY <2>1, NewJobs
  <2>2. CASE DeleteFork
    BY <2>2 DEF DeleteFork
  <2>3. CASE \E job \in jobs : Work(job) \/ WorkNothing(job)
    BY <2>3 DEF Work, WorkNothing
  <2>4. CASE Restart
    BY <2>4 DEF Restart
  <2>5. CASE Refuse \/ (\E scope \in Scopes : Call(scope)) \/ AlreadyExists \/ NoneExists
             \/ ListRefused \/ Created \/ CreateRefused \/ CallFailed
             \/ AddHook \/ EditHook \/ DeleteHook
    BY <2>5 DEF Refuse, Call, AlreadyExists, NoneExists, ListRefused, Created, CreateRefused,
                CallFailed, AddHook, EditHook, DeleteHook
  <2> QED
    BY <2>1, <2>2, <2>3, <2>4, <2>5 DEF Next
<1>3. forks' \subseteq forks
  BY <1>2 DEF intake
<1>4. \A job \in jobs' \cup pushed' : job \in AllJobs /\ AtHead(job)
  BY <1>1, <1>2 DEF intake, JobsAtHead
<1>5. \A job \in jobs' \cup pushed' : AtHead(job) => AtHead(job)'
  BY <1>3 DEF AtHead
<1> QED
  BY <1>3, <1>4, <1>5 DEF JobsAtHead

-----------------------------------------------------------------------------
(* The theorems *)

LEMMA SetupInvHolds == Spec => []SetupInv
<1>1. Init => SetupInv
  <2> SUFFICES ASSUME Init PROVE SetupInv
    OBVIOUS
  <2>1. IsFiniteSet({}) /\ Cardinality({}) = 0
    BY FS_EmptySet
  <2>2. call.step = "none" /\ call \in [step : {"none", "list", "create"}, scope : Scopes, listed : BOOLEAN]
    BY DEF Init
  <2>3. TypeOK
    BY <2>1, <2>2, ScopesAssumption DEF Init, TypeOK
  <2>4. HooksInv /\ JobsAtHead
    BY <2>1, <2>2 DEF Init, HooksInv, MadeHooks, CallInHand, JobsAtHead
  <2> QED
    BY <2>3, <2>4 DEF SetupInv
<1>2. SetupInv /\ [Next]_vars => SetupInv'
  <2>1. ASSUME SetupInv, Next
        PROVE  SetupInv'
    BY <2>1, HooksStep, JobsStep DEF SetupInv, TypeOK
  <2>2. ASSUME SetupInv, UNCHANGED vars
        PROVE  SetupInv'
    BY <2>2 DEF SetupInv, vars, intake, TypeOK, HooksInv, MadeHooks, CallInHand, OurHooks,
                JobsAtHead, AtHead
  <2> QED
    BY <2>1, <2>2
<1> QED
  BY <1>1, <1>2, PTL DEF Spec

\* The hooks, the call in hand and the jobs are well-formed, and the answers of
\* /setup-webhook are those its callers are told about.
THEOREM Typing == Spec => []TypeOK
<1>1. SetupInv => TypeOK
  BY DEF SetupInv
<1> QED
  BY <1>1, SetupInvHolds, PTL

\* _clone and _push: however long a job was queued, it goes to the head branch
\* of its pull request as long as the head repository is there.
THEOREM PushesGoToHead == Spec => []HeadBranchOrGone
<1>1. SetupInv => HeadBranchOrGone
  BY DEF SetupInv, JobsAtHead, AtHead, HeadBranchOrGone
<1> QED
  BY <1>1, SetupInvHolds, PTL

\* extract_jobs takes what setup_webhook subscribes to: a hook nobody touched,
\* with the secret in use, turns each event of a bot's review into its job.
THEOREM HooksAreHandled == Spec => []SubscribedIsHandled
<1>1. ASSUME SetupInv, NEW h \in hooks, h.by = "service", h.key = secret,
             NEW p \in Pulls, NEW event \in ReviewEvents, NEW author \in BotLogins,
             BaseRepo[p] \in Covers[h.scope], Allowed(BaseRepo[p]), HostOf[BaseRepo[p]] \in Instances
      PROVE  /\ h \in Subscribed(BaseRepo[p], event)
             /\ \E job \in Handle(Payload(p, event, author, forks), h.key, secret) :
                  job.pull = p /\ job.base_repo = BaseRepo[p] /\ job.instance = HostOf[BaseRepo[p]]
  <2> DEFINE payload == Payload(p, event, author, forks)
  <2>1. h.url = "ours" /\ h.events = SetupEvents /\ h.active
    BY <1>1 DEF SetupInv, HooksInv, MadeHooks
  <2>2. event[1] \in SetupEvents /\ event[1] # "issues"
    BY DEF ReviewEvents, SetupEvents
  <2>3. /\ payload.host = HostOf[BaseRepo[p]] /\ payload.repository = BaseRepo[p]
        /\ payload.pull = p /\ payload.event = event /\ payload.author = author
    BY <2>2 DEF Payload
  <2> HIDE DEF payload
  <2>4. Job(payload) \in ExtractJobs(payload)
    BY <1>1, <2>3, PullsAssumption DEF ExtractJobs, InstanceFor
  <2>5. Job(payload).pull = p /\ Job(payload).base_repo = BaseRepo[p]
        /\ Job(payload).instance = HostOf[BaseRepo[p]]
    BY <2>3 DEF Job
  <2> QED
    BY <1>1, <2>1, <2>2, <2>4, <2>5 DEF Subscribed, Handle, Signed, payload
<1>2. SetupInv => SubscribedIsHandled
  BY <1>1 DEF SubscribedIsHandled
<1> QED
  BY <1>2, SetupInvHolds, PTL

\* "If a hook already targets our PUBLIC_WEBHOOK_URL, return that one instead of
\* failing with 422": only people's hooks make GitHub refuse a call that could
\* list them, also after lost answers and restarts.
THEOREM SetupIsIdempotent == Spec => IdempotentSetup
<1>1. ASSUME SetupInv, [Next]_vars, answer' = "422", call.step = "create", call.listed
      PROVE  \E h \in OurHooks(call.scope) : h.by = "people"
  <2>1. answer = "none" /\ \A h \in OurHooks(call.scope) : h.by = "people"
    BY <1>1 DEF SetupInv, HooksInv, CallInHand
  <2>2. ~ UNCHANGED answer
    BY <1>1, <2>1
  <2>3. CreateRefused
    BY <1>1, <2>2 DEF Next, vars, Refuse, Call, AlreadyExists, NoneExists, ListRefused, Created,
                      CallFailed, Restart, AddHook, EditHook, DeleteHook, DeleteFork, Process,
                      Deliver, Work, WorkNothing, Answer
  <2>4. OurHooks(call.scope) # {}
    BY <1>1, <2>3 DEF CreateRefused, Answer
  <2> QED
    BY <2>1, <2>4
<1>2. SetupInv /\ [Next]_vars =>
        [answer' = "422" /\ call.step = "create" /\ call.listed =>
           \E h \in OurHooks(call.scope) : h.by = "people"]_vars
  BY <1>1
<1> QED
  BY <1>2, SetupInvHolds, PTL DEF Spec, IdempotentSetup

=============================================================================
