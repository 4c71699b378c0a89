---------------------------- MODULE ConsoleRequests ----------------------------
(* One request to the Console service, as the list of what its handler awaits:   *)
(* questions to Auth, host callbacks, the database, the operation. Authority     *)
(* comes and goes meanwhile. packages/console/src/{service,auth,locale}.ts and   *)
(* integrations/, packages/console-runtime/src/server.ts.                        *)
EXTENDS Naturals, Sequences, FiniteSets

CONSTANT Scoped   \* the deployments served: whether read scopes are installed

ASSUME ScopedAssumption == Scoped \subseteq BOOLEAN /\ Scoped # {}

\* What may be asked: is the cookie still of this subject and read scope; may he list, invoke,
\* administer, configure; is he an administrator; may the host's policy show or change this job;
\* does the host guarantee writes.
Questions == {"same", "session", "list", "invoke", "admin", "administrator", "job", "configure",
              "credential", "write"}

--------------------------------------------------------------------------------
\* Steps of a handler.
Enforce(q) == <<[do |-> "enforce", q |-> q]>>
Can(q, steps) == <<[do |-> "can", q |-> q, over |-> Len(steps)]>> \o steps
\* An await of something that is not authority: a host callback, a body, a queue, a database.
Await == <<[do |-> "await"]>>
\* A provider is called in the caller's name: a write, or a read that nothing is asked after.
Effect == <<[do |-> "effect"]>>
Query == <<[do |-> "query"]>>
Sample == <<[do |-> "sample"]>>        \* reads the generation of a process that may restart
SameSample == <<[do |-> "sameSample"]>>
Register == <<[do |-> "register"]>>    \* onReadScope: the host will finish the scope
BeginScope == <<[do |-> "begin"]>>

Asks(steps) == {steps[i].q : i \in {j \in DOMAIN steps : steps[j].do \in {"enforce", "can"}}}

\* authorizeInvocation
AuthorizeInvocation(mounted) ==
  (IF mounted THEN Enforce("admin") ELSE <<>>) \o Enforce("invoke") \o Enforce("write")

\* createConsoleLimitsBinding: onAdmit, the counter, the binding it is composed with.
LimitsBinding(binding) == Await \o <<[do |-> "limit"]>> \o binding

\* bindInvocation
BindInvocation(mounted, binding) ==
  AuthorizeInvocation(mounted) \o LimitsBinding(binding) \o AuthorizeInvocation(mounted)

\* adapter, around the invocation of Manage, which lists before it binds and again before it runs.
Invoke(mounted, binding, operation) ==
  Enforce("list") \o BindInvocation(mounted, binding) \o Enforce("list") \o operation

\* A read whose binding needs no await (prepareBinding): canDispatch asks for both at once.
CanDispatch == Enforce("list") \o Enforce("invoke")
InvokePrepared(operation) == Enforce("list") \o CanDispatch \o operation

--------------------------------------------------------------------------------
\* The operations. permitted is the host's authorizeJob.
TasksList == Enforce("invoke") \o Await \o Await \o Can("job", <<>>) \o Await \o Can("job", <<>>)
             \o Enforce("invoke")
TasksGet == Enforce("invoke") \o Await \o Enforce("job") \o Await \o Enforce("job") \o Enforce("invoke")

\* MUTANT: the replay policy is asked last.
TasksRetryPolicyLast ==
  Enforce("invoke") \o Await \o Enforce("job") \o Enforce("invoke") \o Enforce("job") \o Await \o Effect
  \o Await

TasksRetry ==
  Enforce("invoke") \o Await \o Enforce("job") \o Await \o Enforce("invoke") \o Enforce("job") \o Effect
  \o Await
TasksCancel == Enforce("invoke") \o Await \o Enforce("job") \o Enforce("invoke") \o Effect \o Await

\* bind of the API keys: map is the host's. What the keys answer then is not asked about again.
KeysRead == Enforce("invoke") \o Await \o Enforce("invoke") \o Query \o Await
KeysRevoke == Enforce("invoke") \o Enforce("write") \o Await \o Enforce("invoke") \o Enforce("write")
              \o Effect \o Await
InspectAuthorization == Enforce("invoke") \o Await \o Enforce("invoke") \o Query \o Await

\* The scheduler's own binding resolves an actor between two questions; its operation asks none.
SchedulerBinding == Enforce("invoke") \o Await \o Enforce("invoke")
Schedule == Effect \o Await

\* Runtime inspection: enforce, and read within a scope of its own.
EnforceRuntime == Enforce("invoke") \o Enforce("same") \o Enforce("session")
                  \o Enforce("administrator") \o Enforce("invoke")
Greet == EnforceRuntime \o Await \o EnforceRuntime
RuntimeRead(scoped) ==
  LET check == Enforce("invoke") \o Enforce("administrator") IN
  IF scoped THEN Enforce("same") \o BeginScope \o check \o Await \o check \o <<[do |-> "finish"]>>
  ELSE EnforceRuntime \o Await \o EnforceRuntime

--------------------------------------------------------------------------------
\* workspace.inspect. checkCurrent:
CheckCurrent == Enforce("same") \o Enforce("admin")

\* createConsoleDevOperationInspector: the supervisor may restart between its three reads.
DevInspector ==
  LET enforce == Enforce("same") \o Enforce("session") \o Enforce("administrator") \o Enforce("admin") IN
  enforce \o Sample \o Sample \o Sample \o enforce \o SameSample

Inspect ==
  CheckCurrent \o Can("list", DevInspector) \o CheckCurrent
  \o <<[do |-> "visible"]>> \o Enforce("list")

--------------------------------------------------------------------------------
\* What the catalogues collect: one target, one mount, one operation.
CollectCatalog ==
  Can("list", Can("list", Can("write", Can("list", <<>>))))
CollectPages ==
  Can("list", Can("write", Can("invoke", Can("list", <<>>))) \o Can("credential", <<>>))
SessionFacts(scoped) == (IF scoped THEN <<>> ELSE Enforce("same")) \o Await
CollectSession(scoped, then) == SessionFacts(scoped) \o Can("session", then)
CollectAdmission(scoped) == CollectSession(scoped, CollectPages \o CollectCatalog)

\* metadataRead
MetadataRead(scoped, collect) ==
  IF scoped THEN BeginScope \o collect \o Register ELSE collect

Targets == Can("list", <<>>)
Apps == Can("list", <<>>)
Plugins == Enforce("list") \o Can("list", <<>>)
Asset == Enforce("admin") \o Await

--------------------------------------------------------------------------------
\* The locale: the snapshot, and the two writes, whose caller is authenticated again after his
\* body was read.
Snapshot == Await \o Await \o Can("configure", <<>>)

WritePreference == Await \o Enforce("same") \o Effect \o Await \o Snapshot
WriteDefault == Await \o Enforce("same") \o Enforce("configure") \o Effect \o Await \o Snapshot

\* The credential routes of the API keys: the body, and the host's map.
Credential == Enforce("invoke") \o Await \o Await \o Enforce("invoke") \o Effect \o Await

--------------------------------------------------------------------------------
Reads == {"tasks.list", "tasks.get", "keys.read", "inspection", "greet", "status"}
Writes == {"tasks.retry", "tasks.cancel", "keys.revoke", "schedule"}
Metadata == {"catalog", "pages", "session", "admission"}
Routes == {"targets", "plugins", "apps", "asset", "locale", "preference", "default", "credential", "inspect"}
Kinds == Reads \cup Writes \cup Metadata \cup Routes \cup {"prepared"}

OperationOf(kind, scoped) ==
  CASE kind = "tasks.list" -> TasksList
    [] kind = "tasks.get" -> TasksGet
    [] kind = "tasks.retry" -> TasksRetry
    [] kind = "tasks.cancel" -> TasksCancel
    [] kind = "keys.read" -> KeysRead
    [] kind = "keys.revoke" -> KeysRevoke
    [] kind = "schedule" -> Schedule
    [] kind = "inspection" -> InspectAuthorization
    [] kind = "greet" -> Greet
    [] kind = "status" -> RuntimeRead(scoped)

Collected(kind, scoped) ==
  CASE kind = "catalog" -> CollectCatalog
    [] kind = "pages" -> CollectPages
    [] kind = "session" -> CollectSession(scoped, <<>>)
    [] kind = "admission" -> CollectAdmission(scoped)

\* The binding of an invocation: the scheduler's, or an await of the host's.
BindingOf(kind) == IF kind = "schedule" THEN SchedulerBinding ELSE Await

\* workspace.invoke: the operations that a page asks for, through its mount.
Mounted(kind) == kind \in {"tasks.retry", "tasks.get"}

\* fetch, after the request was admitted and its caller authenticated.
Script(kind, scoped) ==
  CASE kind \in Reads \cup Writes ->
         Invoke(Mounted(kind), BindingOf(kind), OperationOf(kind, scoped))
    [] kind = "prepared" ->
         (IF scoped THEN BeginScope \o Register ELSE <<>>) \o InvokePrepared(Query \o Await)
    [] kind \in Metadata -> MetadataRead(scoped, Collected(kind, scoped))
    [] kind = "targets" -> Targets
    [] kind = "apps" -> Apps
    [] kind = "plugins" -> Plugins
    [] kind = "asset" -> Asset
    [] kind = "locale" -> Snapshot
    [] kind = "preference" -> WritePreference
    [] kind = "default" -> WriteDefault
    [] kind = "credential" -> Credential
    [] kind = "inspect" -> Inspect

--------------------------------------------------------------------------------
VARIABLES
  granted,      \* the questions Auth and the host would grant now
  ever,         \* those granted at some time since the last await of something else
  generation,   \* of the process that the dev inspector reads
  req           \* the request

requestVars == <<granted, ever, generation, req>>

Denials == {"UNAUTHORIZED", "FORBIDDEN", "PRECONDITION_FAILED", "NOT_FOUND"}
Results == Denials \cup {"none", "ok", "gone", "CONFLICT", "TOO_MANY_REQUESTS", "SERVICE_UNAVAILABLE"}

Requests ==
  [kind : Kinds, scoped : BOOLEAN, pc : Nat,
   scope : {"none", "open", "registered", "finished", "closed"},
   asked : SUBSET Questions,      \* what the scope was asked, and granted
   relied : SUBSET Questions,     \* history: what it granted and the answer is built on so far
   shows : BOOLEAN,               \* inspect: the operation is visible
   seen : SUBSET (0..1),          \* generations sampled
   result : Results]

RequestTypeOK ==
  granted \subseteq Questions /\ ever \subseteq Questions /\ generation \in 0..1 /\ req \in Requests

Steps == Script(req.kind, req.scoped)
Step == Steps[req.pc]
Running == req.result = "none"
At(do) == Running /\ req.pc \in DOMAIN Steps /\ Step.do = do

RequestInit ==
  /\ granted \in SUBSET Questions /\ ever = granted /\ generation = 0
  /\ \E kind \in Kinds, scoped \in Scoped :
       /\ req = [kind |-> kind, scoped |-> scoped, pc |-> 1, scope |-> "none", asked |-> {},
                 relied |-> {}, shows |-> TRUE, seen |-> {}, result |-> "none"]
       /\ granted \subseteq Asks(Script(kind, scoped))

\* safeError: how a question that is not granted is answered.
Refusals(q) == CASE q = "same" -> {"UNAUTHORIZED", "PRECONDITION_FAILED"}
                 [] q = "job" -> {"NOT_FOUND"}
                 [] OTHER -> {"FORBIDDEN"}

\* MUTANT: the scope of a request that fails stays open.
ClosedLater(scope) == scope

\* closeRead, in the catch of whoever began the scope.
ScopeClosed(scope) == IF scope \in {"open", "registered"} THEN "closed" ELSE scope

Fail(result) == req' = [req EXCEPT !.result = result, !.scope = ScopeClosed(@)]

Advance(n) == req' = [req EXCEPT !.pc = @ + n]

\* The write guarantee is the host's, asked outside of any scope.
Scoping == req.scope \in {"open", "registered"} /\ Step.q # "write"

\* A question is granted; the scope, if there is one, will replay it.
Grant ==
  req' = [req EXCEPT !.pc = @ + 1, !.asked = IF Scoping THEN @ \cup {Step.q} ELSE @,
                     !.relied = IF Scoping THEN @ \cup {Step.q} ELSE @]

\* enforce, enforceRead
EnforceGranted ==
  /\ At("enforce") /\ Step.q \in granted /\ Grant
  /\ UNCHANGED <<granted, ever, generation>>

EnforceDenied ==
  /\ At("enforce") /\ Step.q \notin granted
  /\ \E result \in Refusals(Step.q) : Fail(result)
  /\ UNCHANGED <<granted, ever, generation>>

\* can, canRead
CanGranted ==
  /\ At("can") /\ Step.q \in granted /\ Grant
  /\ UNCHANGED <<granted, ever, generation>>

\* MUTANT: a denial retires the scope and is left out; what the scope granted stays collected. (The
\* script without a scope lacks the step that begins it.)
CanDeniedFiltering ==
  /\ At("can") /\ Step.q \notin granted
  /\ req' = [req EXCEPT !.scope = IF Scoping THEN ScopeClosed(@) ELSE @,
                        !.pc = IF Scoping THEN @ + Step.over ELSE @ + 1 + Step.over,
                        !.scoped = @ /\ ~Scoping,
                        !.shows = @ /\ ~(req.kind = "inspect" /\ Step.q = "list")]
  /\ UNCHANGED <<granted, ever, generation>>

\* Filtering retires the scope: the metadata is collected again with fresh questions.
CanDenied ==
  /\ At("can") /\ Step.q \notin granted
  /\ IF Scoping
     THEN req' = [req EXCEPT !.scope = ScopeClosed(@), !.scoped = FALSE, !.pc = 1, !.asked = {},
                             !.relied = {}]
     ELSE req' = [req EXCEPT !.pc = @ + 1 + Step.over,
                             !.shows = @ /\ ~(req.kind = "inspect" /\ Step.q = "list")]
  /\ UNCHANGED <<granted, ever, generation>>

\* Anything that is awaited may fail.
Unavailable ==
  /\ Running /\ req.pc \in DOMAIN Steps
  /\ Fail("SERVICE_UNAVAILABLE")
  /\ UNCHANGED <<granted, ever, generation>>

Awaited ==
  /\ At("await") /\ Advance(1)
  /\ ever' = granted
  /\ UNCHANGED <<granted, generation>>

Limited ==
  /\ At("limit")
  /\ \/ Advance(1)
     \/ Fail("TOO_MANY_REQUESTS")
  /\ ever' = granted
  /\ UNCHANGED <<granted, generation>>

\* A write is executed. (The database refuses what its state does not allow.)
Execute ==
  /\ At("effect")
  /\ \/ Advance(1)
     \/ Fail("CONFLICT")
  /\ UNCHANGED <<granted, ever, generation>>

\* A read is dispatched; its answer is awaited.
Dispatch ==
  /\ At("query") /\ Advance(1)
  /\ UNCHANGED <<granted, ever, generation>>

Sampled ==
  /\ At("sample")
  /\ req' = [req EXCEPT !.pc = @ + 1, !.seen = @ \cup {generation}]
  /\ ever' = granted
  /\ UNCHANGED <<granted, generation>>

SampleCompared ==
  /\ At("sameSample")
  /\ IF Cardinality(req.seen) = 1 THEN Advance(1) ELSE Fail("CONFLICT")
  /\ UNCHANGED <<granted, ever, generation>>

\* Only what is shown is asked again.
Revisit ==
  /\ At("visible")
  /\ Advance(IF req.shows THEN 1 ELSE 2)
  /\ UNCHANGED <<granted, ever, generation>>

Begin ==
  /\ At("begin")
  /\ req' = [req EXCEPT !.pc = @ + 1, !.scope = "open"]
  /\ UNCHANGED <<granted, ever, generation>>

Registered ==
  /\ At("register")
  /\ req' = [req EXCEPT !.pc = @ + 1, !.scope = "registered"]
  /\ UNCHANGED <<granted, ever, generation>>

\* finishRead replays every successful question before anything is disclosed.
Finish ==
  /\ At("finish")
  /\ IF req.asked \subseteq granted THEN req' = [req EXCEPT !.pc = @ + 1, !.scope = "finished"]
     ELSE Fail("FORBIDDEN")
  /\ UNCHANGED <<granted, ever, generation>>

\* The response leaves. The host finishes a registered scope first.
Disclose ==
  /\ Running /\ req.pc = Len(Steps) + 1
  /\ IF req.scope = "registered" /\ ~(req.asked \subseteq granted) THEN Fail("FORBIDDEN")
     ELSE req' = [req EXCEPT !.result = "ok",
                             !.scope = IF @ = "registered" THEN "finished" ELSE @]
  /\ UNCHANGED <<granted, ever, generation>>

\* checkAbort: the caller has gone; the signal closes his scopes.
CallerAborts ==
  /\ Running /\ req' = [req EXCEPT !.result = "gone", !.scope = ScopeClosed(@)]
  /\ UNCHANGED <<granted, ever, generation>>

\* Auth, the host, and the process that is inspected go their own way.
GrantsChange ==
  /\ Running
  /\ \E q \in Asks(Script(req.kind, req.scoped)) :
       /\ granted' = IF q \in granted THEN granted \ {q} ELSE granted \cup {q}
       /\ ever' = ever \cup granted'
  /\ UNCHANGED <<generation, req>>

Restart == Running /\ req.kind = "inspect" /\ generation = 0 /\ generation' = 1
           /\ UNCHANGED <<granted, ever, req>>

RequestNext ==
  \/ EnforceGranted \/ EnforceDenied \/ CanGranted \/ CanDenied \/ Unavailable \/ Awaited \/ Limited
  \/ Execute \/ Dispatch \/ Sampled \/ SampleCompared \/ Revisit \/ Begin \/ Registered \/ Finish \/ Disclose
  \/ CallerAborts \/ GrantsChange \/ Restart

RequestSpec == RequestInit /\ [][RequestNext]_requestVars

--------------------------------------------------------------------------------
\* What each request may only do with authority.
Requires ==
  CASE req.kind \in {"tasks.retry", "tasks.cancel", "tasks.get"} -> {"invoke", "job"}
    [] req.kind = "keys.revoke" -> {"invoke", "write"}
    [] req.kind = "schedule" -> {"invoke", "write", "list"}
    [] req.kind = "prepared" -> {"invoke", "list"}
    [] req.kind \in {"tasks.list", "keys.read", "inspection", "credential"} -> {"invoke"}
    [] req.kind \in {"greet", "status"} -> {"invoke", "administrator"}
    [] req.kind = "inspect" -> {"same", "admin"} \cup (IF req.shows THEN {"list"} ELSE {})
    [] req.kind = "preference" -> {"same"}
    [] req.kind = "default" -> {"same", "configure"}
    [] OTHER -> {}

\* The reads that ask once more when they hold their data. (The API keys, the inspection of the
\* authorization and a prepared read answer what their provider tells, however late it tells it:
\* they are held to their authority when they call it.)
Rechecked == {"tasks.list", "tasks.get", "greet", "status", "inspect"}

\* A provider is called for the caller, to write or to read, and a read that is checked again is
\* answered, only with authority that was there at some moment after the last await of anything
\* else: however long a binding, a body, a queue or a replay policy takes, authority lost before
\* it ended is not used after it. (A locale write answers with a snapshot that needs no authority
\* of its own.)
AuthorityIsFresh ==
  [][/\ Execute /\ req'.result = "none" => Requires \subseteq ever
     /\ Dispatch => Requires \subseteq ever
     /\ Disclose /\ req'.result = "ok" /\ req.kind \in Rechecked => Requires \subseteq ever]_requestVars

\* No read scope survives its request, whatever failed in between.
ScopesEnd == ~Running => req.scope \notin {"open", "registered"}

\* What a scope granted holds together: when the scope is finished, and when an answer leaves
\* whose scope was not, everything the answer is built on out of a scope is granted at that one
\* moment. A catalogue is never put together from what a retired scope granted and what was asked
\* afresh.
ScopedAnswersHoldTogether ==
  [][\/ Finish /\ req'.result = "none"
     \/ Disclose /\ req'.result = "ok" /\ req.scope # "finished"
     => req.relied \subseteq granted]_requestVars
================================================================================
