# lenso-console in TLA+

TLA+ models of the parts of lenso-console whose correctness depends on the order in
which things happen, the TLC runs that check them on small instances, and TLAPS
proofs of what matters most for instances of any size. `PROJECT.json` lists the
runs, which source lines each definition stands for, the hazards behind each
property, and, for every property, a small change of the code that breaks it
(definitions marked `MUTANT` hold those changes).

    tlc -workers 2 -config MCDashboardD1.cfg MCDashboardD1
    tlapm DashboardRepositoriesProofs.tla

1. The system
2. The modules
3. What each run checks, and its bounds
4. Fairness and assumptions
5. What is proved
6. Disagreements with the documentation
7. What is not modelled, and the plan

## 1. The system

lenso-console is a set of TypeScript packages from which an application assembles an
operator console: a server that binds every request to a session and a set of
grants, storage adapters, and React code in the browser.

| Component | State | Operations | Talks to | What is hard |
|---|---|---|---|---|
| Dashboard storage (`console-dashboard/src/storage/*`) | one document row and one row per mutation id, per scope | load, look up, stage, persist, verify | PostgreSQL, D1, SQLite | two database calls per save, lost COMMIT answers, batches that land late, retries |
| Memory repository (`console-dashboard/src/server.ts`) | a map of states and a map of promises | transaction | the authorized store | exclusion by chaining promises whose entry is deleted |
| Authorized store (`server.ts`) | none of its own | get, save | authorization, a repository | one awaited policy question per instance while grants change |
| Audited store (`server-audit.ts`) | the audit trail of the host | save | authorized store, audit service | retries after lost answers, races on one intent, crashes |
| Dashboard page (`dashboard.tsx`, `draft.ts`) | saved document, draft, undone layouts, mutation id | edit, undo, save, retry, reload, cancel | the store | a save whose answer is lost, edits while it is under way, undo after concurrent edits |
| Subscriptions (`console/src/subscription.ts`, `service.ts`) | the service's set of streams, each stream's pull and cleanup | subscribe, next, return, throw, abort, close | plugins' producers, Auth | overlapping calls, cancellation at every await, closing during opening |
| Requests: invocation, read scopes, integrations, Auth adapter (`service.ts`, `auth.ts`, `locale.ts`, `integrations/*`) | shared read scopes | invoke, inspect, locale writes, task, key and schedule operations | plugins, Auth, hosts | authority that lapses between binding, running and answering |
| Administration (`auth-console/src/administration-*.ts`, `examples/ts-console/administration-host.ts`) | one access row with a revision, the account directory, keys, sessions, the audit trail | 16 actions: members, roles, promotion, disabling; reads; sessions; tokens issued, rotated, revoked | database, directory, key library, audit | facts read over many awaits and used in one commit; credentials made before they are delivered |
| Agent conversation (`agent-console/src/conversation.ts`) | composer, pending submission, run and snapshot on the screen, watcher | send, retry, stop, decide, reconnect | the Agent service | lost and late answers, a watcher beside writes |
| Agent client, session resume and page tool (`client.ts`, `session-resume.ts`, `context-tools.ts`) | the frame reader; a record in the tab's storage; a prepared action | command, watch; load, save, clear; prepare, invoke | the Agent service, the scope of the session, the inspector of the page | frames repeated or of another run; a scope that changes while it is fingerprinted; a page that is another when the answer comes |
| Browser identity (`console-authoring/src/{identity-transition,session-fetch,browser-admission,session-renewal}.ts`) | per tab an admission, an origin-wide lock | login, logout, renew, revalidate, scoped reads | other tabs, Auth | tabs that race for the lock, best-effort broadcasts, late responses |
| Shell, preferences, routes, navigation (`console-react/src/console-{shell,preferences,model,navigation-editor}`) | preferences draft and revision, location, presets | load, edit, save, navigate, arrange | the service, pages | edits and account switches during a save; pages that were left |
| Frame: dock, bar, actions, tables (`console-react/src/console-{dock,dock-view,context-bar,action-scope,table-*}`) | open view and pending exits, published actions, filter tree, active table | open, leave, publish, run, filter | plugins' views, pages | late answers to "may I leave", owners that unmount in any order |
| Pages (`auth-console`, `console-{tasks,audit,plugin-manager}`, `plugins/console/shell`) | lists, one open object, one write | read, refresh, page, write, retry | the service | overtaken reads, writes of unknown outcome, objects replaced under a dialog |
| First setup (`console-react/src/console-initialization.tsx`) | status, secrets in the form, the operation's outcome | check, submit, resume | the host | an operation nobody answered; a host set up by somebody else |
| Compiler, schemas, transport, layout, examples, tooling | | | | generated code, validation of one answer, presentation |

How they interact where it matters: the audited store wraps the authorized store,
which runs inside a repository's transaction; the subscriptions ask Auth before and
after a plugin has projected an item; administration asks the directory inside the
database transaction; the Agent tab, the browser identity and every page talk to a server
whose answers may be lost or late; the frame asks plugins' views before it leaves them.

What makes each one correct, in a sentence:

- *Storage*: the accepted saves of a scope are one gap-free history, an id is accepted
  once, and what a caller is told stays true.
- *Authorized store*: a save edits only what its author could use under one grant, and
  a projection shows only that.
- *Audited store*: an intent dispatches one save, and the trail never says what is not so.
- *Subscriptions*: a stream is owned until its work is over, everything ends when it is
  cancelled or the service closes, and nothing is disclosed on stale authority.
- *Requests*: no provider is called for a caller on authority lost before the last await,
  the reads that check again answer on none either, no read scope outlives its request, and
  what a scope granted holds at one moment when its answer leaves.
- *Administration*: changes are authorized at the moment they commit, raise nobody above
  their author, and leave somebody who can administer; credentials reach only those who
  may do all that they allow.
- *Agent conversation*: one text runs once, the screen never goes back, and a finished
  run is not shown as running for ever.
- *Browser identity*: no page shows what another subject read, a renewal that was checked is due when it is executed,
  a logout is never lost, and nobody waits for himself.
- *Pages and frame*: what is shown was asked for, what is done was seen, what is uncertain
  is looked at before it is done again, and nothing is lost unasked.

## 2. The modules

    DashboardLog        what any repository promises: a log of saves, and true answers
      |   implemented by
    DashboardStorage    rows, the shared callback, verifyWrite, the compare-and-set
      +-- DashboardD1         load by two statements, one batch
      +-- DashboardPostgres   pool, advisory lock, transaction, lost COMMIT
      +-- DashboardMemory     chain of promises
      +-- DashboardSave       the authorized store over SQLite's one transaction
    DashboardRepositories the memory repository and PostgreSQL         (+ Proofs)
    DashboardAudit      the audited store over DashboardLog itself
    DashboardStores     the two stores in one behaviour                 (+ Proofs)
    ConsoleSubscriptions                          (proofs: ConsoleServiceProofs)
    ConsoleRequests     every other request to the Console service  (the same)
    AdministrationAccess                                               (+ Proofs)
    AdministrationTokens                                               (+ Proofs)
    AgentConversation                                                  (+ Proofs)
    BrowserIdentity                                                    (+ Proofs)
    the pages and the frame, composed by ConsolePages                  (+ Proofs):
      AdministrationPages AuthPages TaskPage SchedulePanel ListPages
      SetupPage AgentClient OperationContexts OwnerPages
      DashboardEditor ConsoleShell ShellRoutes NavigationEditor PageActions
      ConsoleDock TableControls

Modules named `MC...` give the constants values for TLC. Three modules compose modules
that share no state: `DashboardRepositories`, `DashboardStores` and `ConsolePages` have one
variable that says which system a behaviour is of, and state each property once for all of
them. Their state space is the sum of the parts, not the product. `ConsolePages` lends its
other variables to each page in turn; in the other two the variables of both systems stand
side by side.

**DashboardLog** is the abstract specification: `log` is the sequence of accepted
saves, `request` and `answer` what every attempt sent and was told. `Accept`
appends; `Acknowledge`, `Conflict`, `Collide`, `Refuse` and `Lose` are the answers and
the conditions under which each is true.

**DashboardStorage** holds what the repositories share: `row` and `mutations` are the two
tables, `view`, `found` and `staged` what `durableRepository.transaction` holds between
its awaits, `Admits` is the compare-and-set (INSERT for revision 0, UPDATE otherwise) and
`Verified` is `verifyWrite`. `Log` reads the history off the tables.

**DashboardD1** sends one batch of three statements; it may fail before, run and answer,
run and lose the answer, or run after the caller was told that the outcome is unknown.
The dispatch token in a mutation row decides whether the second statement copies the row
to the document.

**DashboardPostgres** has the host's pool, of any of the sizes `PoolSizes` (`pool`, and who is
`connected`), every transaction as the server sees it (`session`) and the advisory lock
(`holder`). A query, COMMIT or ROLLBACK may fail; the
process may end; a session whose client is gone is ended by the server later, and until
then holds the lock.

**DashboardMemory** models `locks` as the chain of calls (`tail`, `prior`, `released`), the
copy of the state each works on, and the deletion of the chain's entry by the call that is
last.

**DashboardSave** is `get` and `save` of the authorized store: `Admit`, `Restore`, `Check`,
`Recheck`, `Stage`, `ProjectOne`, `Confirm`, `BeforeDispatch` are its loops, with one step
per awaited policy question; `Change` gives a principal other grants and a new permission
revision at any moment. Attempts may be served by deployments that do not all know the
same widget definitions.

**DashboardAudit** is the wrapper over `DashboardLog`, so it holds over every repository:
`Get`, `Record`, `GetAgain`, `ReadOutcome`, `Replay`, `Complete`, and their failures, each
with the answer delivered or lost. A retry whose success is recorded is answered by a reader that
asks for the caller's present rights (`server-audit.ts:219`), so it may be refused
(`ReplayFails`).

**ConsoleSubscriptions**: `opening` is where `subscribe` is, `at` where each call of `next`,
`return` and `throw` is, `cleanup` how far the iterator's `close` is, `service` how far the
service's `close` is. One step per await. The several abort signals of a stream are one
flag, and the session, its scope and its grants are one bit (`current`) that may go away
and come back.

**ConsoleRequests** writes every handler as the sequence of what it awaits: questions to
Auth (`enforce`, `can`), host callbacks, the effect, the disclosure. The scripts are put
together from the same parts as the code (`AuthorizeInvocation`, `BindInvocation`,
`Invoke`, `CanDispatch`, the integrations' operations), and one interpreter runs the script
of one request while what the caller may do changes between any two awaits. With read
scopes (`Scoped`) the questions asked inside a scope are shared and asked once more when it
finishes. A provider is called by `Effect` (a write) or `Query` (a read that asks nothing
after it), and its answer is a further await: the API keys' reads (`api-keys.ts:122-135`), the
authorization's inspection (`authorization.ts:116-132`) and a prepared read answer with what
their provider tells then, so that their authority is that of the call. The scheduler's binding
(`scheduler.ts:40-65`) asks twice itself, around the resolution of an actor, within the
binding; its operation asks nothing more. One request at a time is enough: requests share
nothing but authority, which moves by itself.

**AdministrationAccess** models one local instance: `access` is the row with its revision,
roles and bindings, `status` the directory. A call goes through `Submit`, `Authorize`,
`Prepare` (the audit intent), `Dispatch`, the reads of its handler, `Mutate` (one
transaction: `Admits` are its checks, `Commit` its write), `Complete` and `Disclose`.
Audit and database calls may fail with unknown effect and the process may end anywhere.
Six methods are modelled: the access read, setting and promoting a member, revocation,
saving a role, disabling an account. The operator preset is left out, the three reads of
`permissions()` are one step, and the role check inside `rolesSave` is left out because
what it refuses, authorization has refused already.

**AdministrationTokens** is the rest of administration: reads, revocations, and the
deliveries of credentials (`issueToken`, `rotateToken`), each a script of awaits for one
watched call of a person or of an agent with one of his keys. Other calls are `Meanwhile`,
which changes a key under it; what the person may do changes by `RightsChange`. The key
library is external. `verifyToken`'s awaits are one step, two reads stand for all approved
reads, and contents are left out.

**AgentConversation** is one activation of the tab. `Send`/`Retry` make or reuse the request
key (`attempt`), `StartReturns`/`StartRefused`/`StartUnknown` are the three ends of a
submission, `Stop` and `Decide` the other writes under `writeLock`; `Ask`, `Show` and
`Settle` are `refresh` with its read version; `Rewatch` is the effect that follows the run
on the screen and `Watch...` what its watcher does with frames. React's state change and
the effect's cleanup are one step. What the service knows of a session is one number,
2i-1 while run i is running and 2i when it is over, because a session runs one message
at a time. The service starts at most one run per key; that is its contract and is taken
from how the tab uses it.

**BrowserIdentity** has the cookie (`session`, `due`, `revision`, `access`), the Web Lock
(`held`, `queue`: first come first served, an operation alone, everything else together),
what every tab's `useConsoleAdmission` holds (`tab`), and the two channels between tabs:
broadcasts (`inbox`) and storage events (`changed`). `Submit`, `Begin`, `CheckDue`,
`Succeed`, `Refused`, `Unanswered` are a transition; `Load...` an admission; `Focus` and
`Check` a revalidation; `Read...` a scoped read with its lease; `Hear` and `HearChange` what
a tab does when told. A write whose tab gave up (`strays`) may still be executed. A
sign-in by redirect is `Redirect` and `Land`: the tab leaves its page and comes back with a new
one, and the cookie that the server set meanwhile was written under no lock and is announced to
nobody. A renewal is checked under the lock only where the server publishes the session's
deadlines (`around.status`); elsewhere it is a plain transition, as in the code. `missed` is
history: a write that nobody announced passed a tab, or a stray, by. A request is answered and
its answer received in one step. The renewal timer is `Submit(t, "renew", ...)` at any moment, React's effects are one step with
what causes them, and storage events on their way to a tab are one.

The pages and the frame. Each has the person, the host and answers that come late, out of
order or not at all:

| Module | Code | What it models, and what it abstracts |
|---|---|---|
| `AdministrationPages` | `auth-console/src/administration-pages.tsx`, `console-authoring/src/browser-reads.ts` | one list under the operator's permissions, one editor and `useWrites` (confirm, send, reread, block); a permission change, a failed `info` read and leaving rebuild the page and so lift a block, as in the code, while the history `doubt` remembers what is unaccounted for; that a credential can be delivered relies on its dialog staying mounted. Which of the pages it is, and its layout, are abstracted |
| `AuthPages` | `auth-console/src/{pages,oauth-react}.tsx`, `oauth-client.ts` | sessions and connected applications page by page, one revocation, the consent; calls belong to a mount and may outlive it |
| `TaskPage`, `SchedulePanel` | `console-tasks/src/{react,schedules}.tsx` | the polled list, a job's dialog, retry and cancel; schedules changed at the revision that was seen |
| `ListPages` | `console-audit/src/react.tsx`, `console-plugin-manager` | audit records page by page under a filter, one record open, related records; the catalog loader's workers (two of the four), the first failure, cancelled loads |
| `SetupPage` | `console-react/src/console-initialization{,-model}` | status, secrets, an operation without an answer; "Check status" in the drawer unmounts a filled form and so clears its secrets, as in the code |
| `AgentClient` | `agent-console/src/{client,session-resume}.ts` | one command and one watched run, of which the server may send any frame at any time; and the stored record with the scope that changes under its digest (removing a record is taken to succeed) |
| `OperationContexts` | `agent-console/src/context-tools.ts`, `console-authoring/src/operation-context.tsx` | the Agent's tool: its action prepared once and invoked at any later time, the page resolved anew at each await (the host that names the page is external, and an answer too long to hand over counts as a failed inspection); and the page's own panel, which reads per services and lease of the page |
| `OwnerPages` | `plugins/console/shell/src/app/console-admission.tsx`, `console-authoring/src/browser.tsx` | mounts under an admission, modules loaded late, hand-overs between pages, the runtime that keeps what a page has read until its admission retires (at most one read at a time); a mount replaced within one admission and the cache's own time limit are left out |
| `DashboardEditor` | `console-dashboard/src/{dashboard.tsx,draft.ts}` | draft, undo, save and retry under a mutation id, reload, cancel, on a grid of one row; an undone layout that no longer fits is dropped, and edits made while a confirmed reload is under way are discarded, as in the code |
| `ConsoleShell` | `console-react/src/{console-shell,console-preferences}` | the surfaces that share the dock; preferences read per scope and saved against a revision |
| `ShellRoutes` | `console-{shell,model,settings,activation}` | what is offered and mounted for an address under the present access; route parameters are abstracted |
| `NavigationEditor` | `console-navigation-editor` | presets, pins, hidden destinations; a drag given up restores the whole draft, and one that goes on after its destination was hidden moves a pin nobody sees, as in the code |
| `PageActions` | `console-{action-scope,page-context,interaction-host,command}` | scopes that publish actions and the handles others keep; when the later of two leaves, the earlier is published again when it next renders |
| `ConsoleDock` | `console-dock{,-view,-shape}.tsx`, `console-context-bar.tsx` | views and their exits, the menu, the bar's capacity; a pane that fades while the surface that carries it is measured, travels and is turned back; the skin of the context bar, that travels from one context to the next (geometry is a set of boxes) |
| `TableControls` | `console-table-filters.tsx`, `console-filter-model.ts`, `console-table-{context,host,model,search}` | the draft tree of a filter under its limits (node ids stand for positions and values are complete or not); which table has the controls (any change of the page may ask for an evaluation) |

## 3. What each run checks, and its bounds

| Run | Instance | Properties |
|---|---|---|
| `dashboard_d1` | 3 attempts: a retry, a race, and an id used twice; 2 ids, 2 documents; symmetric | `HistoryMatchesRow`, `D1ImplementsLog` |
| `dashboard_repositories` | PostgreSQL: 2 attempts, a pool of 1 connection and one of 2; memory: 3 calls | `OneWriterAtATime`, `ImplementsLog`, `EveryAttemptSettles` |
| `dashboard_stores` | authorized: 2 principals, 2 instances, up to 3 permission revisions each, one deployment lacks a definition; audited: 2 attempts and a direct one | `NothingRestrictedShown`, `EditsStayWithinGrant`, `StaleInstancesSurvive`, `OneSavePerIntent`, `TrailTellsTheTruth`, `ToldWhatIsRecorded` |
| `subscription_calls` | 1 stream, 2 callers, the service | `OwnedThroughWork`, `CloseLeavesNothing`, `NoCleanupFailureForgotten`, `FreshAtDisclosure`, `EverythingSettles` |
| `console_requests` | one request of every kind, with and without read scopes | `AuthorityIsFresh`, `ScopesEnd`, `ScopedAnswersHoldTogether` |
| `administration_access` | 3 accounts, 1 custom role, 9 requests, 2 calls at a time that may be made again; up to revision 4; symmetric | `OwnerRemains`, `TrailTellsTheTruth`, `AnswersTellTheTruth`, `AuthorizedAtCommit`, `GainsWithinRights`, `RevisionCoversStanding` |
| `administration_tokens` | 1 request id, its key rotated up to 3 times, 4 profiles of rights | `DisclosedWithinRights`, `OutcomesAreTrue` |
| `agent_conversation` | 3 texts, one of them unfit, 3 request keys, 2 copies of each submission | `OneRunPerDraft`, `ReadNeverGoesBack`, `EndedIsShown` |
| `browser_identity` | 2 tabs, 2 subjects (symmetric), 4 environments | `PageShowsItsOwn`, `LockMovesOn`, `StaleIsTold`, `RenewsWhenDue`, `LogoutSurvives` |
| `console_pages` | the pages and parts of the frame, each with 1 to 3 of everything | `ShowsItsOwn`, `StaysWhole`, `ActsOnWhatIsShown`, `LooksBeforeRepeating`, `NothingIsLostUnasked` |
| `agent_conversation_refused_retry` | 2 texts, 3 keys, 2 copies, and a retry may be refused for another reason than its text | violates `OneRunPerDraft` (section 6) |
| `task_page_refresh` | 2 jobs, 2 calls under way | violates `ReadsGoOn` (section 6) |

Why the bounds are enough:

- *Storage.* What goes wrong needs a save that is in doubt, its retry, and a save by
  somebody else on the same or the next revision: three attempts. PostgreSQL has two. Over a
  pool of two connections each holds a transaction of its own while the other is alive, dead,
  or waiting for the lock; over a pool of one they wait for the connection, and one that leaked
  would starve the other. Its liveness is checked in the same run.
- *Authorized store.* Three permission revisions are a grant, its loss and its return,
  which equal grants cannot tell apart and equal revisions can.
- *Subscriptions.* Two callers give every overlap of two of `next`, `return` and `throw`;
  a stream has at most one pull, so a third caller is refused at once. `close` treats
  streams alike, and the theorems of section 5 state its properties for any number of
  streams.
- *Requests.* A request is a finite script, and every authority may come and go before each
  step of it.
- *Administration.* Two calls at a time, one after the other without end: what a call has
  read can be changed by any other, and two commits in between add nothing to one since
  the revision tells both. `MaxRevision` stands for 2^53 - 1, so refusing a write at the
  last revision is part of the model. For tokens, one watched call and everybody else; a
  key at its last revision is not rotated.
- *Agent.* A text may be submitted, lost sight of, and submitted again while the first copy is
  on its way; the second is refused whatever is tried, because of what it says; and another text
  comes after them. The copies of a submission travel apart, so a refusal takes one of them.
- *Browser identity.* Two tabs are a writer and a reader, or two writers; the environments
  are these two with a server of today, the first also with a tab without a BroadcastChannel,
  and with a server without `/admission` and without a session status. Two environments have
  two sign-ins or writes, so that one queues behind the other or comes back from a redirect
  while the other is admitted; the others have one, and a change of permissions.
- *Pages.* Two objects, of which one is shown while the other is asked for; two calls under
  way, of which the later is answered first; revisions enough for a change behind a draft
  and one behind that. The constants are in `MCConsolePages`; the limits of the filter
  editor, the presets and the dock's bar are reached within them. `BarFits` is a fact about
  one function (`console-dock.tsx:542`) for every room up to its bound, evaluated once.

The runs that allow a stop (`CHECK_DEADLOCK FALSE`) are of systems in which every
call has come to its end or a bound is reached, which is where finite behaviours stop.

In what order things happen: `EditsStayWithinGrant`, `StaleInstancesSurvive`,
`AuthorizedAtCommit`, `GainsWithinRights`, `RevisionCoversStanding`, `FreshAtDisclosure`,
`AuthorityIsFresh`, `ScopedAnswersHoldTogether`, `ReadNeverGoesBack`, `RenewsWhenDue`, `LogoutSurvives` and the last three of
`console_pages` are action properties, about what a single step may do in the light
of what happened before it. `ImplementsLog` and `D1ImplementsLog` are refinement of `DashboardLog`.
`EveryAttemptSettles`, `EverythingSettles` and `EndedIsShown` are liveness.
`LockMovesOn` is the absence of a deadlock among tabs: somebody waits for the lock only
while somebody can go on.

## 4. Fairness and assumptions

- `DashboardPostgres`: a client whose database answers takes its next step; a server ends
  every session whose COMMIT it received or whose connection closed. Nothing says that a
  query succeeds.
- `DashboardMemory`: the event loop runs every callback that is ready.
- `ConsoleSubscriptions`: promises inside the service settle; a producer's pull settles
  once its signal is aborted and its `return` settles, which `packages/console/README.md`
  asks of producers. Nobody is assumed to pull.
- `AgentConversation`: the service answers what it is asked and the tab handles what
  arrives, unless the request fails; nobody is assumed to do anything, and no run to end.
- `TaskPage`: the interval fires while the page is visible and every request settles. This
  is what the violated property assumes; the person is not assumed to do anything.
- D1 runs a batch as a transaction, at most once. When ROLLBACK fails the connection is
  gone.
- A permission revision changes with every permission fact (the authorized store relies
  on it; for the administration of the local host `RevisionCoversStanding` shows it).
- A caller expects a revision that it has read.
- Scopes do not share anything, so each model has one.
- The server names the subject and the permission revision that a response was made for
  (`x-lenso-read-scope`) truly, and refuses a write whose expected subject is not the
  cookie's.
- The Web Lock is granted in the order it was asked for, and a tab that is closed lets go
  of it.

## 5. What is proved

For any values of the constants, by TLAPS, without axioms:

| Module | Theorems |
|---|---|
| `DashboardRepositoriesProofs` | of the memory repository and PostgreSQL `TypeCorrect`, `OneWriter`, `ImplementsTheLog`; of D1 `D1TypeCorrect`, `HistoryAlwaysMatchesRow`, `D1ImplementsTheLog` |
| `ConsoleServiceProofs` | `TypeCorrect`, `ReleaseIsDrained`, `CloseIsComplete`, `CloseTellsFailures`, `DisclosureIsFresh`; `RequestsAreTyped`, `ScopesEndWithTheirRequest`, `ScopedAnswersAgree`, `AuthorityStaysFresh` |
| `AdministrationAccessProofs` | `TypeCorrect`, `AnOwnerRemains`, `TrailIsTrue`, `AnswersAreTrue`, `ChangesAreAuthorized`, `GainsAreWithinRights`, `RevisionCovers` |
| `AgentConversationProofs` | `TypeCorrect`, `RunsOnce`, `ReadsGoForward` |
| `BrowserIdentityProofs` | `PagesShowTheirOwn`, `TheStaleAreTold`, `RenewalsAreDue`, `LogoutsSurvive` |
| `AdministrationTokensProofs` | `TypeCorrect`, `DisclosuresAreWithinRights`, `TheOutcomesAreTrue` |
| `ConsolePagesProofs` | `PagesShowTheirOwn`, `PagesLookFirst`, `PagesActAsShown`, `PagesLoseNothing` |
| `DashboardStoresProofs` | `TypeCorrect`, `NothingRestrictedIsShown`, `EditsAreWithinGrant`, `StaleInstancesDoSurvive`, `OneSaveForAnIntent`, `TheTrailIsTrue`, `CallersHearTheTrail` |

Each module defines an inductive invariant, shows that it holds at first and that
every action keeps it, and derives the theorems from it. Where `TypeCorrect` is listed the
type invariant is proved and no run repeats it; elsewhere type invariants document the
variables, and the inductive invariants state what types they need.

*D1.* `HistoryMatchesRow` alone is not inductive: a batch that lands late must not undo a
later save. `StagedInOrder` (what is sent was staged on the revision it expects),
`SentOnce`, and `TokensTellWhoRan` (a recorded row names the attempt whose batch ran)
make it so. Then either the batch's insert finds its id free and the row at the
expected revision, and the history grows by one, or its token is nowhere and the
second statement copies nothing.

*D1 is a log.* The log that `DashboardStorage` reads off the tables picks, for each revision,
the mutation that made it; `LogIsTheHistory`, which serves all three repositories, uses
`HistoryMatchesRow` to show that it is a sequence with one record per recorded mutation, and
`LogStep` that a batch appends one record
or changes nothing. For the answers to be true of it, `RInv` adds what an attempt remembers:
`SeenInOrder` (what it expected and saw is not ahead of the row, and what it found is still
recorded), `RowsSayWhatWasStaged`, and `RunDecides` (a batch that ran has left its id recorded
or came too late), which is what makes the conflict of `verifyWrite` true. Every action then is
one of the log's or none (`StepIsAbstract`).

*The memory repository and PostgreSQL.* Both write the row and the mutation in one step, so
what a write does to the log, and which answers are then true, is proved once for both
(`TablesWritten`, `LogGrows`, `RecordedIsLogged`). What differs is why the write that a call has
prepared still fits. In memory a call works on a copy, and `Copied` says that the copy is what is
stored plus what the call staged; that needs one call at work, which is `Chain`: one call in line
is first, no two wait for the same one, nobody waits for the tail, and among any calls that wait
there is one whose predecessor is not among them. The last clause is what keeps somebody first
when a call leaves and the chain's entry is deleted and begun anew. In PostgreSQL `InSession`
says how far the server is with a transaction given where its client is, and `Covered` that
between the lookup and the end of the session the call holds the lock, and that a write it may
still commit fits the tables. So whoever else writes holds the lock, and disturbs nobody who counts
on the tables (`OthersUndisturbed`); a session whose client is gone keeps the lock until the
server ends it, so it is no exception. `Informed` carries what a call read before its transaction:
a found mutation stays, a revision only grows, so a conflict or a collision is still true when the
ROLLBACK ends (`VerifiedIsTrue`).

*Subscriptions.* A stream is released after `Drained`; what has to be shown is that
no other call is at work then. `PullerIsDrained` says that a call at work is the one
that pulls and the one the cleanup drains. For closing, `AwaitedAtClose` says that an opening
that may still succeed is waited for, `RegisteredUntilReleased` that the service's set is
exactly what is open, and `ServiceCallsWait` that what the service waits for has been released.
`FailuresRemembered` carries a cleanup's failure from the stream to the service. For
`DisclosureIsFresh`, `VouchedBeforeReady` says what the second question to the authority
is for: an item is ready only if somebody vouched for it since it was validated.

*Requests.* The handlers are data here, so the proof is first about sequences of steps: a `Piece`
is one that skips no further than its end and does none of a given set of things, and pieces put
together are pieces. From that follow the three shapes that matter, for all kinds of request at once.
A request that opens no scope never touches one (`ScopelessScript`); one that does passes a
`register` or `finish` that nothing before can skip or leave early, and opens none afterwards
(`ScopedScript`); and one that calls a provider or answers has its `Closing`, the questions between
the last await and that call or answer, with no call before it and, after it, only what `Remaining`
says, which calls none (`ScriptCloses`). The invariant then speaks of places:
`ScopeEndsAhead` (an open scope has its end ahead), `FinishedByStatus`, and `AskedIsFresh`, that
whatever part of the closing lies behind has been granted since the last await. The steps are
sorted by what they do to the place (`Movement`); the only ones that forget what was granted are
awaits, and a closing has none. That scoped answers hold together follows from `ReliedIsAsked`:
what an answer is built on is among what its scope will replay, and a request whose scope is not
there any more is built on nothing it granted.

*Administration.* `CurrentWhenAdmitted` is the heart: *if* a call's expected revision is
the current one, then everything it has read is still so. A commit makes every other call's
expected revision old (`ExpectedWasRead`: none is in the future), so the invariant
survives it, and the comparison in the transaction is enough. `RecordedSoFar` ties a
call's place in the code to what it has done and recorded.

*Token calls.* A call is a script of awaits, and the six scripts differ in what comes before the
work and after the end of the intent. `Shaped` says so once for all of them, and `Places` reads
off where each kind of step can be. So `Placed` can tell what became of a call's intent and of
its work from where it is, which is most of `OutcomesAreTrue`; a revoked key stays the revision
the person saw because the dead do not change. For what is disclosed, `Grounded` says that
whatever the caller may do now is within `since`, what he could do at or after the work: a later
check that finds something allowed has found it allowed then. That a credential which is good now was
good then needs `Evolves`: whatever happens to a key, by anybody's call or with time, no old
credential of it becomes good again. `Earned` keeps what each step after the work has found until
the call is answered, in the three orders in which the scripts check.

*The Agent's texts.* `RunsOnce` assumes `~Lapses`: a retry is refused for what the text says and
for nothing else; a retry that is refused for a lapsed session or a rate limit breaks it, which is
the disagreement of section 6. A refusal takes only the refused copy off its way, and the copies
sent before it may still arrive. What makes the property inductive is
that the attempt of unknown outcome is of the text in the composer (`PendingIsShown`), that
what may still arrive is a copy of it, or of a submission that was accepted, or unfit
(`OnlyPendingArrives`), that each copy arrives once (`CopiesArriveOnce`), and that only the pending
attempt's run may be of that
text (`PendingRan`): so retrying, editing and sending again are each safe when they are offered.

*The Agent's screen.* `ReadsGoForward` needs no such assumption. Whatever a tab has learned, in
whichever message it travels, was true of the service at some time (`LearnedUpTo`), and what the
service knows only grows. Two reads may be on their way at once, and a write's answer may change
the run on the screen between the service's answer to a read and its arrival. `LatestIsAhead` says
why that is harmless: only one of the reads will be shown; everything that shows a snapshot has
overtaken it; and an answer that puts another run on the screen has either aborted it (the
watcher's) or cannot come (while the writer reads, it does not write).

*What a tab shows.* `Leased` ties the parts of a tab together: an admission is of the scope that
the tab reads under and ends its load, a page that reads or shows is within an admission, and a
write at work has ended it. No step of that proof looks at the lock or at the messages: they
decide how soon a tab learns of a change, and an answer under another scope is refused by
its header even if nobody told the tab.

*What a tab is told.* This is where the lock and the messages are needed. `Shape` says what one
step of one tab may do: the other tabs stay as they are or are passed by (`Others`), what has been
said to them stays said (`Talks`, `Stores`), the cookie changes only when a write of that tab ends
(`Wrote`) or by a redirect, which passes everybody by (`Slipped`), and the tab is admitted only by
a load that holds the lock, as the cookie's subject. On that rest five invariants that hold
together (`Told`): whoever holds the lock for a write holds it alone (`Alone`), who writes holds it
(`WritersHold`), and meanwhile every admitted tab that the channel reaches has a message on its way
(`Warned`), because the writer spoke before it wrote and no tab is admitted while it writes. So when
the cookie changes under the lock nobody whom the channel reaches is left untold, and the storage
event or the mark `missed` stands for the others. For the same reason what `needed` found due under
the lock is still due when the renewal is executed, in its tab or as a stray, unless another write
has passed it by (`DueAtWork`).

*The authorized store.* The difficulty is that a save asks about one instance at a time while
permissions come and go. An answer of the policy is worth something only if the permission
revision that `authorize` reports at the end is the one that the attempt was admitted with
(`Fresh`): revisions only grow, so then nothing changed in between and all answers are of one
grant. So the invariants of a save say *if fresh, then* what has been staged or projected so far
is within the grant, and each is carried over a change of rights because that makes the attempt
stale for good (`Editing`, `Projecting`). The last two steps, `dispatch` and `persist`, come after
the check of the revision, so what `Projecting` says of them no longer depends on freshness.
`Writing` compares the staged document with the loaded one place by place, and `RowMovesOn`, that a
revision an attempt has seen names one document, turns that into a comparison with the row.

*The audited store.* Whoever reached the store has announced what it was sent, before anybody
else (`AnnouncedBy`), and the intent is written once, so two attempts of one intent cannot both
be there. The log, which only grows and holds an id once (`LogInv`), then decides the outcome:
the attempt that records it was at the store and recorded what it heard (`Concluded`), and what
the log told it stays true. A refusal is either what the trail records or that of an attempt that
asked the store nothing (`RefusedTrue`). Everything an attempt does otherwise changes only what it knows
itself (`Quiet`), which keeps the proof to the few actions that touch the trail or the log.

*The pages.* A behaviour is of one page, so `PagesInv` is one invariant per page (`AdmittedInv`,
`AuthInv`, `TasksInv`, `SetupInv`, `DeskInv`, ...), each under the condition that the
behaviour is of it, and a step need only keep the one. What they add to the properties is mostly
about answers that are still on their way: `OneSubmission` (of what a dialog submits one call is at
work, and while it is the dialog is busy and reads nothing), `DoubtIsShown` and `DoubtBlocks` (what
became uncertain stays so until it has been looked at, by a page that is blocked or by one that has
shown no rows since), `RequestsOK` (what was asked for carries
the revision that the person saw) and `HandoffTravels` (a value handed to the next page is in one
place only). An answer that is too late finds its call gone or marked, which is where the pages
differ and what each lemma is about. `LooksBeforeRepeating` and `ActsOnWhatIsShown` follow for each
step from what holds before it.

What the person is at needs more (`KeepsInv`, again one part a page). `SecretInv`: a credential on
display is on the tokens' page, where nothing else that ends with one can be asked for. `SavesInv`:
at most one save is waited for, and while it is, what is edited is what it saves, so that its answer
may close the editor. `BoardInv`: a save that was carried out left what it saved, the hidden parts
put back, in the version its mutation id is recorded with, so a retry that finds it loses nothing.
`DockInv`: only the last question put to a view may still count, and it is about the view that is
visible. `EditorInv`: presets have ids of their own and one is active, so that a pin is found
again in the preset it was in; the lemmas on moving, adding and removing a tile (`OrderMoved`,
`OrderMore`, `OrderLess`) say that the unseen pins keep their order wherever the tile comes from.

`PagesAssumptions` says that `None` is none of the values that stand where it may, that there are
finitely many destinations and mutation ids, and that no instance of a widget is called like one of
the dialogs' other questions, which the model keeps in one variable and the code does not.

The assumptions are those the modules state by `ASSUME`; each is evaluated by the runs
of its module. Modules that a disjoint sum instantiates state theirs as definitions, which
the module of the sum assumes.

Only model-checked: every liveness property (fairness and ENABLED are beyond the
prover; `EveryAttemptSettles` of the repositories is one), `LockMovesOn`
(its statement is about what is ENABLED), `StaysWhole` (filters are trees of any depth, and what
recursion computes for all of them needs induction over data).

## 6. Disagreements with the documentation

*A refused retry runs a text twice* (`agent_conversation_refused_retry`). After a submission
with an unknown outcome the tab keeps the text and the key, and offers to retry. When that
retry is answered with a status below 500 (a lapsed session, a rate limit), `conversation.ts:396`
takes the submission for refused and forgets the key; but only the retry was refused, and
the first copy may have run or may yet. The text stays in the composer, and Send gives it a
new key. `packages/agent-console/README.md:147` says that unknown outcomes retain the key, and the
message at `conversation.ts:407` that no second copy must be submitted.

*A closed dialog stops the task list* (`task_page_refresh`). Closing the dialog of a job while
that job is being read (`console-tasks/src/react.tsx:467`) moves the version of the read on, so
the read, when it ends, does not lower `detailLoading` (`:112`); `refresh` (`:120`) returns early
while it is up, so the list is not read again until another job is opened.
`packages/console-tasks/README.md:4` says that reads refresh every three seconds while the page is
visible.

*A lock on repeated writes ends with its page.* The comment on `useWrites`
(`administration-pages.tsx:509`) says that a failed write locks out repetition until an explicit
reload. The lock is React state of the page below `Frame`, which unmounts the page when the
permissions, read again after the failure, fail as well (`ReadState`, `:168`) and builds another
one when they have changed (the key at `:242`); leaving the page drops it too. The next page is not
locked, and nobody need have asked it to reload. It has no run of its own: `AdministrationPages`
behaves like this, the history `doubt` outlives the page, and `LooksBeforeRepeating` says what is
left of the promise. On the page of the failed write nothing is sent before the reload; on a
later page memberships, identities and sessions are written to only after rows that were read
since. A role saved from older rows is refused by its revision when they have changed; a token
issued again is a second token.

Observations that contradict no document:

- A retry of an audited save whose success is recorded is told by the replay
  (`server-audit.ts:219`), which asks for the caller's present rights to read and to write. Who
  lost them in between is told that access is denied, of a save that was carried out.
  `ToldWhatIsRecorded` says whom this can happen to.
- A sign-in by redirect (`browser-admission.ts:511`) changes the cookie of every tab with neither
  the lock nor a message. Another tab that is admitted goes on showing what its own subject read,
  and learns of the change by its next request, whose answer is under another scope:
  `PageShowsItsOwn` holds through it, `StaleIsTold` excepts it by the history `missed`.
- Without a session status (`discovery.session.status` is optional, `authentication.ts:16`) a
  renewal is not checked under the lock (`browser-admission.ts:385`), so two tabs may both renew;
  `RenewsWhenDue` speaks of servers with one.
- A login or logout whose answer is lost is announced by the channel but not by the storage
  (`browser-admission.ts:415`), so a tab without a BroadcastChannel is not told of it.
- The answer to Stop is put on the screen as it is (`conversation.ts:436`). When it was formed
  while the run was still running and arrives after the watcher has shown the end, the tab
  shows the run as running, the watcher is over, and nothing reads the session again. The
  same happens by the answer of a submission, which also clears the offer to reconnect (`:386`,
  `:389`). `EndedIsShown` excepts exactly these cases, by the history variable `late`.
- Closing the service calls `return` on every stream, so a later `next` answers that the
  stream is done rather than failing with the abort.
- A context bar that is rendered with another identity but the same measured box while it is
  travelling stops its travel and starts none (`console-context-bar.tsx:116`, `:190`, `:206`): its
  content stays inert until something is measured anew. `ConsoleDock` has this behaviour, and
  `RestsWhole` speaks of bars at rest.
- `createConsoleModel` does not check that the tabs of a group share their parameters, so
  the address of a tab whose pattern has one that the present address lacks cannot be made,
  outside `PageBoundary`.
- A destination that is hidden while its tile is being dragged is still moved by what the
  pointer passes (`console-navigation-editor.tsx:359` works on all pins, and the gesture keeps
  the id), so a pin that nobody sees changes its place among the others. `HiddenPinsStay`, which
  says that hidden pins keep their order, excepts the one in hand; the attempt to prove it
  without that exception found this, and a run with two such destinations shows it.
- After an unknown outcome the dialog of a connected application offers "Revoke connection"
  again, and a consent may be decided again; both are repeated on what the server then says,
  and `LooksBeforeRevoking` is about sessions.

## 7. What is not modelled, and the plan

Not modelled, because nothing in it depends on the order of steps: the page compiler, code
generation, schemas and transport (pure translations of one request or answer), the dashboard
authorization adapter (one question, one answer), styling, geometry and dragging with the
pointer (`pointer-grid-layout.tsx`), the thin clients of the task and audit services (they validate one
answer), the assembly of examples, and build and release tooling. Modelled only by their
failures: the audit, key, scheduler and database services behind their interfaces.

Left out of modelled components: the operator preset, paging and filters of administration;
the browser binding of `admission.ts`; sign-in forms; route parameters; the composition of
layouts.

Worth having next, in this order:

1. A proof of `StaysWhole` without its trees.
2. `BrowserIdentity` under fairness: every tab that can hear follows the cookie or is signed
   out, given that the person or the timer revalidates.
3. The audited store over `DashboardD1` instead of `DashboardLog`, to see a late batch through
   both wrappers.
