# SurfGate: TLA+ specifications

SurfGate is a control plane for remote browsers. This directory holds TLA+
models of it, TLC configurations that check them on small instances, and TLAPS
proofs of the main safety properties for instances of every size. It covers the
session control plane, managed tasks and their workers, the CDP relay and its
message pump, routing and fallback, the Cloudflare provider, and the migration
job.

## 1. Inventory of the system

| Part | State | Operations | Hard behaviour |
|---|---|---|---|
| Session state machine (`apps/api/src/domain/session.ts`) | row: status, version, selected runtime, protected provider reference | nine transition events | terminal statuses, repeated termination requests |
| Session persistence (`database/postgres-session-repository.ts`, `postgres-allocation-attempt-repository.ts`) | tables `sessions`, `session_allocation_attempts` | insert, compare-and-set transition, start/complete attempt, scan for candidates | callers act on copies that are stale when used |
| Create coordinator (`postgres-session-create-coordinator.ts`) | table `session_create_idempotency` | claim, wait, complete | races on key and quota, lost owners |
| Session service (`services/session-service.ts`) | none of its own | create, terminate, get, issueRelayToken | every awaited call may fail; a provider may create a browser and lose the answer; rollback of a half-finished allocation |
| Reconciler (`reconciliation/session-reconciler.ts`) | none of its own | one batch of candidates | runs concurrently with the requests it cleans up after |
| Managed tasks (`packages/task-core`, `packages/task-postgres`, `apps/worker`, `packages/object-storage`) | task rows with claim token and lease, artifacts, objects | create, claim, transition, execute, upload, complete | expired leases, two workers on one task, objects without rows |
| Relay (`apps/relay`) | Redis controller lease and revocation keys, open connections | upgrade, renew, authorize, close, drain | revocation during an upgrade, lease lost while forwarding |
| Message pump (`apps/relay/src/message-pump.ts`) | queue, byte count, flags | enqueue, drain, close | back pressure, close during a send |
| Router and fallback policy (`packages/router`) | none | eligibility, scoring, decision, fallback steps | pure functions with many cases |
| Providers (`packages/provider-*`) | provider sessions | allocate, terminate, health | joined and repeated terminations |
| Migration job (`database/migrate.ts`) | advisory lock, ledger, schema | lock, ordinary and online-index migrations | crash between an effect and its record, lock lost while working |
| The rest (HTTP, authentication, configuration, observability, contracts, security helpers) | none, or operator tools | | I/O, schemas, cryptography |

Interactions: create, delete and the reconciler meet only in the database rows
and at the provider. Delete also writes a revocation that the relay reads.
Workers and relays read session rows to find the browser of a session. The
service routes with the pure functions of `packages/router` and allocates and
terminates through a provider object. The migration job meets the services
only in the ledger, which their readiness probes read.

What should hold: a browser that was received is never forgotten; a session
reported terminated has no browser; one idempotency key stands for one
allocation; the quotas hold; a 201 is durable; interrupted work is finished;
one worker and one controller at a time use a browser; a task ends, and the
artifact it reports exists; messages arrive in order within a memory bound;
routing respects its hard constraints; the migration ledger tells the truth.

## 2. Modules

| Module | Models |
|---|---|
| `SessionStates` | statuses, events and `applySessionTransition` as operators |
| `SessionControl` | the control plane of one tenant: create requests, delete requests, reconciliation jobs, tables and provider; all properties |
| `SessionPromise` | the abstract life of a session: opened, bound once, closed only after release |
| `SessionControlInv` | the inductive invariant `HandlerKnowledge`, with `SettledInv` and `CleanInv` |
| `MCSessionControl` | symmetry for TLC |
| `SessionControlSteps` | proofs that types are preserved, of what a step of one handler may do to the others, and about the steps of create and its rollback |
| `SessionControlProofs` | the inductive invariance theorem, the safety theorems, and that `SessionControl` implements `SessionPromise` |
| `TaskStates` | task statuses, events, `applyTaskTransition` and what `claimNext` may claim |
| `TaskQueue` | create requests, the queue, workers and object storage, for one tenant |
| `TaskPromise` | what tasks promise: one final verdict, and a result that names a stored object |
| `TaskQueueProofs` | the theorems on tasks, and that `TaskQueue` implements `TaskPromise` |
| `RelayControl` | connections to one session at several relays, Redis and the session row |
| `RelayControlProofs` | the theorems on the lease, on stale pairs and on draining |
| `MessagePump`, `BoundedChannel` | one direction of a pair, and the abstract channel it implements |
| `MessagePumpProofs` | the theorems on the pump |
| `FallbackPolicy` | the fallback state machine of `packages/router/src/fallback.ts` |
| `Router` | inputs, candidates, eligibility, scoring, ranking, the decision and its schema, as operators |
| `Routing` | one call of `routeBrowserRuntime` as a step, the fallback state machine, and their properties |
| `Allocation` | `#allocateWithFallback`: routing sources, router, attempts and row, composed from `Router` and `FallbackPolicy` |
| `RoutingProofs` | the theorems on the router, the state machine and the service, and that the service implements the state machine |
| `CloudflareProvider` | concurrent `terminate` and `allocate` calls of one provider object |
| `CloudflareProviderProofs` | the theorems on the provider |
| `Migrations` | runs of the migration job, their lock, the ledger and the schema |
| `MigrationsProofs` | the theorems on the ledger and on repeated runs |
| `MCTaskQueue`, `MCRelayControl`, `MCCloudflare`, `MCMigrations` | instances for TLC: symmetry, constants |
| `MCRouting` | the instance of `Routing` and `Allocation`, with the inputs that are enumerated |

### How `SessionControl` corresponds to the code

`rows`, `claims` and `attempts` are the three tables; `provider` is what the
provider runs for each session and attempt ("lost": created, but its identity
never reached the control plane); `revoked` is the Redis revocation set. Each
handler has a position (`cpc`, `tpc`, `rpc`) and the copy of the row it holds
(`csess`, `tsess`, `rsess`).

* Every awaited call with an effect is one action, so any other handler may run
  between two calls. `transitionSessionForTenant` is a compare-and-set and one
  step: `Committed`, `Returned` (a repeated termination request) or `Refused`.
* A create request generates its own session identifier and owner token, so
  the request, its session and its token share a name.
* `Reserve`, `RefuseQuota` and `ReadExisting` are the one transaction of `claim`,
  which holds the tenant's advisory lock: that count and insert exclude each
  other is the database's and not checked here.
* A failing call is `Throw`, with `OnThrow` giving the place where the code's
  nested try blocks continue. A call that takes effect and then fails is the
  effect followed by `Throw` at the next position; only `RecordSuccess` needs
  the case spelled out, because the next position lies outside its try block.
* Allocation errors of the provider cost nothing from the failure budget.
* Routing is abstract: any candidate, or none; a fallback, or none.
* Audit events, the stored routing decision and telemetry have no variable;
  their failure is `Throw`.
* Time is abstract. A row may be stale, expired or past its lease at any
  moment. An event older than its row is rejected by the code, which looks to
  the caller like a failed query and is `Throw`.
* The reconciler's batch is a sequence of single candidates. The code scans a
  batch once and holds all its copies; a batch then acts like several jobs that
  hold one copy each, which the theorems cover (any set of jobs) and the runs,
  with one job, cover for one copy at a time.
* The event `expire` exists in the state machine and no caller issues it.

### `TaskStates`, `TaskQueue`, `TaskPromise`

`rows`, `idem` and `artifacts` are the tables, `objects` the object storage.
A worker (`wpc`, `hold`) goes through the awaited calls of `runOnce`; a caller
(`apc`) through those of `TaskService.create`.

* A transaction is one step, except `claimNext`: `ClaimStart` reads the clock
  and fails exhausted rows, `ClaimFinish` runs under the tenant's lock with the
  clock it read earlier (`wage` is its age). A row that moved in between is
  younger than the event, `applyTaskTransition` throws, and the worker exits.
* Time runs in ticks, and rows hold the remaining time of a lease or a retry.
  Those are data; only the execution deadline and the duration of a claim
  (`ClaimDelay`) stop the clock until they are handled.
* `TaskQueueAssumption` is the check of `packages/config` that a lease is at
  least 15 s longer than an execution. The code bounds single statements and
  not the claim as a whole; that a claim takes less than those 15 s is an
  assumption, and `ExecutionCovered` needs it.
* The lookup of the session is two steps: `FindSession` reads the row and its
  remaining lifetime, `Start` gets the answer, at most `QueryDelay` later (the
  pool's `query_timeout`), and arms the timer with what was read. A session may
  therefore be over for that long before its execution stops.
* A call whose acknowledgement is lost takes effect and then fails. Crashes,
  shutdowns and storage outages draw on `MaxFaults`.
* `Restart` is the supervisor of `operations/deployment.md`: the process exits
  on an error of `claimNext` and counts on being started again.
* `maxRunning`, the quota of running tasks, is a variable that never changes,
  so that one run covers several configured values.
* The event `cancel` has no caller. Retention of artifacts is not modelled.

### `RelayControl`

One action per awaited call of the upgrade handler, of the periodic check and
of `close()`; the synchronous code between two calls is one step with the call
before it.

* The lease is taken in two steps: `Acquire` is the `SET NX PX` at Redis, from
  which the lease runs, and `AcquireAnswered` its answer, at most `CallDelay`
  later; `AcquireUnanswered` is the answer that never comes.
* `lease` is the controller key with its remaining time, `revoked` the
  revocation key, `msgs` the published messages, which may be lost.
* `active` is the map from session to registered connection of each relay.
* An authorization may be refused at any time without costing a fault: besides
  the row, it checks a token that lives at most five minutes. The periodic
  check verifies the token as well, so a connection ends when its token does.
* The behaviour of `ws` (a callback that never comes when the socket is gone,
  a close handshake that takes time) is external, taken from how the code
  uses it.
* `OneController` is a property of behaviours in which no lease runs out under
  an upgrade or a pair. That takes a lease longer than the connect timeout, the
  check interval and three calls; `validateConfig` bounds each setting by itself
  and does not demand it: see the proofs and the disagreements.

### `MessagePump`

Each method and callback of one `MessagePump` is an action, with the
link (`closeBoth` of the relay) that closes it. Messages are numbered and
stamped with the bytes accepted up to them; `inBytes` and `outBytes` are
history. `send` completes later, or fails, also after `close()`.

### `Router`, `Routing`, `FallbackPolicy`, `Allocation`

`Router` computes scores in exact thousandths of integers. `WellFormed` is what
`RoutingInputSchema` accepts: at least one source, identities that differ, and
signals of known candidates. The code's limits on the length of lists and on
durations in milliseconds are left out, runtimes are the two the repository
has, and a candidate's identity is provider, runtime and region.
`InOrder` is `toSorted` under a total order and `Kept` what a loop with a
`continue` keeps; both are written without recursion, by counting.
`DecisionIsValid` is the refinement of `RoutingDecisionSchema`, which recomputes
the decision's ranking and explanation from its parts. In `Allocation` every probe and attempt may
have any outcome, and before every attempt the target is validated again and may
be refused (`TargetRefused`), which fails the session without an attempt and
without a fallback. The service does not call the state machine of
`FallbackPolicy`; `PolicyImplemented` shows that it implements it. The machine
has no event for a refused target: there the service leaves it, at the route
whose attempt does not start.

### `CloudflareProvider`

A call has a position, the time left and at most one HTTP request (`op`). The
network is adversarial: a request is acted on or lost, its answer arrives, is
garbled or never arrives. `inFlight` is the map of shared terminations,
`recent` the bounded cache with expiry. Calls of an unconfigured provider and
references of other providers are refused without effect and left out.

### `Migrations`

Each execution of the job is a run with a process position (`pc`, `pos`), a
dedicated connection (`conn`) and the statement the database is executing for
it (`stmt`). A migration is a number and its content a version, which stands for
text and checksum.

* An ordinary migration and its ledger row are one transaction on a pool
  connection: one statement, `commit`. An online index is four statements on the
  connection that holds the advisory lock.
* `CREATE` and `DROP INDEX CONCURRENTLY` leave an invalid index from their first
  internal transaction to their last.
* A process may die while its statement goes on. A statement on the dedicated
  connection keeps the lock until it ends; a transaction does not, and may
  commit after the next run has the lock.
* The dedicated connection may break unnoticed, which frees the lock while the
  process works on another connection: runs then overlap.
* `clean` is a history variable: no fault struck during the run, and nothing left
  over from an earlier one was still acting when it started.

## 3. Runs

| Run | Instance | Checks |
|---|---|---|
| `session_life` | 1 create, 1 delete, 1 reconciler, 2 failures, fair reconciler | `TerminatedMeansReleased`, `ReceivedAccounted`; `PromiseKept`: the rows implement `SessionPromise`; `UnfinishedSettles`, `FailedClaimsSettle` |
| `create` | 2 creates, 1 reconciler, 2 keys, 2 request hashes, quota 1, 1 failure | `QuotaRespected`, `SingleAllocation`, `OneBrowserPerSession`, `CreatedIsDurable`, `FailedCreateIsClean` |
| `task_attempts` | 2 workers, 1 task of either kind, lease 4, execution 2, 2 attempts, queries of up to 1 tick, 2 failures, fair workers | `ArtifactStored`, `ExecutionCovered`, `OwnerDecides`; `PromiseKept`: the rows implement `TaskPromise`; `TasksFinish` |
| `task_admission` | 2 workers, 2 creates, 2 sessions, 2 keys, 2 bodies, 1 or 2 tasks may run, 1 create per minute | `QuotasRespected` (running tasks and creates per minute), `OneBrowserUser`, `AnswersAgree` |
| `relay_control` | 3 connections, 2 relays, lease 3 | `OneController`, `DrainingClosesAll`, `OpenIsRegistered`, `LeaseAccounted` |
| `relay_faults` | 2 connections, 1 relay, lease 2, 1 failure, 1 loss of Redis's data, fair handlers | `StalePairsClose` (ended sessions and lost leases), `EndedSettles` |
| `pump` | 6 messages of 0 to 3 bytes, limits 2 and 3, fair sends | `BytesBounded`, `ChannelKept`, `SourceResumes` |
| `routing` | 282,528 router inputs; 4 candidates and every event of the state machine; all requests over 4 capabilities with all outcomes | `HardConstraints`, `DecisionIsValid`, `OrderIndependent`; `StateParses`; `AttemptFits`, `PolicyImplemented` |
| `provider` | 3 calls, 2 browsers, cache of 1 | `OneDeleteInFlight`, `TerminatedIsGone`, `OwnInterruptionOnly`, `DeadlinesKept` |
| `migrations` | 2 runs of a release with four files, 1 of an older one with an edited file, 2 faults | `LedgerTruthful`, `ReadyMeansMigrated`, `RerunSucceeds` |

The type invariants `TypeOK` hold on the same instances and are not part of the
standing configurations; those of `SessionControl` and `MessagePump` are proved.
So are `HandlerKnowledge`, `FailedUnreferenced`, `CleanInv`, `PumpInv` and
`ServiceInv`, which TLC accepts on the instances of `session_life`, `create`,
`pump` and `routing`.

Bounds. Handlers interact through one session at a time, and through claims and
quota pairwise: a delete against a create and a reconciler, and two creates
against one quota slot, produce the pairwise races; two deletes meet in
`delete_twice`, and the theorems cover any number. `MaxFaults` bounds the
failures of calls and processes in one behaviour; two of them already combine
a crash with a failed clean-up. Row versions need no bound, because every
accepted event moves a session forward in its life. Where a cfg turns the
deadlock check off, the system may rest: requests, router inputs, calls and runs
of the job are finite in number. Symmetry is used in safety runs only.

Tasks: two workers on one task are the stale and the new owner
(`task_attempts`), two tasks of a session the contenders for its browser
(`task_admission`, which has no failures and one attempt per task; a row that
moves under a waiting claim occurs there, and not with the one task of
`task_attempts`, which checks liveness); that the unique index refuses a claim
takes two tasks of a session and two attempts, when the expired row is skipped
because its holder is committing: neither run has both, the proofs cover it, and
TLC accepts the properties of `task_admission` with two attempts where there is
one session, one body and a running quota of two; two attempts
distinguish retry from final failure. A lease of 3 or 4 ticks leaves room for a
claim, an execution and expiry. The queue quota is the other half of the
condition that `QuotasRespected` exercises and has no property of its own. Relay: a
third connection can acquire the lease between the expiry of the first and the
late release of the second; faults are explored with two connections. In both
runs `CallDelay` is 0: other processes act between a command and its answer, but
no time passes, which is left to the proofs. (With two connections, one relay
and `CallDelay`, `ConnectTimeout` and `CheckInterval` of 1, TLC accepts
`OneController` for a lease of 6 and refutes it for 5, so that the bound of
`LeaseOutlasts` is exact there.) Pump: with limits 2 and 3 every case of the size
checks occurs, and six messages fill, drain and refill the queue. Router: inputs
vary one group of constraints at a time around two or three candidates (259,200
for eligibility, 23,328 for ranking); the capability sets have four members, one
of each kind the code treats differently. Provider: three calls are a leader and
two joiners that start over. A cache of one entry makes eviction happen.
Migrations: two ordinary files and two indexes alternate, so that each kind
precedes and follows the other; a third run meets what two others left behind.

Fairness. The reconciliation job is a scheduled one-shot process
(`apps/api/src/reconcile.ts`), so a job that picked up a candidate goes on
(`WF` of `Work`) and every candidate is picked up again and again (`SF` of
`FindCandidate`). The second needs the candidates to fit in a batch, since a
batch takes the oldest first. No fairness is assumed of requests. Workers poll in
a loop, go on with an attempt and are restarted (`WF` of `Claim`, `Attempt`,
`Drained`, `Restart`), and storage outages end. Relay handlers and `close()` run
on, because every call they await has a timeout; nothing is assumed of clients
or of messages. Pump: `ws` completes every send, well or not. The provider needs
no fairness: `DeadlinesKept` bounds the answer by the caller's deadline, the
clock waiting only for timers that are due. The migration job is checked for
safety only; that a repeated job succeeds is the invariant `RerunSucceeds`.

### Disagreements between documentation and code

In two runs TLC refutes a documented statement.

| Run | Statement | What the code does |
|---|---|---|
| `delete_twice` | `docs/USER_GUIDE.md:49` "Deletion is idempotent." | Of two overlapping deletes, the slower can get the terminated row back from its termination request; completing it is then an invalid transition, not a conflict, and is answered with an error. |
| `relay_leak` | `apps/relay/test/load/relay-load.load.test.ts:27` "without leaked ownership" | When the client leaves while the upstream connects, `ws` never calls back; the upstream stays open and the lease held until it expires. |

The modules define further statements that TLC refutes on the instances named
here and that have no configuration of their own.

| Property | Statement | What the code does | Instance |
|---|---|---|---|
| `RetryReturnsSameResult` (`SessionControl`) | `operations/runbooks.md:38` "idempotent retry returns the same result" | The response is assembled after the claim is settled; if that fails, the owner gets an error and the session is rolled back, while a retry gets 201. | 2 creates, 1 key, 1 failure |
| `LeftoverIsReconcilable` (`SessionControl`) | `apps/api/src/services/session-service.ts:790` "a durable allocation attempt remains for reconciliation" | The attempt stays open, but the row becomes failed, and the scan considers open attempts of allocating rows only. | 1 create, 3 failures |
| `ClaimsSettle` (`SessionControl`, `FairHandlersSpec`) | `operations/runbooks.md:11` "reconciliation handles interrupted work" | A crash between activation and settling the claim leaves the claim in progress for ever. | 1 create, 1 reconciler, 1 failure |
| `NoArtifactWorkWhileDown` (`TaskQueue`) | `operations/failure-matrix.md:7` "Not ready; no new artifact-producing work" | The worker's loop does not consult readiness; it claims and executes screenshot and PDF tasks during the outage and loses them at the upload. | 1 worker, 1 task, 1 failure |
| `OneController` (`RelayControl`) | `docs/USER_GUIDE.md:61` "The v1 relay allows one active controller per session." | Lease, check interval and connect timeout are configured independently; with a lease shorter than the interval two connections forward. | 2 connections, lease 1, check interval 3 |
| `DurationLimitApplied` (`Allocation`) | `docs/ROUTING.md:9` "Apply tenant provider/runtime policy and duration limits." | The registry does not pass a profile's duration limit to the router, which selects Kitesurf for sessions that provider refuses. It needs a duration quota above the default. | that of `routing` |
| `ValidationFailureKept` (`CloudflareProvider`) | `cloudflare-browser-run-provider.ts:520` "Keep the original validation failure." | When the clean-up uses up the allocation's budget, the validation failure becomes a timeout, which is eligible for fallback. | 1 call, clean-up timeout 1 |

## 4. Proofs

Every theorem holds for every value of the constants that the named assumption
of its module allows.

| Module | Theorem | States |
|---|---|---|
| `SessionControlProofs` | `Knowledge` | `Spec => [](TypeOK /\ HandlerKnowledge)` |
| | `TerminatedReleased`, `Accounted`, `FailedHasNoReference`, `OneBrowser`, `AllocatesOnce` | what follows from it: invariants of the runs `session_life` and `create`, and `FailedUnreferenced` |
| | `Quota` | `Spec => []QuotaRespected` |
| | `Durable` | `Spec => []CreatedIsDurable` |
| | `FailedIsClean` | `Spec => []FailedCreateIsClean` |
| | `PromiseIsKept` | `Spec => PromiseKept`: the control plane implements `SessionPromise` |
| `TaskQueueProofs` | `Invariant` | `Spec => []IInv` |
| | `ExecutionIsCovered`, `SingleBrowserUser`, `QuotasAreRespected`, `ArtifactIsStored`, `AnswersDoAgree` | the invariants of the runs `task_attempts` and `task_admission` |
| | `OwnerAloneDecides` | `Spec => OwnerDecides`, an action property |
| | `PromiseIsKept` | `Spec => PromiseKept`: the queue implements `TaskPromise` |
| `RelayControlProofs` | `Invariant` | `Spec => []BaseInv` |
| | `StaleIsBounded`, `LeaseIsAccounted` | `Spec => []StalePairsClose`, `Spec => []LeaseAccounted` |
| | `SingleController`, `OpenPairsAreRegistered`, `DrainClosesPairs` | `Spec /\ [][~Lapses]_vars => []P`, for `OneController`, `OpenIsRegistered`, `DrainingClosesAll` |
| | `LongLeaseLasts` | `Spec => [][flushes = 0 /\ Lapses => Flush]_vars` if `LeaseOutlasts` |
| `MessagePumpProofs` | `PumpBytes` | `Spec => [](PumpInv /\ BytesBounded)` |
| | `PumpImplementsChannel` | `Spec => ChannelKept`: the pump implements `BoundedChannel` |
| `CloudflareProviderProofs` | `Invariant` | `Spec => []IInv` |
| | `SingleDelete`, `ReportedGoneIsGone`, `InterruptionsAreOwn` | the invariants of the run `provider` |
| | `CallsMeetDeadlines` | `Spec => DeadlinesKept`, an action property |
| `MigrationsProofs` | `Invariant` | `Spec => []IInv` |
| | `LedgerIsTruthful`, `ReadyIsMigrated`, `CleanRunsSucceed` | the invariants of the run `migrations` |
| `RoutingProofs` | `ConstraintsAreHard`, `OrderHasNoInfluence`, `DecisionsAreValid` | `RouterSpec => []P` for `HardConstraints`, `OrderIndependent`, `DecisionIsValid` |
| | `FallbackStatesParse` | `FSM!Spec => []StateParses` |
| | `AttemptsFit` | `Spec => []AttemptFits` |
| | `PolicyIsImplemented` | `Spec => PolicyImplemented`: the service implements `FallbackPolicy` |

The inductive invariants were model-checked on the instances of the runs before
they were proved.

**Sessions.** Any set of delete requests, jobs, keys and request hashes, any
finite set of create requests, any quota and failure budget
(`SessionControlAssumption`). None of the safety properties is inductive: a
handler acts on a copy of a row that others have changed since.
`HandlerKnowledge` says, for each position of each handler, what survives such
interference. Its key part is `Known`: a copy is the current row or an older
version, and a reference once seen is still the row's reference. The proof is of
the rely-guarantee kind. `SessionControlSteps` shows that every step of any
handler only moves rows forward, never changes a reference, and never revives a
browser, and that what a handler knows is stable under such steps.
It shows with `SessionControlProofs` that each handler's own step re-establishes
its knowledge at the next position. `Quota` needs, beyond
the invariant, that only `Reserve` adds a session to the quota and does so by
one, from facts on cardinalities. `Durable` adds the invariant `SettledInv`,
that a settled claim stands on a successful attempt.

The refinement has one lemma per kind of effect: a reservation opens a session,
a compare-and-set binds, fails or closes it, the end of a browser releases it
(`CommitPromise`, `ReleasePromise`). What the mapping leaves open, whether the
browser of a closing session is gone, is what `HandlerKnowledge` says of the
position from which a termination is completed. `FailedIsClean` adds the
invariant `CleanInv`, which holds while nothing has failed: at each position of
the clean-up the row is the one the request read, or other processes have taken
it further towards its end (`Later`); so a compare-and-set of the clean-up is
refused only by a row that is where the request wanted it, and a browser still
running is one the row names.

**Tasks.** Any workers, requests, sessions and tasks, and any timeouts with
`LeaseTTL > ExecutionTimeout + ClaimDelay`, which is what `validateConfig`
enforces with `ClaimDelay` for the time a claim may wait for its advisory lock
(`TaskQueueAssumption`). That the worker which executes owns the row is not
inductive: a claim's lease is counted from a clock read before the lock was
waited for, and the row can be claimed again while its former worker still
uploads. `IInv` adds what ties a claim to its row. `HoldKept`: a worker's
attempt number is one its task has had, and no other worker holds the same one,
so that a stale worker can be told from the owner. `LockKept`: the rows an open
claim is about to fail stay as they were found, since nobody else may touch
them. `CoverKept`: lease and age of the claim together never fall below the
lease time until the execution's deadline is set. `ObjectKept`: the object of an
attempt is nobody's result before that attempt commits, so that a loser's
clean-up removes nothing a row names. `ExecutionCovered` bounds an execution by
its lease, and by the end of the session only up to `QueryDelay`, because the
lifetime it is armed with is as old as the query's answer. `OneRunning` is the unique index on the
running rows of a session. One lemma per action (`...Kept`) shows that it is
preserved. The frames (`RowFrame`, `LockFrame`, `LeaseFrame`, `ObjectFrame`,
`HoldFrame`) say how little a step of one worker may change under another;
`FrameKept` shows that what the others know survives it. The refinement follows
from the invariant: each action is an accept, a verdict, a store or discard of
an object, or a stutter of `TaskPromise`.

**Relay.** Any relays and connections, any timeouts and intervals
(`RelayControlAssumption`). `BaseInv` holds whatever happens to Redis: the clock
of every position is within its timeout, an open pair was authorized or checked
no longer ago than its clock says, and a lost lease is no older than its next
renewal. The three results on controllers have a hypothesis on the behaviour and
none on the configuration: no lease lapses (`Lapses`), that is, none runs out and
none is lost with Redis's data under an upgrade or a pair that counts on it.
They say that nothing else breaks exclusivity: no acquisition, renewal or late
release of another connection, no lost answer, drain or crash. `OwnedInv`, that
whoever is past the acquisition and not closing owns the key, is the invariant.
When a lease does lapse, two controllers may overlap until the first one's next
renewal, which `StaleIsBounded` bounds without any hypothesis. `LongLeaseLasts`
is the timing argument by itself. If `LeaseOutlasts`,
`LeaseTTL > ConnectTimeout + CheckInterval + 3 * CallDelay`, then as long as
Redis has kept its data no lease lapses by time: the three calls are the answer
to the acquisition, the second authorization and the renewal. `validateConfig`
does not enforce it. The defaults (15 s against 10 s and 2 s) satisfy it while
every call takes less than a second; a Redis command may take 5 s, and then they
do not. `HeldInv` is its invariant: the lease has enough time left to reach the
next renewal.

**Pump.** Any limits, any set of natural sizes and any number of messages.
`PumpInv` is inductive: the byte count is what was accepted and not yet handed
on (zero once closed), the stamps of the queued messages partition those bytes,
so that a completed send takes off exactly its share, and the messages in the
pump are numbered on from the last one received.

**Provider.** Any callers and browsers, any positive timeouts and cache size
(`CloudflareAssumption`). `IInv` ties each DELETE to the entry of
`#terminationInFlight` from the moment it is sent until it is settled, keeps a
browser unknown to every other caller until its POST is answered, makes every
response that says "gone" true from when it is sent by the service until it is
read, and bounds each request's timer by its caller's.

**Migrations.** Any directories, runs and faults (`MigrationsAssumption`,
`DirectoryAssumption`). That every release ships the first files of
one numbering, as many as there were, is "Append-only migrations" of
`operations/production-readiness.md:19`.
The lock alone does not carry the argument, because a
run whose connection broke goes on without it. `FileKnown` says what a run knows
about its current file only while it holds the lock; an overlapping run is
stopped by the primary key of the ledger and by transactions that record a
migration together with its effect. `OrderInv` (no gaps in the ledger, and a run
has passed only recorded files) gives readiness; `CleanInv` says that nothing
acts outside the lock while a run that no fault touched works.

**Routing.** Any well-formed input over any capabilities of the code's list
(`CapabilityAssumption`) and any number of sources; any candidates and events of
the state machine; any configured quota for the service (`DurationAssumption`).
No induction over sequences is needed. `InOrderLists` shows from facts on
cardinalities that `InOrder` lists a finite set, each element once, in a given
strict total order; `IDBefore` and `RankedBefore` are such orders on the
candidates of an input, and a list in a total order is determined by its set.
`OrderHasNoInfluence` follows, because a permutation of the sources leaves the
set of candidates as it is, and so does the part of `DecisionsAreValid` that
concerns positions; the rest of it is the range of scores, for which each part
is bounded and the weights sum to 100. `ConstraintsAreHard` compares the set of
rejection reasons with the constraints one by one. `StateParses` is not
inductive: `FallbackInv` adds that nothing is recorded of a failure or of a
fallback before an allocation has failed. `ServiceInv` says for each position of the service
which attempts exist and which candidate the row names; the decision in it is
the router's, so the capabilities of a candidate come from `Eligible`. For the
refinement, `Seen` gives the state of the machine at each position, and one
lemma per action (`...Moves`) shows the event that leads from one to the next;
a refused target is a stutter (`RefuseMoves`).

Only model-checked:

* Liveness (`UnfinishedSettles`, `FailedClaimsSettle`, `TasksFinish`,
  `EndedSettles`, `SourceResumes`): fairness and `ENABLED` are outside the
  prover's reach. Every other property of the passing runs is proved, with the
  hypothesis named above for the relay.
* The statements of section 3 that the code does not meet: counterexamples.

## 5. Not modelled

* Several tenants: all keys, rows and locks are per tenant. One session per
  relay model: the relay's map and keys are per session.
* Reads without effect: `get` and `issueRelayToken`, listing tasks and artifacts.
* The batch limit, exit status and counters of the reconciliation job, the rate
  limiter's counters, the restore drill.
* The CDP commands of a task (navigation, extraction): one step with an
  outcome and a deadline.
* The SQL of the migrations: a version per file.
* HTTP parsing, authentication, schemas, object storage signing, telemetry and
  the security helpers: I/O, cryptography, or functions of one value.
* A composition of `CloudflareProvider` with `SessionControl`. The session plane
  uses a weaker provider (any call may fail at any time, before or after its
  effect), whose only promise is the one `TerminatedIsGone` establishes.
