# TLA+ models of InferCrane

InferCrane is a release and serving system for open-weight inference: a control
plane that turns deployment requests into durable operations, a gateway that
answers OpenAI-compatible requests, and a managed offering that charges a prepaid
wallet. It runs as any number of identical Go processes over one PostgreSQL
database. Nothing else coordinates them: correctness rests on leases with a
fencing generation or token, conditional `UPDATE`s, unique indexes, and in-memory
pools that each replica refreshes on its own.

This directory models the parts where that is hard, checks them with TLC on small
instances, and proves the main safety properties with TLAPS for every value of the
constants. Paths below are relative to the repository (`src/` in `PROJECT.json`).

Contents: [1 inventory](#1-inventory), [2 modules](#2-modules-and-the-code-they-model),
[3 runs](#3-runs), [4 fairness](#4-fairness), [5 proofs](#5-proofs),
[6 findings](#6-where-the-code-and-its-documentation-disagree),
[7 limits](#7-what-is-not-modelled-and-what-is-not-proved), [8 plan](#8-plan).

## 1 Inventory

### Components with state and behaviour

| Component | State | Operations | Talks to | What makes it correct |
|---|---|---|---|---|
| Operation queue `store/operation_queue.go`, `store/lifecycle.go` | `operations`, `operation_steps`, `operation_events` | enqueue (lookup, insert, second lookup), claim, start, heartbeat, checkpoint, complete, fail, cancel | control API, workers | one executor per generation; a key names one operation; one unresolved operation per deployment; resolutions are final |
| Operation worker `operations/worker.go` | what one call of `Once` remembers; a heartbeat goroutine | `Once`, `finish`, `cancel`, `maintainLease` | queue, handlers | success only from the generation that earned it; cancellation takes precedence; bounded attempts; everything is resolved |
| Funding intents `store/funding_intents.go`, `controlapi/billing.go` | `managed_funding_intents`; the payment provider's idempotency keys | prepare, create session, complete, release lease | payment provider, wallet | every URL handed out is the one recorded session |
| Managed wallet `store/managed_billing.go`, `store/sandbox_billing.go`, `store/managed_spend.go` | `managed_wallets`, ledger, payment events, refunds, holds | credit, payment event, refund, reserve, activate, settle, release | payment webhooks, gateway, sandboxes, deployments | balance, debt and ledger agree; money is credited once; money owed cannot be spent; a hold is closed once |
| Endpoint admission `admission/pool.go` | per endpoint: active, waiting, a broadcast channel | `Acquire`, release, `Replace` | gateway | no slot leaks, no lost wakeup, limits hold, queued callers are answered |
| Request quota `requestquota/pool.go`, `store/quota.go` | a reservation row per minute; tokens per replica | `Authorize`, `Refresh`, refill | gateway, operators | leases never exceed reservations; a minute's reservations never exceed its limit |
| Asynchronous inference `asyncinference/service.go`, `store/async_inference.go` | `async_inference_jobs` | submit, claim, heartbeat, complete, fail, cancel, expire, webhook | gateway, tenants' webhooks | the stored result is the last claimant's; jobs end once, and do end; webhooks carry committed results |
| Gateway request path `gateway/gateway.go` | one request's holds | admit, authorise, forward, settle | admission, quota, wallet, external budget, routes | whatever was taken is given back or settled, once |
| Route directory and reconciler `routes/`, `reconcile/` | published, pinned and retired routes; router processes | put, withdraw, compile and publish endpoints, acquire, retire, reap | gateway, runtime, delete workflow | a router is not stopped under a request, none is forgotten, healthy workers are served, deletions finish |
| External budget and overflow `external/`, `overflow/`, `store/external_policies.go` | the policy row, leases per process, hysteresis | resolve, lease, prefetch, authorise, evaluate | store, gateway | the hard budget is never exceeded; traffic comes home only after calm; a dry pool refills |
| Managed sandboxes `managedsandbox/`, `controlapi/native_sandboxes.go`, `store/native_sandboxes.go`, `store/sandbox_billing.go` | sandbox rows, holds, provider workspaces and sandboxes | create, pause, resume, delete, observe, clean up, settle | provider, wallet | an interval is metered once; a hold is closed after cleanup, and is closed |
| Cloud workflows `workflows/`, `store/replicas.go` | replica rows, provider instances | converge, provision, drain, delete | operation worker, clouds | replay adopts what exists; drain precedes deletion; no instance without a row |
| Endpoints, revisions, Release Guard `store/revisions.go`, `store/release_guard.go`, `store/release_monitor.go` | revisions, candidates, evaluations, monitors | create, provision, evaluate, promote, reject, roll back | reconciler, operations | one active revision; a promotion deletes only what is no longer routed |
| Autoscaling `autoscale/`, `store/autoscaling.go` | decisions, counters, the newest scale operation | observe, decide, enqueue | operations, reconciler | converged means exactly the fleet asked for |
| Optimization campaigns `optimizationcampaign/`, `store/optimization_campaigns.go` | campaign and candidate rows, child operations | approve, execute, rank, activate, cancel, clean up | operations, endpoints | one measured winner; a promoted deployment is never deleted; what is cancelled is cleaned up |
| Hosted Model APIs `modelapirouting/`, `store/model_api_*.go`, `reconcile/model_api_usage.go` | rate cards, grants, the published route, usage reservations | publish rates, accept, reserve, send, settle, reconcile | wallet, suppliers | the customer pays what was served at the agreed price, and every open reservation with evidence is closed |

### Components without behaviour to model

Specification, planning, scoring and evidence packages are pure functions from
documents to documents. Provisioners, supplier and sandbox adapters are HTTP
clients. The control API decodes, authorises and calls one store method, except the
checkout handler, which `FundingIntent` models. Telemetry is written and not read
back. The command line, the SDKs and the build files are front ends. `PROJECT.json`
lists all 28 components with the reason for each one left out.

### What is hard here

* *Interleaving*: replicas race on rows; worker, heartbeat goroutine and client
  race on one operation; a waiter races with the release it waits for.
* *Leases that run out under a live owner*: the late owner must find itself fenced.
* *Crashes and lost answers* after a commit, after a provider call, between claim and
  read-back.
* *Redelivery and reordering* of payment events and cumulative refunds.
* *Timeouts*: queue timers, job deadlines, retry backoff, a heartbeat tick that
  comes after the work it protects.
* *Two mechanisms that close the same thing*: request path and reconciler, customer
  and sweeper, cancellation and activation.
* *State read under one lock or statement and used after it*: routes that are reaped,
  replica counts an autoscaler has read, a contract a publisher has copied.
* *Handlers that start again*: converge, promote and cleanup are retried from their
  first call and must find what the last attempt left.
* *Limits*: the last attempt, a full queue, an exhausted or lowered quota, a wallet
  at its `CHECK` constraints.

Each is a hazard in `PROJECT.json`, at its line, with the properties aimed at it.

## 2 Modules and the code they model

| Module | Kind |
|---|---|
| `OperationLifecycle` | abstract specification: what clients of operations may rely on |
| `OperationQueue` | the table: one operator per SQL statement, and the enqueue calls |
| `OperationWorker` | composes the queue with workers, handlers, crashes and clocks |
| `FundingIntent`, `AdmissionPool`, `RequestQuota`, `AsyncInference` | one component each |
| `GatewayRequest` | a request's way through the gateway's handler, over admission, quota, wallet hold and budget |
| `WalletArithmetic` | the operations on a wallet's three amounts, shared by `ManagedWallet`, `HostedUsage` and `GatewayRequest` |
| `Tally` | sums over finite sets, in a form the prover can use |
| `ManagedWallet` | the wallet, its ledger, payments, refunds and holds |
| `HostedUsage` | a hosted Model API request from the price to the settlement |
| `Overflow` | the overflow engine as operators, shared by `RouteDirectory` and `ExternalBudget` |
| `RouteDirectory` | what each operation does to the directory's maps under its lock |
| `RouteServing` | composes the directory with reconciler, endpoint refresh, requests and the delete workflow |
| `ExternalBudget` | policy, leases, prefetch and overflow of governed external capacity |
| `NativeSandbox` | one managed sandbox: row, hold, provider, three actors |
| `RevisionRollout` | revisions of a deployment, their handlers, the Release Guard, the provider |
| `CapacityScaling` | autoscaling controllers, the converge handler, the reconciler, the provider |
| `OptimizationCampaign` | a campaign, its candidates and the three operations that work on them |
| `MCOperationWorker`, `MCDeployments`, `MCAccounts`, `MCRequestFront`, `MCControlPlane`, `MCProvisioning` | the instances TLC checks |
| `AccountingProofs` | lemmas about sums and wallets that the other proofs share |
| `OperationWorkerProofs`, `PrepaidProofs`, `RequestFrontProofs`, `GatewayProofs`, `HostedUsageProofs`, `SupplyProofs`, `ControlPlaneProofs` | theorems (section 5) |

An `MC` module instantiates several components side by side. They share no state, so
a behaviour is about one of them, its `subject`, chosen by the initial state; the
others keep their initial state, and fairness is owed by the subject alone. What one
of these runs says about a component is what a run of that component alone would say.
The components that do share state (directory and reconciler, wallet and request,
queue and worker, controller and handler) are composed in one module.

A definition named `Mut…` is the form of the definition below it that a plausible
mistake in the code would give; no specification uses it. `PROJECT.json` pairs every
checked property with one of them, and TLC finds the property violated when it
replaces the original.

### Conventions

* A transaction or a single SQL statement is one step. Code between two database,
  network or handler calls belongs to the step before or after it.
* Wall-clock time appears only through what it decides. A lease is `live` or
  `expired` and a step makes it expire; a backoff is due or not; a deadline has
  passed or not. PostgreSQL's clock is the one the code compares leases with.
* A fault (crash, failed statement, answer lost after commit) is an action of its
  own, and a constant named `Max…Faults` or `MaxFailures` bounds their number.
* IDs, bodies, prompts and payloads are model values or small numbers. Results and
  sessions are named by the claim or call that produced them, so that a property
  can say whose they are.
* History variables record what the properties compare with and no action reads
  them: `journal`, `spentQuota`, `peak`, `latest`, `executed`, `bodies`, `calm`, `spent`,
  `bank`, the `late` requests of an attempt to delete, and the `agreed` price, `current` mark
  and `reached` count in a grant, a
  request and a scale operation.
* Every module has one type invariant, which states the shape of its state. Those of
  the modules with proofs are theorems.

### Operations

`ops[o]` is a row of `operations`, indexed by the call that would insert it: status,
`attempt`, lease owner and `lease_generation` (`gen`), whether the lease is live,
`cancel_requested`, whether `next_attempt_at` has come (`due`), progress.
`Claimable` is the `WHERE` clause of `ClaimOperation`, `LeaseTo` its `SET`; `Fenced`
is the predicate every claimed statement repeats (owner, generation, live lease);
`StartClaimed`, `CompleteClaimed`, `FailClaimed`, `CancelClaimed` and
`CancelRequested` are the statements. `EnqueueOperation` is three steps (`Lookup`,
`Insert`, `Relookup`), because each is a statement of its own and the races lie
between them.

`OperationWorker` follows `Worker.Once`: `Claim` commits, `ReadSnapshot` reads the
row back after the commit (another replica may own it by then), `Start`,
`HandlerReturns`, `Reread`, `Finish`, or `CleanupReturns` and `FinishCancel`.
`HeartbeatOperation` and `ObserveCancellation` are the `maintainLease` goroutine;
`HeartbeatFails` includes the tick in flight when the handler returns, whose
cancelled context makes the worker give up without a write. Handlers are abstract:
they checkpoint (`CheckpointClaimedOperation`) and return success, a retryable or a
permanent error. `Handled` and `Cleanable` say which operations have a handler and a
cancellation handler registered.

`OperationLifecycle` has two facts per operation, `phase` (absent, open or a
resolution) and `wanted` (cancellation asked for), and three actions: an operation
is accepted only while its deployment has no open one, a cancellation may be asked
for, an open operation is resolved once, and never as succeeded when cancellation
was wanted before. The mapping takes `phase` from the status and `wanted` from
`cancel_requested`.

### Funding intents

A call holds a token and the row's 30-second lease. `Prepare` is
`PrepareManagedFundingIntent` with its cases: a new row, a completed intent answered
again, a live lease (`checkout_in_progress`), an expired or released one taken over, and a
conflict on the amount. `CreateCheckoutSession` is the provider: it replays the
session it remembers for a key and mints one when it has forgotten (`KeyPruned`;
external). `Complete` and `CompleteFails` are the conditional update and its
failures, committed or not.

### Managed wallet

`wallet[t]` holds balance, reserved and debt; `posted[t]` is the sum of the tenant's
ledger amounts and `ledger` the set of unique identities in it. Operators such as
`ApplyManagedCredit`, `ReconcileManagedDebt`, `RefundedWallet`, `HeldWallet` and
`ChargedWallet` are the wallet arithmetic of the functions they are named after; actions
are the transactions. The three kinds of hold share `Reserve`, `Activate` and `Close`,
because the code repeats one pattern; their differences (what may be activated or
released, what a settlement without usage does) are separate actions. What a hold finally
costs is any value up to `MaxCost`, larger than every hold, so that overruns happen.

### Endpoint admission

An `endpointState` is a Go object: callers keep a pointer to it after the pool has dropped
it, so `Objects` are numbered, `current` is the one in the map, and each caller remembers
its own. Of the broadcast channel the model keeps who is `asleep` on it: a waiter falls
asleep at its `select` and the close-and-replace of a release wakes everybody at that
object (`WokenBy`). `Acquire` is one mutex section, each turn of the wait loop another,
and the `select` a third, in which wakeup, cancellation and timer race. A caller that was
served or cancelled returns and may call again, so that newcomers arrive without end; a
freed slot belongs to whoever locks the pool first (`pool.go:166`), a newcomer or a woken
waiter.

### Request quota

`reserved[m]` is the row of minute `m`, `quotaPool[r]` a replica's `tenantState` and the
progress of its goroutine: `LoadPolicies` and `Publish` (Refresh), `TickerFires` and
`TakeTick` (the channel keeps one tick), `Refill`, `ReserveQuota` and `Credit`.
`AuthorizeRequest` spends a token in memory. `Fraction` and
`MaxLease` are the lease-size constants 8 and 32.

### Gateway requests

`proxy[q]` is the position of the handler in `proxyInference` with the kind of route it
acquired (owned, external, or external at the expense of the wallet), its retries and the
usage it has read; `taken[q]` what it has taken of the shared resources (route, slot,
token, budget unit), `usageHold[q]` its hold in `account`, the tenant's wallet. Each early
return is one action: what the deferred calls give back is part of it. Only owned routes
are retried. The supplier bills what it likes, once, after the request was sent
(`SupplierBills`; external), and the handler reads that bill, or nothing. The operator's
two ways of closing a hold run beside it. Admission, quota and budget are modelled in
their own modules; here they grant or refuse.

### Asynchronous inference

A job row has status, attempt, lease token (the number of the claim), result (the
number of the claim whose answer it is), webhook status and tries. A worker's turn
is `ClaimAsyncInferenceJob`, `Execute`, `GatewayAnswers` or `ExecuteFails`,
`CompleteAsyncInferenceJob` or `FailAsyncInferenceJob`, `SendWebhook` and
`RecordAsyncWebhookAttempt`. `HeartbeatRefused` and `HeartbeatFails` cancel the
turn's context. Deadline, cancellation and expiry are actions of their own.

### Hosted Model APIs

`rates` are the published price versions, `entitlement` the customer's grant with the
version it is pinned to, `route` the version the gateway's directory has. A lower or
equal price moves existing grants along; a higher one leaves them pinned
(`RateDoesNotIncrease`). A request acquires a route, reserves the ceiling
(`ReserveModelAPIUsage` repeats the authorisation in its transaction), is marked
`transmitted` before the first byte is sent and `response_started` after, reads the
response and settles, or records evidence for the reconciler. `Send` decides what the
supplier charges, once. The reconciler lists a row, looks for evidence and applies it
in three steps. Crashes, failed statements and answers without usage are faults;
`GracePasses` is the ten-minute grace.

### Routes

A directory is a record (`items`, `endpoint`, `blocked`, `retired`, `health`) and every
operation of `routes.go` is an operator from directories to directories.
`RouteServing` splits a pass of `reconcile.Once` at each of them: reap, read the
deployments, one deployment after another, compile the endpoint, publish it. The
endpoint refresh of an API call compiles and publishes beside it; a request pins a
route, may put its own cold snapshot back (`InvalidateCold`, `gateway.go:358`) and
releases it. The delete workflow looks at the directory twice (`CheckFence`, first
`HasCurrentDeployment`, then `RetiringInFlight`) and deletes later (`DeleteCapacity`);
between these steps, where the code looks up its connection and provider, everybody else
moves, and the attempt may fail (`CleanupFails`). `cleanup[d].late` remembers which
requests acquired a route after the first check. The endpoint's
alias may be the name of a deployment, which is the default and the difficult case.
Which worker sets inspection finds is an input (`fleet`).

### External budget

`policy` is the persisted row with limits and reservations, `pool[g]` a process's
lease. A reconciler reads the budget, evaluates the overflow engine, resolves, and
leases when its pool is empty; `Authorize` spends and may start the background
prefetch, which leases and adds in separate steps. Operators change limits and price
under both; a restart loses what was leased.

### Managed sandboxes

Time is a small clock, because the meter is about intervals. Creator, customer and
sweeper are the three places from which the code touches a sandbox; each step is one
store transaction or one provider call on the copy of the row its actor has read.
`brezel` is the provider (external): it creates idempotently, deletes at once, in the
background or not at all, and expires.

### Revisions and rollouts

A deployment has one unresolved operation; its handler is a program counter with what this
attempt has read (`seen`, `healthy`, `names`). The actions are the store methods and
provider calls of `rollout.go` and `cloud.go` in their order, from `CreateCandidate` to
the drain and deletion of what was replaced, and the three cancellations. Beside it the
reconciler records router generations, requests end, the guard evaluates, its deadline
passes, the policy is edited, and instances boot, break and stop. A guard's decision is
free where the evidence could support either, and the policy may be disabled, which
accepts everything (`guard.go:32`). A failed bootstrap is deleted at the provider before
its row is (`ObserveInstance`, `MarkFailedReplicaDeleted`), and credentials, configuration
or a model that is not served may fail a provisioning for good at any time
(`ProvisionFailsForGood`). A behaviour begins with any of `FirstActives` active, the
revisions before it replaced in turn.

### Autoscaling

Controllers read the number of targets and decide later, on what may be stale, to move
by one within the bounds. The scale operation remembers the goal and the number of
rows there were; `converge` ensures ordinal after ordinal, applies the targets, marks
the surplus as draining, waits for the router generation, deletes and confirms one
machine after another. `Retry` sends the handler back to its beginning from any
point; a cancellation converges to the previous count. Stability windows and cooldown
are left open: concurrent controllers overwrite them (section 6), so that any decision
the bounds allow may come at any time.

### Optimization campaigns

The rows of a campaign and its candidates, the status of each candidate's child
operations, and three operations with their handlers. A handler loads the campaign,
lets the driver answer, makes one fenced transition and writes the summary in a
statement of its own (`StepLoads`, `StepDrives`, `Fence`, `Aggregate`). What the
measurements show (`lab`) is chosen by the initial state. Candidates of an
evolve-endpoint campaign are revisions of one deployment and exclude each other's
operations; those of a new-endpoint campaign do not.

## 3 Runs

| Run | Subjects and instance | Distinct states | Shows |
|---|---|---:|---|
| `operation_recovery` | operations: 1 row, 2 workers, 3 attempts, 3 faults; campaign: 1 candidate, any measurement | 235,683 | fencing, earned success; under fairness every operation is resolved or stranded in one of two named states, and a cancelled campaign is cleaned up |
| `operation_enqueue` | operations: a call, its retry, the same key with another body, a keyless rival, checkpoints of 2 steps × 2 payloads; scaling: 1–3 replicas, 3 decisions, 1 fault | 1,028,506 | idempotency, harmless replay, refinement of `OperationLifecycle`; the converged fleet is exact, and scaling fails without a fault in one way only |
| `operation_stranded` | operations: 3 attempts, no fault | violation | finding 1 |
| `accounts` | funding: 4 calls of one key, 3 faults; wallet: 2 sessions, 6 events, a hold of each kind; quota: 2 replicas over a minute boundary; hosted: 1 request, 2 contract changes, 2 faults; gateway: 2 requests, 1 retry, 2 faults | 1,944,710 | handed-out URLs are durable; ledger, debt and holds agree; the quota holds per window; a customer pays as served and the books balance; a gateway request is covered when it is sent and leaves nothing behind |
| `request_front` | admission: 3 callers who call again, 4 refreshes; async: 1 job, 2 workers, 3 attempts, 2 faults; hosted: 1 request, 1 change, 1 fault | 234,120 | slots, wakers, fenced results, truthful webhooks; a queued caller is answered or overtaken for ever, jobs end, ambiguous requests are resolved |
| `async_webhook_lost` | async, no fault | violation | finding 2 |
| `serving_safety` | routes: 2 deployments, 1 request, 1 interference; budget: 2 processes; campaign: 1 candidate, 1 fault | 1,336,485 | routers survive their requests and are not forgotten; deletion waits for whoever held the route at its first check; the hard budget holds; recovery needs calm; a promoted deployment is not deleted |
| `provisioning_safety` | sandbox: 2 creates, 1 call, 1 fault; rollout: 3 revisions of which the first or second is active, 4 operations, 1 fault; campaign: 2 candidates | 2,117,331 | exact bills, holds closed after cleanup; one active revision, tracked capacity, promotion deletes only what was replaced; one measured winner |
| `control_plane_liveness` | routes, budget, sandbox, rollout (3 operations) on smaller instances | 175,688 | healthy workers are served, deletions finish, dry pools refill, holds are closed unless the row was deleted, operations conclude, automatic rollbacks included |
| `sandbox_hold_stranded` | sandbox, no fault | violation | finding 3 |
| `rollout_reject_active` | rollout: 2 revisions, 2 operations | violation | finding 4 |
| `campaign_expired` | campaign: 1 candidate, no fault | violation | finding 5 |

A passing run takes one and a half to two and a half minutes with two TLC workers.

### Why the bounds are enough

*Operations.* Rows interact only through keys and deployments, so leases need one
row. Two workers give every pair of a late and a current owner; three attempts allow
a late owner two generations behind; three faults allow one per attempt. Enqueue
needs the four calls named: every outcome of the three statements occurs among them.
Checkpoints need two steps (replay from the first) with two payloads (a changed one)
and two generations.

*Funding.* Three calls are a holder, its successor, and one that comes when the
second has been overtaken; the fourth has the other amount. Three sessions let the
provider forget its key twice.

*Wallet.* Six events are a double announcement, a second session, two cumulative
refunds (partial, then full), and an ID used again with another payload. Amounts are
chosen so that refunds exceed what is left (debt), credits pay part of a debt, and
settlements exceed their hold. Tenants share nothing; one is enough.

*Hosted Model APIs.* Two contract changes are a price rise and a renewal, or a
withdrawal; two prices and a ceiling of 3 with a usage of 2 put the cost below and
above the ceiling. Requests meet only in the wallet, whose sums `ManagedWallet` checks
with several holds. Two faults let the gateway and then the reconciler fail.

*Admission.* Three callers are one admitted and two waiting, or one refused by a
full queue. The four policies are one slot with a queue of two, two slots without a
queue that refuse one caller for another reason, a disabled policy, and an invalid
one, which drops the policy; four refreshes drop and add it again under waiting
callers. That callers return makes the arrivals endless, which is what `QueuedAreAnswered`
is about.

*Quota.* Two replicas race for a row. A limit of 3 with leases of 2 makes the second
lease partial, a limit of 0 forbids everything. Two minutes have one boundary.
`MaxLag` says how many minutes a refill may take and is not reached with
`MaxMinute = 1`.

*Gateway requests.* Requests meet only in the wallet: a prepaid 3 with holds of 2 lets
one through and refuses the other, or serves both in turn. Bills of 0, 1 and 3 are a
refusal, a cost within the hold and one above it. Two faults are a failed statement and
a crash.

*Asynchronous inference.* Jobs are independent. Two workers give the late and the
current claimant; four claims exceed the three attempts, so that the attempt limit,
and not the bound, stops the claims. Three webhook tries are the code's.

*Routes.* Two deployments, one of which shares its name with the endpoint, are what
the alias rules distinguish; a pass, a refresh, a request and a deletion are all the
threads. The safety run allows one interference (plan activation, deletion, failure or
change of targets) between any two steps of them; the liveness run allows two of them on
one deployment, with all five kinds of fleet. Five generations are never used up: at most
four are in use.

*Budget.* Two processes race for a lease; a batch of 2 against a limit of 3 makes the
second lease partial, and a cost limit of 4 with prices 1 and 2 makes the cost, not the
count, the limit. One policy change and one restart fall between any two steps.

*Sandboxes.* A lifetime of two ticks has a beginning, a middle and an end; the clock runs
past the latest possible expiry. One customer call beside the creation and the sweeper
gives every pair of actors. Holds of different sandboxes meet only in the wallet.

*Rollouts.* Three revisions are a first one, its successor and a candidate that meets
both. Where the first is active, an automatic rollback aims at revision 1, whose targets
are named differently, and fails for good; where the second is, three operations create,
provision and promote the third and its rollback restores the second, so that the waits
and the deletions that follow a restored revision occur in both runs, by the guard's
rejection and by a cancellation, as does a recovery that resumes after them. In the safety
run one more operation comes before, between or after these; the liveness run has just the
three. One replica per revision keeps the order of the handler's loops; one fault falls at
any step of them.

*Scaling.* Three decisions allow up, down and up again, which is what re-use of an
ordinal needs; three replicas let a goal be overshot by two. The controllers of
different processes differ only in what they have read; one controller whose reading
may be arbitrarily old gives the same decisions.

*Campaigns.* Two candidates are what the ranking barrier compares; one candidate is
enough for the races of the three operations over a row. Two candidates that are `ranked`
at once, after a ranking that was repeated, do not occur in the run without faults: that
half of `OneMeasuredWinner` rests on its theorem.

Runs say `CHECK_DEADLOCK FALSE` where the system legitimately stops: all calls are
answered, all jobs ended, all holds closed, or a bound is used up.

## 4 Fairness

Nothing is assumed of faults, clients, cancellations, policy changes or crashes.

* Operations: weak fairness of every worker's own steps, because handlers return and
  workers poll; of the expiry of a lease nobody keeps alive, and of the end of a
  backoff, because clocks advance. A lease with a live heartbeat may be kept for ever.
* Campaigns: of the handlers' steps and of child operations (both are operations, with
  the fairness above), and of the enqueueing of a cleanup by whoever cancels.
  `campaign_expired` also assumes that approvals expire.
* Admission: of a woken waiter's next turn, of leaving the queue, and of release, which
  the gateway defers (`gateway.go:303`). Nothing is assumed of timers, of contexts, or of
  how many callers come. The mutex of the pool owes a waiter nothing, so newcomers may
  take every slot before it (`pool.go:166`) and then only its timer answers it.
  `QueuedAreAnswered` says what the release protocol does promise: who stays in the
  queue is overtaken infinitely often, and nobody is forgotten there.
* Asynchronous inference: of the deadline's passing, of a worker's turn and of its
  expiry sweep: the gateway request is bounded by the job's deadline, the webhook by
  the client's timeout, and `Run` expires jobs before it claims.
* Hosted Model APIs: of a handler's steps, of the end of the grace, and of the
  reconciler, which runs every 30 seconds.
* Routes: of the reconciler's pass (a ticker), of a refresh that has begun, of the end
  of a request and of the retried delete operation, check after check.
* Budget: of each process's resolver (a ticker) and of a prefetch that has begun.
* Sandboxes: of each actor's begun work, of the sweeper (a ticker), of time, and of a
  provider that finishes a deletion it has begun and expires what is due.
* Rollouts: of the retried handler, of the reconciler's publication, of the end of
  requests and of the guard's deadline, and of a provider that boots and stops what it
  was told to.

## 5 Proofs

TLAPS proves the following without bounds on calls, workers, tenants, holds, callers,
jobs, requests, routes, replicas, gateways, revisions, candidates, operations or faults.
In each module an inductive invariant stands between the initial state, the steps and the
properties; TLC checked it, or the parts that strengthen the property, on an instance
before it was proved.

| Module | About | Theorems | Assumptions |
|---|---|---|---|
| `OperationWorkerProofs` | `OperationWorker` | `TypeCorrect`, `ExclusiveGenerations`, `EarnedSuccess`, `CleanCancellation`, `AttemptsBounded`, `EnqueueIdempotent`, `LifecycleSerialized`, `FinalResolution`, `ProgressMonotone`, `StickyCancellation`, `LifecycleImplemented` | `QueueAssumption`, `WorkerAssumption` |
| `PrepaidProofs` | `FundingIntent` | `FundingTypes`, `CheckoutDurable` | `FundingConstants` |
| | `ManagedWallet` | `WalletTypes`, `LedgerAgreement`, `DebtSuspends`, `HoldsClosedOnce`, `RefundsMonotone`, `ReservedExactly`, `LedgerIsExplained` | `WalletConstants` |
| `RequestFrontProofs` | `AdmissionPool` | `PoolTypes`, `NoLeakedSlot`, `NoLostWakeup`, `LimitsRespected` | `PoolAssumption` |
| | `AsyncInference` | `AsyncTypes`, `FencedResult`, `WebhookOfResult`, `EndedOnce` | `AsyncConstants` |
| `GatewayProofs` | `GatewayRequest` | `GatewayTypes`, `GatewayAccounts` | `GatewayAssumption` |
| | `RequestQuota` | `QuotaTypes`, `QuotaIsPerWindow` | `QuotaConstants`, `MaxLag <= 2` |
| `HostedUsageProofs` | `HostedUsage` | `HostedTypes`, `CustomerPaysAsServed`, `HostedBooksHold` | `HostedAssumption` |
| `SupplyProofs` | `ExternalBudget` | `BudgetTypes`, `HardBudget`, `RecoveryIsCalm` | `BudgetConstants` |
| | `NativeSandbox` | `SandboxTypes`, `BillStaysExact` | `NativeSandboxConstants` |
| | `RouteServing` | `RouteTypes`, `HeldRoutersRun`, `RoutersAreKnown`, `DeletesAreFenced` | `RouteServingConstants` |
| `ControlPlaneProofs` | `RevisionRollout` | `RolloutTypes`, `OneRevisionIsActive`, `CapacityStaysTracked` | `RolloutConstants` |
| | `CapacityScaling` | `ScalingTypes`, `FleetStaysExact`, `ScalingFailsOnlyOnReuse` | `ScalingAssumption` |
| | `OptimizationCampaign` | `CampaignTypes`, `OneWinnerIsMeasured`, `PromotedKeepsDeployment` | `CampaignAssumption` |

The assumptions type the constants, keep the null values apart from real ones, and
require what the code's constants satisfy (at least one attempt, a positive hold).
Where something is counted or added up (callers, holds, replicas, gateways, hosted
requests) the set is assumed finite. `MaxLag <= 2` is a hypothesis of the quota theorems,
not an assumption of the module: `ReserveRequestQuota` deletes a row two minutes after
its minute, and a refill that is later than that could reserve the minute again. Theorems
whose property no run checks (`CleanCancellation`, `AttemptsBounded`,
`LifecycleSerialized`, `FinalResolution`, `ProgressMonotone`, `StickyCancellation`,
`LedgerAgreement`, `DebtSuspends`, `HoldsClosedOnce`, `RefundsMonotone`,
`LimitsRespected`, `EndedOnce` and the type theorems) are established by their proofs
alone.

**Sums.** What a fold over a set returns would need induction over the set, which is out
of the prover's reach. `Tally` therefore counts: `Total(f, S)` is the cardinality of a
set with `f[x]` elements for every `x` in `S`, which for natural numbers is their sum.
`AccountingProofs` derives from the cardinality theorems of the library that a total of
zeros is zero and that changing one value changes the total by as much (`TotalChange`).
That is all the proofs about sums use: each step changes the amount of one hold, session,
request, replica or gateway. The wallet lemmas beside it say what a credit, a refund and
a closed hold do to the net value (balance less debt), and that a wallet in debt has
nothing free.

**Operations.** `OneExecutorPerGeneration` is not inductive: it needs to know that a
worker which remembers the row's current generation is the owner of the row.
`SnapshotOK` says so (a remembered generation is at most the row's, and one that
executes under the current generation owns it), `RowShape` what a row looks like in
each status (the generation is the attempt; only leased, running and cancelling rows
have an owner; how the flag and the status agree), `CancelKnown` and `Backed` tie a
worker's position to what its generation has logged, and `JournalShape` says that no
log entry is ahead of its row. A claim then creates a generation nobody remembers
and a fenced statement is executed only by the one worker that may. The refinement
theorem maps each step to one of the three abstract actions or a stutter: the
interesting cases are the insert, whose unique index gives the guard of `Accept`,
and the completion, whose predicate `cancel_requested = FALSE` gives that of
`Resolve`.

**Funding.** `HandedOutIsDurable` needs what the calls in progress know of the
intent: it exists, has their amount, and a call about to complete has a session. The
rest is that only a pending row is completed and a completed one never changes.

**Wallet.** `LedgerBalances` (balance less debt is the posted sum) and
`DebtFreezesSpending` are inductive together with the types once an open hold is
known to have no settlement line in the ledger, so that closing it inserts one.
Credit and debt reconciliation keep the difference of balance and debt; every path
that frees money collects debt, which keeps spendable money at zero while debt
remains. `ReservedExactly` and `LedgerIsExplained` rest on `BooksInv`, which adds that a
hold's actual cost and a session's refunds are what was posted for them: a session that
was not credited has no refunds, and refunds never exceed the payment (`RefundsBounded`),
so that what is kept of each payment is a natural number.

**Admission.** The counters of an object are the cardinalities of the sets of callers
at it; each step moves one caller between two disjoint sets. `SleepersHaveAWaker`
follows because a caller sleeps only where the slots are full, a valid policy has at
least one slot, and each release closes the channel. It must be claimed of dropped
objects too, and `CallersAnchored` says that callers refer to objects that exist and that
who is asleep is at its `select`.

**Gateway requests.** `RequestsAccountedFor` needs, for each position of the handler,
what the request has taken, whether it may have been sent and billed, and the state of
its hold (`TakenByPosition`, `BilledWhenSent`, `HoldByPosition`). The difficult steps are
those of the operator, who may close a hold under the handler: the handler then finds it
closed and changes nothing.

**Quota.** `QuotaInv` says that no replica is ahead of the clock and a refill at most
`MaxLag` minutes behind it, and counts, for every minute, the tokens of all replicas and
the grants on their way to them: together with what was spent they are within the row,
while the row may still be used, and within the largest limit since the minute began,
always. The second bound is what remains when the row is deleted.

**External budget.** `HardBudgetHolds` counts what was authorized, what every process
holds and what is on its way in a prefetch or a resolver, and is inductive with the
types: a lease is granted within both limits, every other step moves units between the
terms or loses them. `RecoveryIsCalm` needs that the stored counter of quiet observations
is never ahead of the observations themselves.

**Asynchronous inference.** `LeaseOfLastClaim` says that the token of a running row
is its last claim's; `TurnsAnchored` what a worker's position implies about tokens
and about a webhook it may send. The fenced completion then can only come from the
last claim, and a webhook only from the worker whose completion stored the result.

**Hosted Model APIs.** `ChargedAsServed` compares a settlement with the price the
customer agreed to and with what the supplier decided. `HostedInv` adds that every
grant and published route is at a version whose price is at most the agreed one
(`ContractInv`), and for every request where its handler can be for each state of its
row, at which price it reserved, what handler and evidence know of the supplier's
decision, and that a charged amount is bounded by both (`PositionGood`, `PriceGood`,
`KnowledgeGood`, `ChargeGood`); `PassInv` says the same of the evidence the reconciler
has in hand. The step that needs them is the settlement of a row by whoever comes
second: request path or reconciler finds it closed, or closes it at the same amount.
`HostedBooksHold` adds to `HostedInv` that only a settled reservation has cost anything
and that the wallet is sound (`HostedBooks`).

**Rollouts.** `OneActiveRevision` is not inductive: a step that supersedes the active
revision keeps `past` a list of exactly the superseded ones only if no revision is in it
twice, and the next revision number is unused only if the numbers have no gap
(`HistoryInv`). A handler that restores a revision acts on what an earlier step read, so
`HandlerInv` and `MonitorInv` say that what it remembers is a revision that exists and was
recorded for it. `CapacityIsTracked` needs `LaunchInv` (the instance a handler is about to
observe has the row its intent wrote), `CleanupInv` (a cleanup has listed every running
instance of its revision, although instances boot and fail meanwhile) and `RejectedInv`
(an instance of a rejected revision has an operation that will still clean it up). The
lemma `Smallest` (a set of numbers has a least member, which `NextSlot` chooses) comes
from the library's well-foundedness theorems. `Without` is the one operator on sequences;
`WithoutIs` says what it leaves of a list without repetition.

**Autoscaling.** `ScalingInv` follows one attempt of the converge handler. `AttemptInv`
ties it to its operation: it pursues the goal, or the count to go back to, and a later
cancellation does not change which. `ProgressInv` says that what is before its position
runs and has a live row, and that in the phase of deletion every live row beyond the goal
is among what it will still delete, which gives exactness when nothing is left.
`FleetInv` is `FleetIsExact` ordinal by ordinal. `CalmInv`, without a fault, keeps the
fewest replicas and a count to go back to that `ValidTarget` accepts, so that only a
deleted row can end an operation; that deleted rows stay deleted keeps its reason.

**Campaigns.** A handler acts on a candidate's row some steps after it read it, and
`AttemptsInv` says what it still knows by then: that a candidate it is about to choose is
`Winner`, with all others past the measured barrier, unless the row has left `ranked` and
the fence will refuse (`ChoiceGood`); that one it is about to delete has been dropped
(`CleanupGood`). Both survive the other handlers because rows move only along
`Successors` (`SuccessorsAre`): none returns before the barrier, and a dropped one is
only cleaned. From then on the set that is compared can only shrink, and its winner stays
in it, because a row that was ranked is compared even when it is dropped
(`RowsKeepWinner`); so the ranking, repeated for another candidate, finds the same winner,
and there is one (`WinnerIsOne`). TLC confirmed the whole invariant on two candidates
without faults (1,398,948 states).

**Sandboxes.** `BillIsExact` says that a settlement has read the last value of the meter,
and the meter runs while the row is `running`. `SandboxInv` therefore follows who may
still change the row. `CreationInv`: an activated hold means that the creation is over, so
that none of its compensations is on its way. `JobsInv`: what a customer's call and a job
of the reconciler saw when they began still binds the hold they will close. Then
`CustomerDeleted`, `SweeperDeleted` and `Settled`: between the deletion that a settlement
rests on and the settlement, and after it, a process that is still at work may record
`unknown` or a state of cleanup, and none records `running`. `TimeInv` orders the times
the processes carry with the clock, since a transition is recorded at a time read before
the call. TLC confirmed the whole invariant on two creations, two calls and two faults
(9,534,075 states).

**Routes.** The reaper asks once which retired routes are idle and stops them later, so
`CurrentRouterSurvives` needs what stays true in between. `ReapInv`: while the pass reaps,
none of the routers it will stop is concrete or held by a request that acquired it as
concrete. Only the pass itself makes a router's route concrete, in a later phase; a refresh
may publish a stale copy meanwhile, but what a request acquires through it is not the
concrete route; and the one route a request puts back is cold, therefore not a router's
(`ColdInv`). `ConcreteRuns` gives the router at the moment of acquisition. `HeldKnown` (a
route held as concrete is concrete or retired) is what the delete fence looks at. Its two
checks are steps apart, so `FenceInv` says what an attempt knows after each: past the
first, every route that was held before it is retired, and being pinned it stays so,
whatever a pass publishes meanwhile; past the second there is none. Who acquires a route
between the first check and the deletion is `late` and not promised anything (section 6).
`RoutersKnown` is `NoOrphanRouter` in terms of identities. One lemma for each operation of
the directory says which identities it keeps (`PutRouteIs`, `WithdrawnIs`,
`PublishEndpointIs`, ...). TLC confirmed the whole invariant on two deployments, two
requests and one interference (2,142,059 states).

### Only model-checked

* Liveness: `ResolvedOrStranded`, `QueuedAreAnswered`, `EveryJobEnds`,
  `AmbiguousIsResolved`, `HealthyIsServed`, `DeleteFinishes`, `DryPoolRefills`,
  `HoldsAreClosedUnlessDeleted`, `OperationsConclude`, `CancelledIsCleanedUp`, and the
  temporal properties of the findings.
* The second half of `ReplayIsHarmless` (its first is `ProgressMonotone`), a fold over
  the sequence of checkpoints, which needs induction over data.
* `PromotionDeletesReplaced` of `RevisionRollout`. Its obvious strengthening (the targets
  are the active revision's) does not hold: a manual rollback moves the active revision
  and leaves targets and replicas (section 6).
* `ClosedAfterCleanup` of `NativeSandbox`: within the prover's reach and not proved yet
  (section 8).

## 6 Where the code and its documentation disagree

1. **An expired lease may never be recovered** (`operation_stranded`,
   `store/operation_queue.go:87`). The claim takes an expired row only while
   `attempt < max_attempts`, and never a `leased` or `running` row whose cancellation
   was requested; nothing else resolves such rows, and the unique index refuses every
   later operation on the deployment. `docs/architecture/data-flows.md:18`: "An expired
   lease can be recovered by another replica". A heartbeat tick in flight when the
   handler returns, or a cleanup that outlives its lease, is enough.
   `ResolvedOrStranded` shows that these two states are the only ones in which an
   operation is lost.
2. **A worker's own heartbeat stops its webhook** (`async_webhook_lost`,
   `asyncinference/service.go:163`). Completion clears the lease, the next tick is
   refused and cancels the delivery, and a pending webhook is never delivered
   later. `docs/integrations/ecosystem.mdx:114`: "bounded signed-webhook delivery".
3. **A sandbox that the provider deletes keeps its hold** (`sandbox_hold_stranded`,
   `managedsandbox/reconciler.go:201`). The observed status is recorded first, and a
   deleted row refuses the cleanup intent on which deletion of the workspace and
   settlement depend. `store/sandbox_billing.go:234` says the sweep "prevents abandoned
   sandboxes from retaining credit indefinitely".
4. **Rejecting the active revision deletes it** (`rollout_reject_active`,
   `workflows/cloud.go:810`). Cleanup precedes the check that the revision is the
   candidate. `docs/features/release-guard.md:272` promises "candidate-only provider
   capacity"; that operators should "never target the active revision" is enforced
   nowhere, and a candidate may become active after the reject was asked for.
5. **An expired campaign is not cleaned up** (`campaign_expired`,
   `store/optimization_campaigns.go:387`). The transition to `failed` that should start
   the cleanup is itself refused after expiry. `optimizationcampaign/coordinator.go:121`:
   "must converge to cleanup, not retry forever while paid resources remain allocated".

### Observations without a run of their own

Seen while translating the code, with the property that delimits them where there is one.

* *Funding*: a failed completion keeps the checkout's lease, because the handler
  releases the lease of the intent it has just overwritten with the zero value
  (`controlapi/billing.go:97`).
* *Quota*: tokens left from one minute may be spent after the clock has passed to the
  next until the replica refreshes its window; `QuotaPerWindow` counts requests by the
  minute whose reservation paid for them. Rows are deleted after two minutes, which is
  exactly enough for refills up to two minutes late.
* *Gateway*: a settlement or release that fails within its five seconds is only logged
  (`gateway.go:451`), and an authorization whose committed answer is lost leaves its hold
  (`LeavesNothingBehind` excludes faults for these reasons). A timeout, a reset connection
  or a 502, 503 or 504 releases the hold although the supplier may have got the request
  (`gateway.go:414`, `:425`); `docs/architecture/managed-model-apis.mdx:48-49` says "If
  usage is absent, retain the reservation", so `SentOnlyWhenCovered` promises an open hold
  only while the handler waits.
* *Hosted Model APIs*: a reservation whose committed answer is lost stays `reserved`
  (`docs/model-api-production-rollout.md` lists its sweep as to do). One stale active
  grant freezes the generation for all tenants. A stream broken after interim usage is
  settled with that usage, so the property says "at most". A stream longer than the
  grace races the reconciler, which `model_api_routes.go:402` excludes; the run shows it
  is harmless. A hundred rows whose settlement always fails would starve the rest.
* *Routes*: the promise that "retirement cannot stop its router or capacity until release
  is called" (`routes.go:97-99`) does not hold of a route acquired after it was replaced,
  nor of one acquired while a delete is past its fence: after `HasCurrentDeployment`
  (`cloud.go:599`) come a second lock, a database lookup and the provider's resolution
  before `DeleteReplica` (`cloud.go:627`), and a pass that read the deployment as running
  puts its route back in that time. TLC finds nine states to such a deletion under a
  request. `CurrentRouterSurvives` and `DeleteWaitsForRequests` state the part that holds.
* *Budget*: after a price rise a pool may hold requests and less money than one costs; it
  is neither usable nor refilled until a restart. `DryPoolRefills` is about pools without
  requests.
* *Sandboxes*: a delete before provisioning has recorded its workspace releases the hold
  while the creation goes on; a lost reply to the workspace's creation leaks it;
  `SetNativeSandboxStatus` can reopen a deleted row. `ClosedAfterCleanup` covers what
  the reconciler closes and everything that is settled.
* *Rollouts*: the monitor is evaluated again on every retry, even after it accepted;
  an automatic rollback to the first revision fails because its targets are named
  differently (`docs/features/release-guard.md:260` promises it); a manual rollback
  changes neither targets nor replicas; promoting the first revision again waits until
  the attempts are used up (`Hopeless`). A candidate that a manual rollback or a restored
  revision has dropped keeps the status `candidate`, so that it may still be provisioned; if
  that fails for good it cannot be rejected (`cloud.go:741` goes on), and when the provider
  has not finished the deletion within the attempt, the next one launches the instance
  again, until the attempts are used up (also `Hopeless`).
* *Admission*: a woken waiter has no claim on the slot it was woken for; under arrivals
  without end it may wait until its timer fires (section 4).
* *Autoscaling*: the row of an ordinal that was scaled down stays `deleted` and refuses
  the next scale-up for good, so a deployment grows into each ordinal once
  (`docs/features/autoscaling.md` describes repeated scaling); `FailsOnlyOnReuse` shows
  that nothing else fails without a fault. Cancelling a scale-down that has already
  deleted fails for the same reason. Each process saves its counters over the others',
  so a cooldown can be lost, and a stale absolute goal can shrink a grown fleet by two.
  A pass that was reading while a scale-up was cancelled can publish a deleted worker
  until the next pass. Draining is decided by the process's own directory, while other
  processes may still route to the worker.
* *Campaigns*: a permanent failure while provisioning, before the deployment's name is
  recorded, is "cleaned" with the deployment left; activation publishes the endpoint
  before its fenced promotion; the summary state is written separately and may be
  overwritten by an older one; "cleaned" means that the deletion was submitted.

## 7 What is not modelled and what is not proved

Left out of the modelled components: SQL connection handling, encryption of stored
payloads, form encoding and signatures of the payment provider, telemetry counters,
list and wait queries, and prices in units finer than the models'. In admission, protocol,
token and modality limits are one refusal without effect. In `HostedUsage`, the choice of
a supplier candidate, circuit breakers, supplier cost, validity windows and fixed-term
grants; supplier and operator evidence is taken to be honest and final. In
`CapacityScaling`, the load signals, and attempts of one operation that overlap. In
`RevisionRollout`, more than one replica's order of failure, endpoint bindings and the
endpoint guard. In `RouteServing`, adopted targets and what inspection does.

Not modelled:

* Streaming, headers, affinity and capacity evidence of a gateway request, and its
  composition with the internals of admission, quota and budget.
* Serverless handlers, the continual optimizer and the numeric search for candidates.
* Billing arithmetic (`managedbilling/calculator.go`, `pricing`): rounding of prices.
* The OpenRouter edge, the accelerator worker, provisioners, sandbox adapters, the
  control API's decoding and authorisation, the command line, configuration,
  specification and evidence packages: I/O, measurement, or pure functions from
  documents to documents. They are the larger part of the repository's lines; the
  modules cover the parts that keep shared state.

Integers are unbounded in the models: wallet amounts are `BIGINT` micro-dollars, on
which PostgreSQL raises an error instead of wrapping, and generations and attempts
stay small. The prover cannot treat liveness under fairness, `ENABLED`, or induction
over data (section 5).

## 8 Plan

Done, in this order: the operation queue and its workers with their abstract lifecycle;
funding intents; the wallet; admission; request quota; asynchronous inference and their
proofs; routes; external budget; sandboxes; rollouts; campaigns; hosted Model APIs;
autoscaling; the gateway's request; the proofs about accounts, quota, budget and gateway
requests, then those about rollouts, autoscaling, campaigns, sandboxes and routes.

Next theorem: `ClosedAfterCleanup`, which needs what the provider has for each position
of the three processes.

Next modules: `BillingArithmetic`; a longer instance of `RequestQuota` that reaches the
retention edge.

## Running

    tlc -config OperationRecovery.cfg MCOperationWorker
    tlapm OperationWorkerProofs.tla

`PROJECT.json` lists every run with its module and configuration.
