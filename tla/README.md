# XCloud: specification and proofs of the control plane

XCloud sells small containers.  A Go control plane (`src/src`) keeps users'
instances, orders, wallets and tasks in MySQL, announces tasks through
RabbitMQ, and drives node Agents (`src/agent`) over HTTP; nodes owned by users
are reached through a gateway (`src/gateway`) and a device client
(`src/control`).  This directory holds TLA+ models of it, TLC configurations
and TLAPS proofs.

Contents: 1 inventory, 2 plan, 3 the modules, 4 the runs, 5 fairness,
6 proofs, 7 divergences found, 8 what is not modelled.

## 1. Inventory

### Components, their state and operations

| Component | State | Operations | Correct when |
|---|---|---|---|
| Task queue (`task_queue.go`, `control_plane.go`, `control_handlers.go`) | `xcloud_tasks` rows (status, attempts, execution token, lease, run_after, generation), the `active_task_*` lock columns of the instance, messages in `xcloud.deployment`, handlers | create, enqueue, claim, renew, execute, finish, retry, recover, quarantine, resume, discard, cancel | one Agent request per instance at a time; stale handlers change nothing; final rows stay final; dangerous work is not repeated unseen; queued work settles |
| Instance lifecycle (`control_plane.go`, `control_handlers.go`, `control_loops.go`) | `status`, `runtime_status`, `destroy_at`, `destroy_reason`, `purge_at`, `archived_at` | the twelve task actions; schedule and cancel a destroy, expire, renew, purge, archive, observe | only edges of `canTransitionInstance`; a destroyed container never comes back; data is purged only after the retention |
| Plan change (`plan_change.go`) | `xcloud_instance_plan_changes`, wallet reservation, resize tasks | quote, create, resize, observe, settle, fail, cancel, compensate, reconcile | the user pays exactly for what the node runs |
| Wallet, purchase, orders (`platform_upgrade.go`, `control_plane.go`) | wallet balance and ledger, orders, node capacity | recharge, purchase, renew, adjust, reserve, confirm, cancel | the ledger sums to the balance, no negative balance, capacity not oversold |
| Refund (`refund.go`) | refund quote, ledger, order | quote, execute | at most the paid, unconsumed amount, once |
| Benefits (`commercial_benefits.go`) | programmes, grants, redemptions | quote, redeem, release, sync | limits are not exceeded, a released grant is usable again |
| Declarative instances (`declarative_instances.go`) | `resource_version`, `desired_generation`, `observed_generation` | patch desired state | concurrent patches are serialised, an older generation does nothing |
| Host access (`host_access.go`) | stored access settings and generation | set, apply | the node gets the settings of the newest generation |
| Self-hosted nodes (`control_tunnel.go`, `selfhosted_*.go`) | devices, enrolments, sessions, uncertain operations | enrol, connect, dispatch, revoke, reconcile | a revoked device receives nothing, an unknown outcome is never replayed |
| Gateway and device client (`gateway/main.go`, `control/*.go`) | connections per device, pending calls, operation journal | register, replace, call, answer, cancel | an answer reaches its caller once, an operation runs once |
| Node Agent (`agent/main.go`) | containers, data directories | create, start, stop, resize, destroy, purge, inspect | idempotent requests |
| Tickets, telemetry, terminal, HTTP server, migrations, frontend | own tables or none | see section 8 | |

### How they interact

* HTTP handlers and the control loop only write rows.  The task queue is the
  only part that asks an Agent to change a container.
* The lock columns of an instance serialise its lifecycle tasks; the task's
  execution token fences every statement a handler makes later.
* `transitionInstance` is a conditional UPDATE on the instance's status; it is
  the meeting point of handlers, the loop, renewals, refunds and users.
* Lost messages are replaced by `recoverPendingTasks`, lost handlers by
  `recoverExpiredTaskLeases`; both run every 30 seconds in the control loop of
  every control plane process.

### Where it is hard

Concurrency: several processes with up to 16 handlers each, user requests,
administrators and loops share the rows, under statements rather than locks.
Failure: a crash between the Agent request and the row's completion leaves the
outcome unknown; the broker delivers again after a reconnect.  Timing: a lease
of five minutes, renewed each 30 seconds, against requests of at most three.
`PROJECT.json` lists the hazards line by line.

## 2. Plan

1. `InstanceStates` - constant tables. *Done.*
2. `TaskQueue` with `MCTaskQueue`, `TaskQueueProofs`, `TaskQueueCallProofs`.
   *Done.*
3. `PlanSale`, `PlanChange` with `MCPlanChange`, `PlanChangeProofs` and
   `DataInduction` (sums over finite sets, also for 6) - the saga of a plan
   change with its hold; the conservation of money as an abstract
   specification it implements. *Done.*
4. `Tunnel` with `MCTunnel`, `TunnelProofs` - device client, gateways, directory
   and commands. *Done.*
5. `Lifecycle` with `MCLifecycle`, `LifecycleProofs` - one instance with its container and data
   from the plan to destroy it to the purge. *Done.*
6. `Billing` with `MCBilling`, `BillingProofs` - purchases, renewals, changes, refunds and
   benefits over time. *Done*, except for the capacity of platform nodes.
7. `SelfHosted` with `MCSelfHosted`, `SelfHostedProofs` - credentials, readiness, quotas and
   revocation of users' nodes. *Done.*
8. Still to come: `Desired` (resource versions, generations, host access),
   `Tickets`, `Agent` (what a request does in its steps on the node), the
   capacity of platform nodes, and an abstract lock-per-instance specification
   that `TaskQueue` implements.

Every safety and action property of section 4 is proved (section 6).  Worth
proving beyond that: the abstract specifications of item 8, that the reduced
queue inside `PlanChange` is implemented by `TaskQueue`, and what the node has
after several plan changes that follow each other without overlapping.

## 3. The modules

`InstanceStates` holds what the code keeps in tables: `canTransitionInstance`,
`lifecycleTask`, the expected states of `executeTask`, `dangerousRecoveredTask`,
`safeRecoveryState` and the action lists of the loops.

`TaskQueue` models the queue.  One action is one SQL statement or transaction,
or one Agent request; everything between them may interleave.

| Variable | Code |
|---|---|
| `task` | rows of `xcloud_tasks`: status, attempts (saturating at the limit), execution token, ticks left of the lease, ticks to run_after |
| `lock` | `active_task_id`, `active_task_token`, `active_task_expires_at` |
| `inst` | `xcloud_instances.status` |
| `stale` | tasks whose `desired_generation` is older than the instance's |
| `down` | instances whose node is disabled or whose device is revoked |
| `queue` | messages waiting per task, at most `MaxCopies` |
| `worker` | local variables of the goroutines of `processDelivery` |
| `followup` | second statements of requests and of the loop that have done their first: the INSERT of a moved instance's task, the move back, the lock of a reviewed task, the end of a reconciled one |
| `claimant`, `resumed` | history only |

A handler goes `claimTask`, `ReloadTask`, then per Agent request `PassFence`,
`CallAgent`, `AgentSucceeds` or `AgentFails`, then `CommitResult` (the
conditional update of the instance), `finishTask`, `releaseInstanceTaskLock`,
`failDeployment`.  `renewTaskLease`, `Crash` and `Redeliver` may happen
anywhere between.  `update` and `retry-deploy` make two Agent requests with a
fence before each.  Loop actions are `RecoverPending`, `RecoverLease`,
`quarantineDangerousFailedTasks`, `ReconcileOperation`, `FinalizeOperation`,
`ReconcileResize`; `RequestAction`, `MoveRequested` (or `RefuseRequested`) and
`InsertRequested` (or `UndoRequested`), `InsertTx`, `scheduleLifecycle` and
`CreateInstance` create tasks; `CancelQueued` with `UndoDeploy`, `CancelDestroy`, `retryTask`, `resumeReviewTask`, `discardReviewTask` and
`ClearLock` are users and administrators; `Supersede`, `NodeFlip`,
`RevokeDevice` and `OtherWriter` are other components.

Time is relative: `Tick` counts leases, locks and waits down.  `Prompt` names
what a run assumes about speed.  `"start"`: no handler sleeps past its lease
between its claim and its reload.  `"reload"`: no handler sleeps between its
claim and its reload until the task is claimed again.  `"execute"`: an
execution keeps renewing its lease; the code bounds every Agent command to
three minutes, renews every 30 seconds and leases for five minutes.  Without
them (`Prompt = {}`) a handler may sleep for ever anywhere.

`PlanChange` models `plan_change.go` for one instance: a price is held, a resize
task applies the target resources, and the change is settled against the orders,
released, or compensated.  One action is one transaction, or one group of
statements between which no other actor could see a difference, or one Agent
request.

| Variable | Code |
|---|---|
| `change` | rows of `xcloud_instance_plan_changes`: `status`, `saga_status`, `fund_status`, the observed, source and target columns, the items of the exchange, `reservation_fen` |
| `task`, `lock` | resize and compensation rows of `xcloud_tasks`; `active_task_*` |
| `outdated` | tasks whose `desired_generation` is older than the instance's |
| `inst` | `status` (running stands for stopped too: the code treats them alike here), `cpu`/`memory_mb` |
| `container`, `late` | the resources on the node; abandoned requests the Docker daemon may still carry out |
| `orders`, `balance`, `ledger` | `xcloud_orders` of the instance, the wallet, the business keys of `xcloud_wallet_entries` |
| `handler`, `loop` | locals of `processDelivery`..`failDeployment` and of `reconcileRecoveredPlanChange` |

The user: `createPlanChange`, `CancelObserved` and `RequestCompensation` (the
two outcomes of `requestPlanChangeCompensation`), `renewWithWallet`,
`refundOrder`, `NewerIntent`.  A handler: `claimTask`, `CallAgent` (with the
fence), `AgentApplies`, `AgentAnswers` or `AgentFails`, `SettleResize` or
`SettleCompensation`, `finishTask`, `markResizeTaskObserving`,
`failDeployment`, each with `Crash` in between.  The loop:
`recoverExpiredTaskLeases`, `reconcileBlockedPlanChanges`, and
`reconcileRecoveredPlanChange` in its statements: `Inspect` or `InspectFails`,
`resumeBlockedPlanChange`, `SettleTarget` or `SettleSource`, `CloseTask`.  The
administrator: `retryTask`, `resumeReviewTask`, `discardReviewTask` (with
`discardAllAdminTasks`).

What it abstracts.  The queue is that of `TaskQueue` with an execution named by
its handler instead of its token, a live lease by the row's owner, and an
expired lock as no lock; message loss needs no model, since a pending row may be
claimed at any time.  A quote and the change made from it are one step.  No
service time passes, so an order is worth what was paid for it.  One control
loop is modelled.  `completePlanChange` with the UPDATE that blocks a change
when it fails, and `resumeReviewTask` and `discardReviewTask` with the lock they
clear, are one step each (`TaskQueue` splits the latter).  `RowsAffected` counts
changed rows, as with the DSN of `.env.example`: it matters in
`resumeBlockedPlanChange` and `Completable`.

`PlanSale` is the abstract specification of the money: per change none, held,
then charged or returned, with the wallet, the amount held and the value of the
active orders.  `MoneyConserved` is its specification under the mapping of
`fund_status` to the phase, the balance to the wallet and the sum of active
orders to the assets.

Operators whose comment begins "A mistake:" are faulty variants of the operator
below them; each property has one that breaks it.

`Lifecycle` models the end of one instance.  A plan to destroy it has a number
in place of its time, and the idempotency keys of tasks are made of it, since
the whole design rests on a task recognising that its plan is no longer in
force.

| Variable | Code |
|---|---|
| `now` | the clock of the database |
| `ins` | the row of `xcloud_instances`: `status`, `runtime_status`, `expires_at`, `destroy_at` with the number of its plan, `destroy_reason`, `purge_at`, `archived_at` |
| `order` | `status` of the order in force |
| `plans` | how many plans there have been |
| `container`, `data`, `late` | what is on the node; tasks whose abandoned Agent request may still be carried out |
| `row` | `xcloud_tasks` by idempotency key |
| `todo` | INSERTs that a request makes after its transaction |
| `lock`, `handler` | the live instance lock; the handler of each task that is executed, with or without the lock |
| `cancelling`, `clearing` | `cancelManualDestroy` between its checks and its transaction; an administrator's request between the row and the lock of its task |
| `expiring` | `scheduleLifecycle` between the SELECT of an expired instance (the status it has read), its transition and the expiry of the orders |
| `faults`, `asked` | a bound, and whether the user asked for the destruction at once |

The user plans, cancels, hastens, renews and refunds; the loop expires,
schedules what is due, observes the container and recovers leases; a handler
claims, compares its key with the plan, asks the Agent and commits; an
administrator resumes, retries and discards, and resuming or discarding clears
the lock afterwards, when a handler may have claimed the task again.  `DueDestroyEnds` and
`DuePurgeEnds` say what the loop owes.

`Billing` models what one customer pays and gets back, with days for time.

| Variable | Code |
|---|---|
| `balance` | `balance_fen` |
| `orders` | `xcloud_orders`: amount, period, benefit, status, and what came back for it |
| `ins` | status, `destroy_reason`, `expires_at` and the plan of each instance |
| `change` | the quote or the plan change under way with its items |
| `expiring` | `scheduleLifecycle` with the instance it has listed as expired, and with one it has expired and not yet its orders |
| `program` | programmes with status, code, the limits in force, what was used of them, the customer's grant, and (history) what was used when they were saved |

A purchase, a renewal, a refund or the settlement of a change is a serializable
transaction and therefore one action.  Prices (`prorateFen`,
`prorateMonthlyFen`, `tierPrice`, `benefitDiscount`) are the code's integer
arithmetic.  Between a quote and its change, and between a change and its
settlement, the customer may do anything else.

`Tunnel` models the way of a command to the device of one user and back.

| Variable | Code |
|---|---|
| `device` | `status` of `xcloud_control_devices` |
| `client`, `conn` | the connection of `serveV2`; per connection the gateway goroutine that serves it, its link, and its directory refresher |
| `sessions`, `directory` | `sessions.values` of each gateway; the record `xcloud:tunnel:<device>` in Redis |
| `down`, `up` | frames on the way |
| `call` | a request of the control plane from `commandRequest` to its answer |
| `run` | `handleV2Command` on the device |
| `task` | the task the call belongs to |

A step is one statement, one Redis call or one frame.  Redis is external and
modelled as one register whose record expires.

`SelfHosted` models how a server becomes a node of its owner, and stops being
one.

| Variable | Code |
|---|---|
| `grant` | enrolment tokens and browser authorizations |
| `node` | `xcloud_control_devices` with `xcloud_nodes`: status, ready, online, detected resources, quota and its mode |
| `lock` | the row lock of `SELECT ... FOR UPDATE` on a node |
| `log` | the last row of `xcloud_selfhosted_readiness_events` |
| `client`, `session` | what the server has in its file; the gateway goroutines, between two statements of a report or of a disconnect |
| `instance`, `request` | instances with their node; requests of the owner between two statements |
| `excess`, `faults` | history, and a bound |

## 4. The runs

| Run | Question | Bounds |
|---|---|---|
| `tq_changes` | do two requests for one instance ever overlap; is a cancelled task executing | any two of update, host-access, resize and compensation, 2 handlers, lease of 2 ticks, crashes, newer generations, node switched off and on, cancel, discard |
| `tq_stale_handler` | can a stale handler pass the fence, finish, have its dangerous task replayed beside it, or wake a final row | one stop, 2 handlers, lease of 1 tick, 3 attempts, crash, reconnect, retry, resume, discard, cancel |
| `tq_lives` | does anything revive a destroyed instance | create, retry-deploy and destroy on a self-hosted node, any two of them, handlers without promptness, states moved by others |
| `tq_settles` | do competing tasks settle although handlers crash again and again | stop and restart, 2 attempts, one handler at a time, crashes without limit, fair handlers and loop |
| `pc_money` | do wallet, orders and hold stay in balance; do the wallet entries fit the row; is a change settled once | one change, 1 handler, 1 attempt, a renewal, all events but crashes of the loop and cancelled commands |
| `pc_resources` | is a change settled and released only on the right resources; do container, row and orders agree at rest | 2 handlers, 2 attempts, crashes of handlers and loop, cancellation, refund, newer intents |
| `pc_resolves` | does every change end | 2 attempts, outages, overtaken handlers, late requests, cancellation, renewal, fair handlers and loop |
| `tn_answers` | does an answer reach the right call and tell the truth; are abandoned commands cancelled; does an old connection unregister its successor | 2 gateways, 2 connections, a stop of 2 attempts, 2 faults of any kind |
| `tn_recovers` | does the directory end up right, does every call end, does a revocation reach every gateway | 2 gateways, 2 connections, 1 attempt, 1 fault or revocation, fair goroutines |
| `lc_ends` | is a container only destroyed for the plan in force and data only after the retention; is what is due carried out | 2 plans, all periods 1 tick, 3 instants, 1 attempt, 2 events, one administrator's request at a time, late requests, from a stopped instance or a failed deployment |
| `bl_accounts` | does an order bring back more than was paid; is a day sold twice; do refunds and limits hold | 2 plans for 4 and 10, terms of 1 and 2 months of 2 days, a wallet of 8, 2 instances, 4 days, 3 orders, 1 event of others, a half-price code with a budget of 5, a granted bonus day, one fen off once per customer, limits that an administrator may change to 2 |
| `sh_nodes` | does a token make one device that one server knows; is the quota kept; do readiness and its log settle | 2 servers with one token or one authorization, 2 devices, 2 connections, 2 requests, 2 instances, a size of 4 that may become 2, quota 1, 1 fault |

One instance is enough: rows of different instances share nothing but the
handlers.  Two handlers give every race of a stale and a fresh owner, three
attempts every value the code distinguishes, five tokens more than can be in
use (two rows, the lock, two handlers), and a lease of one or two ticks its
expiry before and after any step.  `CHECK_DEADLOCK FALSE`: a
run stops when all tasks are final and nobody asks for another.  Handlers are
interchangeable, so the safety runs of `TaskQueue` use them as a symmetry set.
`MaxTasks` bounds how many of the `Tasks` a behaviour creates: `tq_changes` has
four, `tq_lives` three, and each creates any two of them.  `TypeOK` of
`PlanChange` and of `Lifecycle` are proved in section 6 and are not among the
properties of these runs, which are those that say something of the code.

For `PlanChange` the plans cost 0, 1 and 3 with a wallet of 4: a free plan (no
wallet entries, no business keys), a cheaper and a dearer change, and a wallet
that cannot pay two dear ones.  `MaxAttempts` 1 makes the first failure the last
one, 2 adds a retry; the third attempt of the code behaves as the second.
`Events` names what the surroundings may do in a run.  Events that refute a
property are left out of the run that checks it; section 7 says what they do.
So `pc_resources` leaves out the administrator's `resume` and `discard`,
requests that take effect late, stalls, overtaken handlers and renewals, and
`pc_resolves` leaves out crashes, refunds, discards, failing transactions, plans
of equal resources, and cancelled commands and newer intents during a
compensation, which put it under review or refuse it until an administrator or
user acts.  All three runs have one change; the theorems about money hold for any
number.  The token runs of `TaskQueue` have `"reload"` in `Prompt`, so that the
delayed reload of `task_queue.go:185` is outside them; `tq_changes` has no
`resume`.

For `Tunnel` two gateways and two connections give a session and its
predecessor on the same or on different gateways; a third connection behaves as
the first, whose identity is used again when nothing refers to it.  For
`Lifecycle` a tick stands for days, in which handlers and requests end: a period
of one tick lets every order of grace, retention, renewal and expiry happen, and
three instants are the end of the order, of the grace and of the retention; the second plan is the one a stale task of the first meets.  For
`Billing` three orders are a purchase with two renewals or a change of them; the
wallet pays the dear plan only with the code.  For `SelfHosted` one token in two
files, or one authorization polled twice, is the contested case.  An instance
takes one unit of the quota, which the automatic mode sets to four fifths of
what the server has, and the owner to one of `Quotas`.

## 5. Fairness

`FairSpec` assumes that time passes, that a handler's own steps happen (a
request ends after three minutes at the latest, statements return), that the
loop recovers expired leases, and, strongly, that a published message, a
delivery, a reload and a finishing UPDATE do not fail every time although each
may fail any number of times.  Nothing is assumed of users, administrators,
crashes or other components.

`FairSpec` of `PlanChange` assumes the same in its terms: leases run out and
local steps and the loop's statements happen (weak fairness); a pending task is
claimed, a node that is asked again and again answers, a transaction that is
tried again and again commits, and the loop gets round to every reviewed change
(strong fairness, since each is interrupted by the others).

`FairSpec` of `Tunnel`: goroutines run, keepalives find a broken link, the
refresher ticks, a record in Redis that is not refreshed expires, the client
dials again, a command on the device ends.  The 30 minutes after which a command
is given up count as a fault, so `CallsEnd` holds without them; no fault is
assumed to happen or not to.  `FairSpec` of `Lifecycle`: the loop runs every 30
seconds, statements, recovery and requests to the Agent end (weak fairness), and
the message of a pending destroy or purge is delivered again until it finds the
lock free (strong fairness).  Administrators come to an end with a task: one who
resumes it again and again may keep it from ever ending.  An abandoned request is
carried out before the next tick or never.  `FairSpec` of `SelfHosted`: a server without a
connection dials again, the goroutines of its sessions go on and deliver its
report of every 15 seconds, a transaction that was begun ends, and
`nodeHeartbeatTTL` passes (weak fairness).  A gateway that dies writes no
disconnect event, so it is not among the faults of `sh_nodes`.

The three minutes of an Agent command hold for the platform's nodes.  A command
to a self-hosted node may take up to 30 minutes; its lease is renewed meanwhile
like any other, which is the premise `"execute"`.

## 6. Proofs

`TaskQueueProofs` proves, for any sets of tasks, instances, handlers and
tokens and any lease, from `TaskQueueAssumption` (the columns have values of
their types, the limits are positive, `None` is none of the identifiers):

* `TypeCorrect`: `Spec => []TypeOK`, one lemma per action, one step per
  conjunct the action changes.
* `TokensCorrect`: `Spec => []TokensInv` if handlers are prompt in
  `"reload"`.  `TokensInv` is the inductive strengthening: `FencedExclusive`
  says nothing about a handler that has claimed and not reloaded, so it is not
  inductive; `TokensInv` adds that tokens of rows and of handlers are
  pairwise distinct, that a handler without a reload has no token while nobody
  else has the one its row holds, and that holding the row's token means having
  made its latest claim.
* `FencedCorrect`, `FinishCorrect`: under the same premise
  `FencedExclusive` and `OnlyClaimantFinishes` follow from it.

So these three theorems do not speak of a handler that is delayed between its
claim and its reload until somebody else has claimed the task
(`task_queue.go:176-185`): there all three properties are violated (section 7).

`TaskQueueCallProofs` goes on from there:

* `FinalCorrect`: `Spec => FinalStaysFinal`, and `DestroyedCorrect`:
  `Spec => DestroyedForGood`, for any promptness.  Both are about single steps
  and need no more than the types: each statement that moves a row names the
  status it moves it from, and each that moves an instance a set of states
  without `destroyed`.
* `ReplayCorrect`: `Spec => []NoBlindReplay`, for any promptness.  The property
  looks only at handlers in the middle of their call.  `ReplayInv` says that of
  all handlers that may still get there: a dangerous task nobody resumed has one
  of them at most, and none while it waits to be claimed.
* `OneCallCorrect`: `Undisturbed => (Spec => []OneAgentCall)`, and
  `CancelCorrect` with `CancelHonest`.  `CallsInv` says that a handler past the
  fence has its lease and the lock, or its device was revoked and its task is
  over, in which case the fence refuses everybody else (`CallsOwned`); that there
  is one per instance (`CallsAlone`); and that a lock is only cleared for a task
  that is not executed again (`FollowupsOver`).  `Undisturbed` asks for
  prompt handlers (`"reload"`, `"execute"`), no `resume`, and not both `retry`
  and `discard`: a task that is resumed from review may have a handler that is
  still calling, and clearing its lock then lets the next one in (section 7).

`PlanChangeProofs` proves, for any sets of changes, plans and handlers, any
prices and any events.  The first two use no assumption on the constants:

* `FundsCorrect`: `Spec => []FundsInv`.  `FundsAccounted` (which wallet entries a
  change has, by its `fund_status` and `reservation_fen`) is not inductive:
  whether a release may be written is decided by `status` or `saga_status`, so
  `WellFormed` adds that the three columns always form one of seven triples.
  The proof has a lemma for each thing the code does to a change (block it, fail
  it, cancel it, complete it), and one per group of actions.  Nothing is needed
  about tasks, leases, handlers or the loop: the conditions on the row itself
  make it safe for whoever comes.
* `SettledOnceCorrect`: `Spec => SettledOnce`, from the same steps.
* `TypeCorrect`: `Spec => []TypeOK`, and `MoneyCorrect`: `Spec => MoneyConserved`,
  the refinement of `PlanSale`, with any number of changes at once.  The wallet
  is never overdrawn, and its steps are those of `PlanSale`, because of what
  `Books` adds: a row reserves the price of as many orders as it exchanges; an
  order that was exchanged has its entry in the ledger, so that a second
  settlement of it is stopped by the unique key; and one that was refunded leaves
  an instance that is not usable, which a settlement asks for.  The sums are
  those of `DataInduction`.

What the node has is proved for an instance with a single change, the premise
`Changes = {one}`: two changes that overlap, which the code allows, break all
three properties (section 7).

* `TargetCorrect`: `Spec => SettledOnTarget`, with every event.  `TargetInv`:
  until the change is requested nothing runs, and while it is pending or blocked
  there is no compensation, every abandoned request is one for the target, and
  what a handler has been answered or the loop has seen is still there.
* `SourceCorrect`: `Spec => ReleasedOnSource`, if `Calm`: no stalls, overtaken
  handlers, late requests, lost blocking, resume or discard.  `SourceInv`: a
  handler that executes owns its task and has the lock, so it is the only one
  (`Exclusive`); the loop looks only at a resize under review, when no handler is
  busy with its failure any more and the change is blocked before a handler gives
  up (`Reviewed`); and an observation is made when the resize is not executed
  again, so it stays true while the change is undecided (`Observed`).
* `AgreeCorrect`: `Spec => []OrdersMatchContainer`, if `Calm` and nobody renews.
  `AgreeInv`: row and orders are those of the source until the change is charged
  for and those of the target afterwards; an undecided change exchanges every
  active order; once charged for, nothing is left to do but to note the success
  (`Charged`); after a request for compensation the resize is over, superseded
  or refused, and never reaches the node again (`Behind`), so that what the
  compensation gave back stays (`Returned`).

That each event left out does break the property was checked with TLC.

`DataInduction` states induction over the subsets of a finite set with a set in
place of a predicate, which the provers can instantiate, and from it what
`SumFunctionOnSet` gives for disjoint unions, changed and constant values, that
finite sets of integers have a largest element, and that images are finite.

`TunnelProofs` proves, for any gateways, connections, tasks, events and bounds,
from `TunnelAssumption`:

* `TypeCorrect`: `Spec => []TypeOK`.  `TypeInv` adds that a session that lives
  and a call that is being served have a gateway, and that a running task has
  made an attempt.
* `AnswersCorrect`: `Spec => [](AnswersTrue)`.  What the caller is told is three
  steps away from what the device did, so the invariant follows the answer back:
  an attempt that is not made yet has left no trace (`CallsFresh`), a command is
  on the way or started at most once (`SentOnce`), a result on the way is true of
  its command (`UpTrue`), and so is one that has been handed to the caller
  (`CallsTrue`).
* `RegistrationCorrect`: `Spec => RegistrationKept`, from the invariants that a
  live session is at the gateway that has it registered (`RegisteredHere`) and
  that a connection only leaves when its link is broken or it was replaced
  (`LeavingBroken`).
* `OrphansCorrect`: `Spec => []NoOrphans`.  `OrphanInv`: only commands that have
  ended have answers (`AnswersEnded`); the session a call has found belongs to the
  gateway that handles the call, so that its cancellation goes where its command
  went (`Settled`); and as long as the link lives, a command that runs, or is
  still on its way, has a caller that waits or a cancellation behind it
  (`WorkWanted`).

`BillingProofs` proves, for any plans, terms, programmes and bounds, from
`BillingAssumption`:

* `BudgetCorrect`: `Spec => []BudgetKept`: no redemption goes beyond the limits in
  force, which administrators change at any time; a programme that is beyond
  one of them had it lowered, and nothing was redeemed since.  What a quote
  answers is within the limits of its programme (`QuoteWithin`), and the
  transaction that made the quote consumes it.  The invariant `BudgetInv` adds
  only that a row keeps its fields and that uses are counted in naturals: nothing
  is needed about orders, instances or the wallet.  Not covered are changes of what
  a programme offers, to whom and when (section 8).
* `TypeCorrect`: `Spec => []TypeOK`, in particular that the wallet is never
  overdrawn and no price, share or refund is negative.  `TypeInv` adds that the
  items of a change are finitely many, and that at most one expiry is between its
  two statements.
* `RefundCorrect`: `Spec => RefundFinal`.  The instance of a refunded order has no
  active order left and is destroyed, or will be because of the refund
  (`RefundedOut`), which is what a renewal and a settlement look at.
* `DaysCorrect`: `Spec => []NoDayTwice`, and `ServedCorrect`:
  `Spec => []PaidDaysServed`.  A quote is made into orders later, so `ItemsFit`
  says of its periods what the property says of orders: they lie apart from each
  other and from all orders in force they do not replace, and, while the
  instance can be renewed, within its expiry.  A renewal starts at the expiry,
  hence the invariant that no order in force reaches beyond it.
* `ReturnCorrect`: `Spec => []NoDoubleReturn`.  `CreditInv` adds that each item of
  a change has an order of its own, for which nothing has come back yet unless it
  was refunded, and asks no more than was paid for it.
* `BenefitCorrect`: `Spec => []BenefitOnce`.  Whether a customer has paid before is
  read from the orders, and that stays true whatever becomes of them; a grant
  that was redeemed stays used (`BenefitInv`).  The limit for a customer is the
  one in force, with the same exception as above.

`SelfHostedProofs` proves, for any tokens, authorizations, servers, connections,
devices, requests and faults and any finite set of instances, from
`SelfHostedAssumption`:

* `TypeCorrect`: `Spec => []TypeOK`.  `Types` adds which device a session, an
  instance or a request refers to, and that every quota, also one that a request
  is about to write, is bounded by the size of some server.
* `IdentityCorrect`: `Spec => []OneIdentity`.  Neither half is inductive.
  `Origin` ties a device to a grant that is no longer pending, so that it is not
  used again; `Holders` says that an authorization whose device a server knows
  has been delivered, so that it is not delivered again; and `Pending` that an
  enrolment which is not saved yet is the only one to have its device.
* `QuotaCorrect`: `Spec => []QuotaKept`.  The invariant `Admission` counts a
  creation from the moment its row is locked, and says that a request in its
  transaction has the lock of its row, which no report or change of the quota
  gets past.

`LifecycleProofs` proves, for any periods, numbers of attempts and bounds, from
`LifecycleAssumption`:

* `TypeCorrect`: `Spec => []TypeOK`.  `Types` adds that a task with a
  handler is running.  A handler need not have the lock of its task: clearing it after
  a resume or a discard takes it away.
* `DestroyCorrect`: `Spec => DestroyJustified`.  A handler compares the key of its
  task with the plan once, and calls the Agent later.  `Fresh` says that no task
  of the next plan exists yet, so that an old task never matches a new plan;
  `Timely` that the task of the plan in force exists only once the plan is due or
  its user asked for it; `Starting` that a start never commits to a destroyed
  instance; `Destroying` that from the comparison to the answer the plan
  stays in force and due as long as the handler has the lock, which is what a
  renewal looks at.  Three cases are excepted in the property, and happen
  (section 7): a cancellation that had passed its checks before
  (`handler.raced`), a lock that is cleared after the request was sent, and a
  request that is carried out after it was given up.
* `DataCorrect`: `Spec => DataKept`, with none of these exceptions, from `Purging`:
  an instance whose orders the purge has looked at stays eligible until the data
  is deleted, late or not.

Only model-checked are the liveness properties, which are beyond the prover:
`Settles` of `TaskQueue`, `Resolves` of `PlanChange`, `Reachable`, `CallsEnd` and
`RevokedEnds` of `Tunnel`, `ReadyReported` and `LossReported` of `SelfHosted`,
`DueDestroyEnds` and `DuePurgeEnds` of `Lifecycle`.

## 7. Divergences found

Where the models disagree with a comment or a document, or show that a promise
one would expect is not kept.  Each names the property that is violated and the
constants that show it, on top of those of the run named.

The task queue and plan changes:

* Resuming a reviewed task clears the instance lock after the task became
  claimable, so two lifecycle tasks of one instance can run together, against
  the comment at `control_plane.go:890`: `OneAgentCall` with a stop and a
  restart, `MaxAttempts = 1`, `Lease = 2`, `Prompt = {"reload", "execute"}` and
  `Events = {"crash", "resume"}`.
* The compensation of a refunded instance is refused for ever and its hold is
  never released, against `task_queue.go:286`: `Resolves` in `pc_resolves` with
  `Events = {"cancel", "refund"}`.
* A change between plans of equal resources never settles, since an UPDATE that
  changes nothing counts as refused, against `plan_change.go:692`: `Resolves`
  with `Resources <- TwoAlike` and no events.
* A handler delayed past its lease between its claim and its reload adopts its
  successor's token and finishes the successor's execution, against the comment
  at `task_queue.go:183`: `TokensInv` and `OnlyClaimantFinishes` in `tq_stale_handler` with
  `Prompt = {}`.
* A resize resumed by an administrator applies the target while the loop
  releases the hold on an earlier observation, against `plan_change.go:720`:
  `ReleasedOnSource` with `Events = {"outage", "resume"}`.
* A cancellation trusts an observation although an abandoned request may still
  be carried out, against `plan_change.go:457`: `OrdersMatchContainer` with
  `Events = {"outage", "cancelled", "late", "cancel"}`.
* A crash between the review of a resize and the blocking of its change leaves a
  change nothing recovers, against `plan_change.go:675`: `Resolves` with
  `Events = {"outage", "latecrash"}`.
* The recovery of an interrupted resize takes an UPDATE that changes nothing for
  a refusal, against `plan_change.go:718`: `Resolves` with `Events = {"crash"}`.
* A settlement that fails once leaves its change blocked beside a succeeded task,
  out of reach of the verification, against `plan_change.go:690`: `Resolves`
  with `Events = {"txfail"}` and 2 attempts.
* `failDeployment` releases a hold without an observation of the source if the
  loop resumed the change just before, against `plan_change.go:676` (event
  `"overtake"`).
* A second change may be requested while the first waits for its verification,
  since `createPlanChange` counts only pending and running tasks
  (`plan_change.go:541`).  Then one is settled or released by what the other has
  made of the container, against "It never guesses" (`plan_change.go:720`):
  `SettledOnTarget`, `ReleasedOnSource` and `OrdersMatchContainer` in
  `pc_resources` with `Changes = {c1, c2}`, one handler, one attempt,
  `MaxOrders = 1` and `Events = {"outage", "cancel"}`.  The money stays in balance
  (`MoneyCorrect`).
* `ReleasedOnSource` also fails with `stall`, `markfail`, `discard`, `late` or
  `overtake` added to the events of `pc_resources`, and `OrdersMatchContainer`
  with `renew` as well: a renewal while the change is blocked is not among the
  orders that the settlement replaces.
* After its compensation was discarded a cancellation cannot be requested
  again, against `control_handlers.go:890` (event `"discard"`): a change stays
  compensating beside a discarded task.

The tunnel and the device client:

* `selfHostedNodeRequest` (`selfhosted_transport.go:97`) overwrites the
  `operationId` of the payload with the one of the URL, which lifecycle requests
  do not have, so the device never writes its journal, against
  `docs/03-部署指南.md:174`.  It also replaces `name` by the first path element, so
  that creation and update on a self-hosted node fail.
* A command that was cancelled on the device reaches its caller as an ordinary
  error, so the task is tried again, against `control_plane.go:967` ("Never retry
  it automatically").
* `restart` of a self-hosted instance is `compose up -d`, which does not restart
  a container that runs.
* `proxyLocal` (`gateway/main.go:911`) waits for ever when the tunnel ends in the
  middle of an answer.
* A pipe of the device is registered inside the goroutine that the frame starts
  (`control/v2.go:922`), so data right behind it may find no pipe.

Self-hosted nodes:

* An instance may be created on a node that is revoked between the check and the
  transaction, and a late report makes a revoked node ready again, against
  `control_tunnel.go:500`: `RevokedStaysOut` in `sh_nodes`.
* An enrolment whose configuration frame is lost, or an authorization whose poll
  answer is lost, leaves a device that no server knows: `NoStranded`.
* A device that is gone is noted by one INSERT whose error is ignored
  (`gateway/main.go:508`) and that nothing repeats; `LossReported` assumes that it
  succeeds.
* A change of the quota races a creation, the automatic quota may fall below
  what is allocated, and retry-deploy does not look at it: the nodes in
  `excess`.
* `controlDeviceRevoke`, which no route uses any more, would count the nodes with a
  plain read and revoke an arbitrary one if a second is enrolled meanwhile.

The end of an instance (constants of `lc_ends`):

* A purge that meets an order in force succeeds without doing anything and keeps
  its key, so the data is never purged (`control_plane.go:1404`), against
  `docs/02-架构说明.md:49`: `PurgeNeverLost`.
* Cancelling the cleanup of a failed deployment leaves the instance `stopped`
  and not retryable, against the message of `control_handlers.go:1331`:
  `CleanupCancelled`.
* The key of a manual plan has nanoseconds where its column has seconds: its own
  task never does anything, and the loop's task does the work.
* `cancelManualDestroy` checks before its transaction, so it may withdraw a
  destruction that the user has hastened and a handler has begun
  (`handler.raced` in `DestroyJustified`).
* Resuming the reviewed destroy of an expired plan clears the lock
  (`control_handlers.go:860`) when a handler may have claimed the task again and
  sent its request; `renewWithWallet` then sees no lock, tolerates the destroy as
  one of an expired plan (`platform_upgrade.go:609`) and withdraws the plan, and the
  Agent destroys the container of an instance in use, against
  `platform_upgrade.go:575`: `InUseSpared` with `SPECIFICATION Spec`.  A destroy
  request that was given up and is carried out after such a renewal does the same.
* An instance that is renewed between the SELECT of `scheduleLifecycle` and its
  transition (`control_plane.go:1534`, `1539`) is expired all the same.
* After a crash between the Agent's destroy and its commit a renewal brings an
  instance back into use without a container.
* A crash between the UPDATE and the INSERT of a manual plan leaves a plan that
  cannot be cancelled; `discardReviewTask` and `discardAllAdminTasks` keep the
  key, so that nothing plans the task again; `resumeReviewTask` does not reset
  the attempts.

Money and time (constants of `bl_accounts`):

* A renewal after a gap makes an instance that cannot be refunded
  (`refund.go:107`), against `docs/06` and `docs/07`: `RefundPossible`.
* The loop expires the orders of an instance in a second statement, which also
  marks a renewal paid in between as expired (`control_plane.go:1544`):
  `InForceUntilItsEnd`.
* A renewal during a pending change is for the old plan and stays so after the
  change: `OrdersOnPlan`.
* The order of a failed deployment stays `deployment_failed` when the retry
  succeeds, which only activates orders in deployment (`control_plane.go:1183`):
  the instance runs without an order in force and cannot be renewed
  (`RunningCanRenew`).
* The code of a programme that was paused is not enabled again with it
  (`control_loops.go:159`).
* `completePlanChange` does not check that its UPDATE of a replaced order hit a
  row (`plan_change.go:933`), and `createPlanChange` counts the capacity of a
  node over instance rows that do not have the new size yet
  (`plan_change.go:571`).

## 8. What is not modelled

Left out for good: the HTTP server, sessions and OIDC exchange, the web terminal
(a byte relay), telemetry and statistics (read only), migrations (run once under
a database lock) and the frontend (a client without state of the system's).

Still to be modelled (section 2): the stored access settings and generations as
numbers, tickets, the steps of a request inside the Agent, the capacity of
platform nodes (`selectNodeForPlan`).

Within the modelled parts:

* everywhere: task events, audit entries, diagnostics, notifications, texts;
* `TaskQueue`: `desired_generation` as a number (only whether it is older
  counts), retry delays as lengths (only whether they have passed counts);
* `PlanChange`: the quote, the prices and the time (in `Billing`), capacity, and
  the ability of a host to resize.  `failPlanChange` commits even if its UPDATE of
  the change fails (`plan_change.go:983`), which would return the money of a change
  that stays open.  `TryFail` has no such step: the row is locked by the
  transaction, `finishTask` has stored the same text before, the other values are
  constants, and a deadlock or a lost connection undoes the whole transaction;
* `Billing`: recharge requests, price edits and delisting of plans, and the
  orders with manual payment, whose routes answer `manualPaymentDisabled`
  (`server.go:220`); other customers only take from limits and budgets.  A
  benefit is not consumed by the replacement orders of a change, since the code
  passes no programme there.  Administrators change the status, the limits and the
  code of a programme, while its value, audience, trigger, scope, plans, terms,
  times and the limits of the code itself are constants;
* `Tunnel`: proxied HTTP requests, terminals and file access over the same
  sessions, status reports (in `SelfHosted`), the negotiation of a session, and
  the first control protocol (`controlConnect`, `controlGateway`), which no route
  reaches;
* `SelfHosted`: the inventory of containers in a report, names, and the routes
  to local terminals;
* `Lifecycle`: reminders before the end, and the queue beyond what
  `TaskQueue` shows of it.
