------------------------------ MODULE TaskQueue ------------------------------
(***************************************************************************)
(* The durable task queue of the control plane.  A task row (MySQL) is     *)
(* announced through RabbitMQ, claimed by a delivery handler under a lease *)
(* and an execution token, fenced by the instance lock before every Agent  *)
(* request, and finished, retried or handed to review.  Leases of crashed  *)
(* or stalled handlers are recovered by the control loop.                  *)
(*                                                                         *)
(* Time is relative: leases, locks and run_after are counted in ticks left.*)
(* One action is one SQL statement or transaction, or one Agent request.   *)
(***************************************************************************)
EXTENDS Integers, FiniteSets, InstanceStates

CONSTANTS
    Tasks, Instances,
    Workers,       \* delivery handlers: the goroutines of all control planes
    Tokens,        \* execution tokens; newID never returns one still in use
    ActionOf,      \* the action column of each task
    InstanceOf,    \* the instance_id column of each task
    Generated,     \* tasks inserted with a non-zero desired_generation
    Lease,         \* ticks of a lease and of an instance lock (5 minutes)
    MaxAttempts,   \* the literal 3 of finishTask
    MaxCopies,     \* bound: copies of one task's message in the broker
    MaxTasks,      \* bound: how many of the Tasks a behaviour creates
    Prompt,        \* stages of a live handler assumed to take less than a lease
    Events,        \* what the surroundings do in a run, see EventKinds
    SelfHosted,    \* instances on self-hosted nodes, whose device can be revoked
    InitStatus,    \* where instances are when the model starts
    None

\* Handlers crash, the broker reconnects, a newer desired state supersedes
\* tasks, nodes are disabled, other components move the instance, users cancel,
\* administrators retry, resume and discard.
EventKinds == {"crash", "reconnect", "supersede", "disable", "move",
               "cancel", "retry", "resume", "discard"}

ASSUME TaskQueueAssumption ==
    /\ ActionOf \in [Tasks -> LifecycleActions]
    /\ InstanceOf \in [Tasks -> Instances]
    /\ Generated \subseteq Tasks
    /\ Lease \in Nat \ {0} /\ MaxAttempts \in Nat \ {0} /\ MaxCopies \in Nat \ {0}
    /\ MaxTasks \in Nat
    /\ Prompt \subseteq {"start", "reload", "execute"} /\ Events \subseteq EventKinds
    /\ SelfHosted \subseteq Instances
    /\ InitStatus \subseteq InstanceStatus \ {"deploying"}
    /\ None \notin Tasks \cup Tokens \cup Workers

VARIABLES
    task,      \* xcloud_tasks rows
    lock,      \* active_task_* columns of xcloud_instances
    inst,      \* status column of xcloud_instances
    stale,     \* tasks whose desired_generation the instance has left behind
    down,      \* instances whose node is disabled or whose device is revoked
    queue,     \* number of messages per task waiting in xcloud.deployment
    worker,    \* local state of every delivery handler
    claimant,  \* history: the handler that made a task's latest claim
    followup,  \* second statements of requests that have done their first
    resumed    \* history: review tasks an administrator has resumed

history == <<followup, resumed>>
vars == <<task, lock, inst, stale, down, queue, worker, claimant, history>>
-----------------------------------------------------------------------------
(* Types.                                                                  *)

\* Task status; "unborn" and "requested" precede the INSERT: no request yet,
\* and a request that has passed its activeLifecycleTask check.
TaskStatus ==
    {"unborn", "requested", "pending", "running", "succeeded", "failed",
     "needs_review", "cancelled", "discarded"}

\* attempts saturates at MaxAttempts: the code only compares it with 3.
TaskRow == [status : TaskStatus, attempts : 0..MaxAttempts,
            token : Tokens \cup {None}, lease : 0..Lease, wait : 0..1]

LockRow == [task : Tasks \cup {None}, token : Tokens \cup {None}, left : 0..Lease]

Executing == {"loaded", "fenced", "calling", "returned"}

WorkerRow ==
    [pc : {"idle", "claimed", "finishing", "releasing", "failing"} \cup Executing,
     task : Tasks \cup {None}, token : Tokens \cup {None},
     attempts : 0..MaxAttempts, seen : InstanceStatus, leg : 1..2,
     result : {"ok", "error", "cancelled"}, unacked : BOOLEAN]

\* Only an idle handler is without a task, and without a delivery.
WorkerState == {r \in WorkerRow : r.task = None => r.pc = "idle" /\ ~ r.unacked}

\* What a request or the loop still has to do after its first UPDATE.
Followup == [task : Tasks, do : {"insert", "undeploy", "resume", "discard", "finalize"}]

TypeOK ==
    /\ task \in [Tasks -> TaskRow]
    /\ lock \in [Instances -> LockRow]
    /\ inst \in [Instances -> InstanceStatus]
    /\ stale \subseteq Tasks
    /\ down \subseteq Instances
    /\ queue \in [Tasks -> 0..MaxCopies]
    /\ worker \in [Workers -> WorkerState]
    /\ claimant \in [Tasks -> Workers \cup {None}]
    /\ followup \subseteq Followup
    /\ resumed \subseteq Tasks

NoTaskRow == [status |-> "unborn", attempts |-> 0, token |-> None, lease |-> 0, wait |-> 0]
FreeLock == [task |-> None, token |-> None, left |-> 0]
IdleWorker == [pc |-> "idle", task |-> None, token |-> None, attempts |-> 0,
               seen |-> "none", leg |-> 1, result |-> "ok", unacked |-> FALSE]

Init ==
    /\ task = [t \in Tasks |-> NoTaskRow]
    /\ lock = [i \in Instances |-> FreeLock]
    /\ inst \in [Instances -> InitStatus]
    /\ stale = {}
    /\ down = {}
    /\ queue = [t \in Tasks |-> 0]
    /\ worker = [w \in Workers |-> IdleWorker]
    /\ claimant = [t \in Tasks |-> None]
    /\ followup = {}
    /\ resumed = {}
-----------------------------------------------------------------------------
(* Conditions of the SQL statements.                                       *)

TokensInUse ==
    {task[t].token : t \in Tasks} \cup {lock[i].token : i \in Instances}
        \cup {worker[w].token : w \in Workers}

\* A mistake: ownership judged by the status alone.
OwnsAnyLease(w) ==
    LET t == worker[w].task IN
    worker[w].token # None /\ task[t].status = "running" /\ task[t].lease > 0

\* WHERE id=? AND status='running' AND execution_token=? AND claim_expires_at>NOW()
OwnsLease(w) ==
    LET t == worker[w].task IN
    /\ worker[w].token # None
    /\ task[t].status = "running"
    /\ task[t].token = worker[w].token
    /\ task[t].lease > 0

\* active_task_id=t.id AND active_task_token=execution_token AND not expired
HoldsLock(w) ==
    LET i == InstanceOf[worker[w].task] IN
    /\ lock[i].task = worker[w].task
    /\ lock[i].token = worker[w].token
    /\ lock[i].left > 0

\* A mistake: the lock given away one tick before it expires.
LockNearlyAvailable(i) == lock[i].left <= 1

\* active_task_expires_at IS NULL OR active_task_expires_at<=NOW()
LockAvailable(i) == lock[i].left = 0

\* A mistake: an execution token that need not be new.
AnyTokens == Tokens

FreshTokens == Tokens \ TokensInUse

\* taskMayCallAgent with the expected states of the task's action.
taskMayCallAgent(w) ==
    LET t == worker[w].task IN
    /\ OwnsLease(w) /\ HoldsLock(w)
    /\ t \notin stale
    /\ InstanceOf[t] \notin down
    /\ inst[InstanceOf[t]] \in ExpectedStates(ActionOf[t])

Active(i) ==
    {t \in Tasks : InstanceOf[t] = i /\ task[t].status \in {"pending", "running"}}

\* A destroy or purge whose run_after lies ahead.
Deferred(t) ==
    task[t].status = "pending" /\ ActionOf[t] \in {"destroy", "purge"} /\ task[t].wait > 0

\* activeLifecycleTask: a deferred destroy or purge and a pending
\* compensation do not count.
activeLifecycleTask(i) ==
    \E t \in Active(i) :
        /\ ~ Deferred(t)
        /\ ~ (task[t].status = "pending" /\ ActionOf[t] = "compensate-resize")

\* Tasks of i that carry an older desired_generation once it is bumped.
Outdated(i) ==
    {t \in Generated : InstanceOf[t] = i /\ task[t].status \notin {"unborn", "requested"}}

\* enqueueTask: publish a message; it may fail, and the copies are bounded.
Enqueue(t) ==
    \/ queue' = [queue EXCEPT ![t] = IF @ < MaxCopies THEN @ + 1 ELSE @]
    \/ queue' = queue

\* A mistake: counting on below zero.
TickedOn(n) == n - 1

Ticked(n) == IF n > 0 THEN n - 1 ELSE 0
-----------------------------------------------------------------------------
(* Creating tasks.                                                         *)

Insert(t) == task' = [task EXCEPT ![t].status = "pending"]

\* purchaseWithWallet / confirmOrder: the instance and its task in one tx.
CreateInstance(t) ==
    LET i == InstanceOf[t] IN
    /\ ActionOf[t] = "create" /\ task[t].status = "unborn" /\ inst[i] = "none"
    /\ inst' = [inst EXCEPT ![i] = "deploying"]
    /\ Insert(t) /\ Enqueue(t)
    /\ UNCHANGED <<lock, stale, down, worker, claimant, history>>

\* States from which queueInstanceAction forwards a user's action.
RequestStates(action) ==
    CASE action = "retry-deploy" -> {"deployment_failed"}
      [] action = "update"       -> {"running"}
      [] action = "reinstall"    -> {"running", "stopped"}
      [] OTHER                   -> InstanceStatus \ {"none", "destroyed", "purged"}

\* queueInstanceAction up to its activeLifecycleTask check ...
RequestAction(t) ==
    /\ userCancelableTaskAction(ActionOf[t]) /\ task[t].status = "unborn"
    /\ inst[InstanceOf[t]] \in RequestStates(ActionOf[t])
    /\ ~ activeLifecycleTask(InstanceOf[t])
    /\ task' = [task EXCEPT ![t].status = "requested"]
    /\ UNCHANGED <<lock, inst, stale, down, queue, worker, claimant, history>>

\* ... then retry-deploy and update move the instance, conditionally (of an
\* update only runtime_status, which is not kept), and refuse the request when
\* it has changed ...
MovesFirst(t) == ActionOf[t] \in {"retry-deploy", "update"}
Inserting(t) == [task |-> t, do |-> "insert"]

MoveRequested(t) ==
    LET i == InstanceOf[t] IN
    /\ task[t].status = "requested" /\ MovesFirst(t) /\ Inserting(t) \notin followup
    /\ inst[i] \in RequestStates(ActionOf[t])
    /\ inst' = IF ActionOf[t] = "retry-deploy"
               THEN [inst EXCEPT ![i] = "deploying"] ELSE inst
    /\ followup' = followup \cup {Inserting(t)}
    /\ UNCHANGED <<task, lock, stale, down, queue, worker, claimant, resumed>>

\* The conditional update missed: 409, nothing queued.
RefuseRequested(t) ==
    /\ task[t].status = "requested" /\ MovesFirst(t) /\ Inserting(t) \notin followup
    /\ inst[InstanceOf[t]] \notin RequestStates(ActionOf[t])
    /\ task' = [task EXCEPT ![t].status = "unborn"]
    /\ UNCHANGED <<lock, inst, stale, down, queue, worker, claimant, history>>

\* ... and its later INSERT, which does not look at the instance again.  A
\* reinstall bumps desired_generation in the same transaction, which strands
\* the instance's older generated tasks.
InsertRequested(t) ==
    LET i == InstanceOf[t] IN
    /\ task[t].status = "requested"
    /\ MovesFirst(t) => Inserting(t) \in followup
    /\ followup' = followup \ {Inserting(t)}
    /\ stale' = IF ActionOf[t] = "reinstall" /\ inst[i] \in {"running", "stopped"}
                THEN stale \cup Outdated(i) ELSE stale
    /\ Insert(t) /\ Enqueue(t)
    /\ UNCHANGED <<lock, inst, down, worker, claimant, resumed>>

\* A failed retry-deploy leaves no instance deploying, unless it has moved on.
Undeployed(t) ==
    LET i == InstanceOf[t] IN
    IF ActionOf[t] = "retry-deploy" /\ inst[i] = "deploying"
    THEN [inst EXCEPT ![i] = "deployment_failed"] ELSE inst

\* The INSERT failed: the move is taken back.
UndoRequested(t) ==
    /\ task[t].status = "requested" /\ Inserting(t) \in followup
    /\ followup' = followup \ {Inserting(t)}
    /\ task' = [task EXCEPT ![t].status = "unborn"]
    /\ inst' = Undeployed(t)
    /\ UNCHANGED <<lock, stale, down, queue, worker, claimant, resumed>>

\* scheduleLifecycle: a destroy or purge that has come due, unless one waits;
\* scheduleManualDestroy inserts its destroy at once, deferred to destroy_at.
scheduleLifecycle(t) ==
    LET i == InstanceOf[t] IN
    /\ task[t].status = "unborn"
    /\ \/ ActionOf[t] = "destroy" /\ inst[i] = "destroy_scheduled"
       \/ ActionOf[t] = "purge" /\ inst[i] = "destroyed"
    /\ ~ \E u \in Active(i) : ActionOf[u] = ActionOf[t]
    /\ \E n \in 0..1 :
        /\ n = 1 => ActionOf[t] = "destroy"
        /\ task' = [task EXCEPT ![t] = [@ EXCEPT !.status = "pending", !.wait = n]]
    /\ IF task'[t].wait = 0 THEN Enqueue(t) ELSE queue' = queue
    /\ UNCHANGED <<lock, inst, stale, down, worker, claimant, history>>

\* setInstanceHostAccess, createPlanChange, cancelPlanChange: the check for
\* other work and the INSERT share a serializable transaction, which also
\* bumps desired_generation.  A cancelled plan change retires its resize.
InsertTx(t) ==
    LET i == InstanceOf[t]
        resizes == {u \in Tasks : InstanceOf[u] = i /\ ActionOf[u] = "resize"} IN
    /\ task[t].status = "unborn"
    /\ \/ /\ ActionOf[t] = "host-access"
          /\ inst[i] \in {"running", "stopped", "destroy_scheduled"}
          /\ \A u \in Active(i) : Deferred(u)
       \/ /\ ActionOf[t] = "resize"
          /\ inst[i] \in {"running", "stopped"}
          /\ \A u \in Active(i) : ActionOf[u] = "host-access"
       \/ /\ ActionOf[t] = "compensate-resize"
          /\ \E u \in resizes : task[u].status \notin {"unborn", "succeeded", "cancelled"}
    /\ task' = [u \in Tasks |->
            IF u = t THEN [task[u] EXCEPT !.status = "pending"]
            ELSE IF /\ ActionOf[t] = "compensate-resize" /\ u \in resizes
                    /\ task[u].status = "pending"
                 THEN [task[u] EXCEPT !.status = "cancelled"] ELSE task[u]]
    /\ stale' = IF ActionOf[t] = "compensate-resize" /\ inst[i] \notin {"running", "stopped"}
                THEN stale ELSE stale \cup Outdated(i)
    /\ Enqueue(t)
    /\ UNCHANGED <<lock, inst, down, worker, claimant, history>>
-----------------------------------------------------------------------------
(* processDelivery: one handler's run through a delivered message.         *)

\* The columns claimTask writes, and those finishTask writes.
Claimed(row, k) ==
    [row EXCEPT !.status = "running", !.token = k, !.lease = Lease,
                !.attempts = IF @ < MaxAttempts THEN @ + 1 ELSE @]

Finished(row, next) ==
    [row EXCEPT !.status = next, !.token = None, !.lease = 0,
                !.wait = IF next = "pending" THEN 1 ELSE @]

\* claimTask: take the row under a fresh token, and the instance lock with it.
\* run_after is not part of the condition.  The token is some unused one,
\* which one does not matter.  ("reload": no handler sleeps between its
\* claim and its reload until somebody else claims the same task.)
claimTask(w, t) ==
    LET i == InstanceOf[t] IN
    /\ worker[w].pc = "idle" /\ queue[t] > 0
    /\ task[t].status = "pending" /\ LockAvailable(i)
    /\ "reload" \in Prompt => ~ \E v \in Workers : worker[v].pc = "claimed" /\ worker[v].task = t
    /\ \E k \in FreshTokens :
        /\ k = CHOOSE j \in FreshTokens : TRUE
        /\ task' = [task EXCEPT ![t] = Claimed(@, k)]
        /\ lock' = [lock EXCEPT ![i] = [task |-> t, token |-> k, left |-> Lease]]
    /\ queue' = [queue EXCEPT ![t] = @ - 1]
    /\ worker' = [worker EXCEPT ![w] =
            [IdleWorker EXCEPT !.pc = "claimed", !.task = t, !.unacked = TRUE]]
    /\ claimant' = [claimant EXCEPT ![t] = w]
    /\ UNCHANGED <<inst, stale, down, history>>

\* The claim misses (row not pending, lock taken, SQL error): Ack and forget.
ClaimRefused(w, t) ==
    /\ worker[w].pc = "idle" /\ queue[t] > 0
    /\ queue' = [queue EXCEPT ![t] = @ - 1]
    /\ UNCHANGED <<task, lock, inst, stale, down, worker, claimant, history>>

\* The handler leaves the delivery (Ack or Nack to the dead-letter queue).
Leave(w) == worker' = [worker EXCEPT ![w] = IdleWorker]

\* loadTask after the claim: whatever token the row holds NOW becomes the
\* handler's; executeTask then reads item.Status.
ReloadTask(w) ==
    LET t == worker[w].task IN
    /\ worker[w].pc = "claimed"
    /\ worker' = [worker EXCEPT ![w] =
            [@ EXCEPT !.pc = "loaded", !.token = task[t].token,
                      !.attempts = task[t].attempts, !.seen = inst[InstanceOf[t]]]]
    /\ UNCHANGED <<task, lock, inst, stale, down, queue, claimant, history>>

ReloadFails(w) ==
    /\ worker[w].pc = "claimed"
    /\ Leave(w)
    /\ UNCHANGED <<task, lock, inst, stale, down, queue, claimant, history>>

\* The fencing check that precedes every container-changing request.
PassFence(w) ==
    /\ worker[w].pc = "loaded" /\ taskMayCallAgent(w)
    /\ worker' = [worker EXCEPT ![w].pc = "fenced"]
    /\ UNCHANGED <<task, lock, inst, stale, down, queue, claimant, history>>

\* The fence refuses, or a read or a capability check of executeTask fails.
ExecuteFails(w) ==
    /\ worker[w].pc \in {"loaded", "fenced"}
    /\ worker' = [worker EXCEPT ![w] = [@ EXCEPT !.pc = "finishing", !.result = "error"]]
    /\ UNCHANGED <<task, lock, inst, stale, down, queue, claimant, history>>

\* nodeRequest leaves the control plane: nothing is checked any more.
CallAgent(w) ==
    /\ worker[w].pc = "fenced"
    /\ worker' = [worker EXCEPT ![w].pc = "calling"]
    /\ UNCHANGED <<task, lock, inst, stale, down, queue, claimant, history>>

\* The Agent answers 2xx: next leg (back to the fence), or commit.
AgentSucceeds(w) ==
    /\ worker[w].pc = "calling"
    /\ worker' = [worker EXCEPT ![w] =
            IF @.leg < AgentLegs(ActionOf[@.task])
            THEN [@ EXCEPT !.pc = "loaded", !.leg = 2]
            ELSE [@ EXCEPT !.pc = "returned"]]
    /\ UNCHANGED <<task, lock, inst, stale, down, queue, claimant, history>>

\* An error or a timeout, or a self-hosted command_cancelled.
AgentFails(w) ==
    /\ worker[w].pc = "calling"
    /\ \E r \in {"error", "cancelled"} :
        /\ r = "cancelled" => InstanceOf[worker[w].task] \in SelfHosted
        /\ worker' = [worker EXCEPT ![w] = [@ EXCEPT !.pc = "finishing", !.result = r]]
    /\ UNCHANGED <<task, lock, inst, stale, down, queue, claimant, history>>

\* executeDestroyTask and executePurgeTask return without a request when the
\* schedule they were created for no longer stands: the task succeeds.
SkipAgent(w) ==
    /\ worker[w].pc = "fenced" /\ ActionOf[worker[w].task] \in {"destroy", "purge"}
    /\ worker' = [worker EXCEPT ![w].pc = "finishing"]
    /\ UNCHANGED <<task, lock, inst, stale, down, queue, claimant, history>>

\* Where a successful execution moves the instance, from the status it saw.
CommitTarget(action, seen) ==
    CASE action \in {"create", "retry-deploy", "reinstall"} -> "running"
      [] action \in {"start", "restart"} ->
            IF seen = "destroy_scheduled" THEN seen ELSE "running"
      [] action = "stop"    -> IF seen = "destroy_scheduled" THEN seen ELSE "stopped"
      [] action = "destroy" -> "destroyed"
      [] action = "purge"   -> "purged"
      [] OTHER              -> seen

\* The status the conditional update of the instance demands.
CommitSource(action, seen) ==
    CASE action \in {"create", "retry-deploy"} -> "deploying"
      [] action = "destroy" -> "destroy_scheduled"
      [] action = "purge"   -> "destroyed"
      [] OTHER              -> seen

\* A mistake: the instance is updated whatever its status.
CommitBlind(w, from) == TRUE

\* The row the conditional update of the instance hits.
CommitHits(w, from) ==
    /\ inst[InstanceOf[worker[w].task]] = from
    /\ ActionOf[worker[w].task] \in {"destroy", "purge"} => OwnsLease(w) /\ HoldsLock(w)

\* transitionInstance after the Agent call.  Only destroy and purge fence the
\* update; they and reinstall treat a missed update as an error.
CommitResult(w) ==
    LET a    == ActionOf[worker[w].task]
        i    == InstanceOf[worker[w].task]
        from == CommitSource(a, worker[w].seen)
        to   == CommitTarget(a, worker[w].seen)
        legal == canTransitionInstance(from, to)
        ok   == legal /\ (a \in {"destroy", "purge", "reinstall"} => CommitHits(w, from))
    IN
    /\ worker[w].pc = "returned"
    /\ inst' = [inst EXCEPT ![i] = IF legal /\ CommitHits(w, from) THEN to ELSE @]
    /\ worker' = [worker EXCEPT ![w] =
            [@ EXCEPT !.pc = "finishing", !.result = IF ok THEN "ok" ELSE "error"]]
    /\ UNCHANGED <<task, lock, stale, down, queue, claimant, history>>

\* A database error instead of the commit (or of the plan change's settlement).
CommitFails(w) ==
    /\ worker[w].pc = "returned"
    /\ worker' = [worker EXCEPT ![w] = [@ EXCEPT !.pc = "finishing", !.result = "error"]]
    /\ UNCHANGED <<task, lock, inst, stale, down, queue, claimant, history>>

\* A mistake: retrying without a limit.
FinishRetries(action, result, attempts) ==
    IF result = "ok" THEN "succeeded" ELSE "pending"

\* The row finishTask leaves behind.
FinishStatus(action, result, attempts) ==
    CASE result = "ok"        -> "succeeded"
      [] result = "cancelled" -> "needs_review"
      [] result = "error" /\ attempts >= MaxAttempts /\ action = "resize" -> "needs_review"
      [] result = "error" /\ attempts >= MaxAttempts
            /\ action \notin {"resize", "compensate-resize"} -> "failed"
      [] OTHER -> "pending"

\* finishTask, accepted only from the owner of an unexpired lease.
finishTask(w) ==
    LET t    == worker[w].task
        next == FinishStatus(ActionOf[t], worker[w].result, worker[w].attempts)
    IN
    /\ worker[w].pc = "finishing" /\ OwnsLease(w)
    /\ task' = [task EXCEPT ![t] = Finished(@, next)]
    /\ worker' = [worker EXCEPT ![w].pc = "releasing"]
    /\ UNCHANGED <<lock, inst, stale, down, queue, claimant, history>>

\* The lease is gone, or the UPDATE fails: Ack; the replacement owns the task.
FinishRefused(w) ==
    /\ worker[w].pc = "finishing"
    /\ Leave(w)
    /\ UNCHANGED <<task, lock, inst, stale, down, queue, claimant, history>>

\* releaseInstanceTaskLock, by task id and token.
releaseInstanceTaskLock(w) ==
    LET i == InstanceOf[worker[w].task] IN
    /\ worker[w].pc = "releasing"
    /\ lock' = IF lock[i].task = worker[w].task /\ lock[i].token = worker[w].token
               THEN [lock EXCEPT ![i] = FreeLock] ELSE lock
    /\ IF worker[w].result = "ok"
       THEN Leave(w) ELSE worker' = [worker EXCEPT ![w].pc = "failing"]
    /\ UNCHANGED <<task, inst, stale, down, queue, claimant, history>>

\* failDeployment: a deployment out of attempts marks the instance.
failDeployment(w) ==
    LET t == worker[w].task
        i == InstanceOf[t] IN
    /\ worker[w].pc = "failing"
    /\ inst' = IF /\ ActionOf[t] \in {"create", "retry-deploy"}
                  /\ worker[w].attempts >= MaxAttempts
                  /\ inst[i] = "deploying"
               THEN [inst EXCEPT ![i] = "deployment_failed"] ELSE inst
    /\ Leave(w)
    /\ UNCHANGED <<task, lock, stale, down, queue, claimant, history>>

\* renewTaskLease: the lease while it is owned, then, by token alone, the lock.
\* The second statement may fail or find the lock taken away.  A renewal may
\* still be under way when executeTask has returned.
renewTaskLease(w) ==
    LET t == worker[w].task
        i == InstanceOf[t] IN
    /\ worker[w].pc \in Executing \cup {"finishing"} /\ OwnsLease(w)
    /\ task' = [task EXCEPT ![t].lease = Lease]
    /\ \/ lock' = lock
       \/ /\ lock[i].task = t /\ lock[i].token = worker[w].token
          /\ lock' = [lock EXCEPT ![i].left = Lease]
    /\ UNCHANGED <<inst, stale, down, queue, worker, claimant, history>>

\* The control plane dies: its handlers are gone, the broker redelivers.
Crash(w) ==
    /\ "crash" \in Events /\ worker[w].pc # "idle"
    /\ IF worker[w].unacked THEN Enqueue(worker[w].task) ELSE queue' = queue
    /\ Leave(w)
    /\ UNCHANGED <<task, lock, inst, stale, down, claimant, history>>

\* The broker connection drops: the message is redelivered, the handler goes on.
Redeliver(w) ==
    /\ "reconnect" \in Events /\ worker[w].unacked
    /\ worker' = [worker EXCEPT ![w].unacked = FALSE]
    /\ queue' = [queue EXCEPT ![worker[w].task] = IF @ < MaxCopies THEN @ + 1 ELSE @]
    /\ UNCHANGED <<task, lock, inst, stale, down, claimant, history>>
-----------------------------------------------------------------------------
(* The control loop.                                                       *)

\* recoverPendingTasks, every 30 seconds and after a reconnect.
RecoverPending(t) ==
    /\ task[t].status = "pending" /\ task[t].wait = 0
    /\ Enqueue(t)
    /\ UNCHANGED <<task, lock, inst, stale, down, worker, claimant, history>>

\* A mistake: every interrupted execution is requeued.
AlwaysRepeat(t) == TRUE

\* What an interrupted execution may repeat without anybody looking.
SafeToRepeat(t) ==
    \/ ActionOf[t] = "compensate-resize"
    \/ /\ ~ dangerousRecoveredTask(ActionOf[t])
       /\ safeRecoveryState(ActionOf[t], inst[InstanceOf[t]])

\* recoverExpiredTaskLeases for one running task.  (safeRecoveryState is read
\* just before the UPDATE; the fence looks at the instance again.)
RecoverLease(t) ==
    /\ task[t].status = "running" /\ task[t].lease = 0
    /\ task' = [task EXCEPT ![t] =
            [@ EXCEPT !.status = IF SafeToRepeat(t) THEN "pending" ELSE "needs_review",
                      !.token = None, !.wait = 0]]
    /\ IF SafeToRepeat(t) THEN Enqueue(t) ELSE queue' = queue
    /\ UNCHANGED <<lock, inst, stale, down, worker, claimant, history>>

quarantineDangerousFailedTasks(t) ==
    /\ task[t].status = "failed" /\ ActionOf[t] \in QuarantinedActions
    /\ task' = [task EXCEPT ![t].status = "needs_review"]
    /\ UNCHANGED <<lock, inst, stale, down, queue, worker, claimant, history>>

\* reconcileUncertainSelfHostedOperations: the Agent reports the desired state.
\* (Any task in review: whether its operation row is still open is not kept.)
\* First the instance moves (finalizeSafeReconciledTask) ...
ReconcileOperation(t) ==
    LET a    == ActionOf[t]
        i    == InstanceOf[t]
        next == CASE a \in {"create", "retry-deploy"} -> "running"
                  [] inst[i] = "destroy_scheduled" -> inst[i]
                  [] a = "stop" -> "stopped"
                  [] OTHER -> "running" IN
    /\ i \in SelfHosted \ down /\ task[t].status = "needs_review"
    /\ a \in {"create", "retry-deploy", "start", "stop", "restart"}
    /\ canTransitionInstance(inst[i], next)
    /\ inst' = [inst EXCEPT ![i] = next]
    /\ followup' = followup \cup {[task |-> t, do |-> "finalize"]}
    /\ UNCHANGED <<task, lock, stale, down, queue, worker, claimant, resumed>>

\* ... then the task succeeds, unless it has left review meanwhile.
FinalizeOperation(t) ==
    /\ [task |-> t, do |-> "finalize"] \in followup
    /\ followup' = followup \ {[task |-> t, do |-> "finalize"]}
    /\ task' = IF task[t].status = "needs_review"
               THEN [task EXCEPT ![t].status = "succeeded"] ELSE task
    /\ UNCHANGED <<lock, inst, stale, down, queue, worker, claimant, resumed>>

\* reconcileRecoveredPlanChange: the node reports the target or the source.
ReconcileResize(t) ==
    /\ ActionOf[t] = "resize" /\ task[t].status = "needs_review"
    /\ \E s \in {"succeeded", "failed"} : task' = [task EXCEPT ![t].status = s]
    /\ UNCHANGED <<lock, inst, stale, down, queue, worker, claimant, history>>

Expiring(n) == n = 1

TickedRow(row) == [row EXCEPT !.lease = Ticked(@), !.wait = Ticked(@)]

\* Time passes.  ("execute": a request is over after three minutes and the
\* lease is renewed every 30 seconds, so a live execution does not outlive the
\* five minutes of its lease and lock.  "start": nor does a handler sleep that
\* long between its claim and its reload.)
Tick ==
    /\ "execute" \in Prompt => \A w \in Workers :
            worker[w].pc \in Executing \cup {"finishing"} /\ OwnsLease(w) =>
                /\ ~ Expiring(task[worker[w].task].lease)
                /\ HoldsLock(w) => ~ Expiring(lock[InstanceOf[worker[w].task]].left)
    /\ "start" \in Prompt => \A w \in Workers :
            worker[w].pc = "claimed" => ~ Expiring(task[worker[w].task].lease)
    /\ task' = [t \in Tasks |-> TickedRow(task[t])]
    /\ lock' = [i \in Instances |-> [lock[i] EXCEPT !.left = Ticked(@)]]
    /\ <<task', lock'>> # <<task, lock>>
    /\ UNCHANGED <<inst, stale, down, queue, worker, claimant, history>>
-----------------------------------------------------------------------------
(* Users and administrators.                                               *)

\* A mistake: a running task can be cancelled as well.
CancellableRunning(t) ==
    task[t].status \in {"pending", "running"} /\ userCancelableTaskAction(ActionOf[t])

\* A user retracts a task only while it waits in the queue.
Cancellable(t) == task[t].status = "pending" /\ userCancelableTaskAction(ActionOf[t])

\* cancelQueuedInstanceTask: the task first, and of a retry-deploy ...
CancelQueued(t) ==
    /\ "cancel" \in Events /\ Cancellable(t)
    /\ task' = [task EXCEPT ![t] = [@ EXCEPT !.status = "cancelled", !.token = None]]
    /\ followup' = IF ActionOf[t] = "retry-deploy"
                   THEN followup \cup {[task |-> t, do |-> "undeploy"]} ELSE followup
    /\ UNCHANGED <<lock, inst, stale, down, queue, worker, claimant, resumed>>

\* ... then the instance, when the queue cancellation has won.
UndoDeploy(t) ==
    /\ [task |-> t, do |-> "undeploy"] \in followup
    /\ followup' = followup \ {[task |-> t, do |-> "undeploy"]}
    /\ inst' = Undeployed(t)
    /\ UNCHANGED <<task, lock, stale, down, queue, worker, claimant, resumed>>

\* cancelManualDestroy: the deferred destroy and the instance in one tx.  (Its
\* activeLifecycleTask check was made earlier, outside the transaction.)
CancelDestroy(t) ==
    LET i == InstanceOf[t] IN
    /\ "cancel" \in Events
    /\ ActionOf[t] = "destroy" /\ Deferred(t) /\ inst[i] = "destroy_scheduled"
    /\ task' = [task EXCEPT ![t] = [@ EXCEPT !.status = "cancelled", !.token = None]]
    /\ \E s \in {"running", "stopped"} : inst' = [inst EXCEPT ![i] = s]
    /\ UNCHANGED <<lock, stale, down, queue, worker, claimant, history>>

\* A mistake: the retry button also works on what was discarded.
RetryableDiscarded(t) == task[t].status \in {"failed", "discarded"}

Retryable(t) == task[t].status = "failed"

retryTask(t) ==
    /\ "retry" \in Events /\ Retryable(t)
    /\ IF dangerousRecoveredTask(ActionOf[t])
       THEN /\ task' = [task EXCEPT ![t] = [@ EXCEPT !.status = "needs_review", !.token = None]]
            /\ queue' = queue
       ELSE /\ task' = [task EXCEPT ![t] = [NoTaskRow EXCEPT !.status = "pending"]]
            /\ Enqueue(t)
    /\ UNCHANGED <<lock, inst, stale, down, worker, claimant, history>>

\* resumeReviewTask: the row is pending again, its attempts are kept ...
resumeReviewTask(t) ==
    /\ "resume" \in Events /\ task[t].status = "needs_review"
    /\ task' = [task EXCEPT ![t] = [@ EXCEPT !.status = "pending", !.token = None, !.wait = 0]]
    /\ resumed' = resumed \cup {t}
    /\ followup' = followup \cup {[task |-> t, do |-> "resume"]}
    /\ UNCHANGED <<lock, inst, stale, down, queue, worker, claimant>>

\* discardReviewTask, and discardAllAdminTasks for each of its rows.
discardReviewTask(t) ==
    /\ "discard" \in Events
    /\ \/ task[t].status = "needs_review" /\ task' = [task EXCEPT ![t].status = "failed"]
       \/ /\ task[t].status \in {"failed", "needs_review"}
          /\ task' = [task EXCEPT ![t] = [@ EXCEPT !.status = "discarded", !.token = None]]
    /\ followup' = followup \cup {[task |-> t, do |-> "discard"]}
    /\ UNCHANGED <<lock, inst, stale, down, queue, worker, claimant, resumed>>

\* ... and only then, by task id and whatever the token, the lock is cleared.
ClearLock(t, do) ==
    /\ do \in {"resume", "discard"} /\ [task |-> t, do |-> do] \in followup
    /\ followup' = followup \ {[task |-> t, do |-> do]}
    /\ lock' = [i \in Instances |-> IF lock[i].task = t THEN FreeLock ELSE lock[i]]
    /\ IF do = "resume" THEN Enqueue(t) ELSE queue' = queue
    /\ UNCHANGED <<task, inst, stale, down, worker, claimant, resumed>>
-----------------------------------------------------------------------------
(* What other components do to the rows of the queue.                      *)

\* patchInstanceDesiredHandler bumps desired_generation.
Supersede(i) ==
    /\ "supersede" \in Events /\ Outdated(i) # {}
    /\ stale' = stale \cup Outdated(i)
    /\ UNCHANGED <<task, lock, inst, down, queue, worker, claimant, history>>

\* An administrator disables or enables a node.
NodeFlip(i) ==
    /\ "disable" \in Events /\ i \notin SelfHosted
    /\ down' = IF i \in down THEN down \ {i} ELSE down \cup {i}
    /\ UNCHANGED <<task, lock, inst, stale, queue, worker, claimant, history>>

\* revokeSelfHostedDevice: waiting work is cancelled, running work quarantined.
RevokeDevice(i) ==
    LET running == \E t \in Active(i) : task[t].status = "running" IN
    /\ i \in SelfHosted \ down
    /\ down' = down \cup {i}
    /\ task' = [t \in Tasks |->
            IF t \in Active(i)
            THEN [task[t] EXCEPT !.status = IF @ = "running" THEN "needs_review" ELSE "cancelled",
                                 !.token = None, !.lease = 0]
            ELSE task[t]]
    /\ lock' = IF running THEN [lock EXCEPT ![i] = FreeLock] ELSE lock
    /\ UNCHANGED <<inst, stale, queue, worker, claimant, history>>

\* transitionInstance by someone else than a handler: syncInstanceStates (on
\* what the container looks like), scheduleLifecycle and scheduleManualDestroy
\* (a destroy plan), a renewal that takes the plan back.
OtherWriter(i) ==
    /\ "move" \in Events
    /\ \E edge \in {<<"deploying", "running">>, <<"running", "stopped">>,
                    <<"stopped", "running">>, <<"running", "destroy_scheduled">>,
                    <<"stopped", "destroy_scheduled">>,
                    <<"deployment_failed", "destroy_scheduled">>,
                    <<"destroy_scheduled", "running">>, <<"destroy_scheduled", "stopped">>} :
        inst[i] = edge[1] /\ inst' = [inst EXCEPT ![i] = edge[2]]
    /\ UNCHANGED <<task, lock, stale, down, queue, worker, claimant, history>>
-----------------------------------------------------------------------------
\* The bound of a run: at most MaxTasks of the Tasks are created.
Bounded(t) ==
    \/ task[t].status # "unborn"
    \/ Cardinality({u \in Tasks : task[u].status # "unborn"}) < MaxTasks

Create(t) ==
    CreateInstance(t) \/ RequestAction(t) \/ MoveRequested(t) \/ RefuseRequested(t)
        \/ InsertRequested(t) \/ UndoRequested(t) \/ scheduleLifecycle(t) \/ InsertTx(t)

Handle(w) ==
    \/ \E t \in Tasks : claimTask(w, t) \/ ClaimRefused(w, t)
    \/ ReloadTask(w) \/ ReloadFails(w) \/ PassFence(w) \/ ExecuteFails(w)
    \/ CallAgent(w) \/ SkipAgent(w) \/ AgentSucceeds(w) \/ AgentFails(w)
    \/ CommitResult(w) \/ CommitFails(w) \/ renewTaskLease(w)
    \/ finishTask(w) \/ FinishRefused(w)
    \/ releaseInstanceTaskLock(w) \/ failDeployment(w)
    \/ Crash(w) \/ Redeliver(w)

Loop(t) ==
    RecoverPending(t) \/ RecoverLease(t) \/ quarantineDangerousFailedTasks(t)
        \/ ReconcileOperation(t) \/ FinalizeOperation(t) \/ ReconcileResize(t)

Manage(t) ==
    \/ CancelQueued(t) \/ UndoDeploy(t) \/ CancelDestroy(t) \/ retryTask(t)
    \/ resumeReviewTask(t) \/ discardReviewTask(t)
    \/ \E do \in {"resume", "discard"} : ClearLock(t, do)

Environment(i) == Supersede(i) \/ NodeFlip(i) \/ RevokeDevice(i) \/ OtherWriter(i)

Next ==
    \/ \E t \in Tasks : (Bounded(t) /\ Create(t)) \/ Loop(t) \/ Manage(t)
    \/ \E w \in Workers : Handle(w)
    \/ \E i \in Instances : Environment(i)
    \/ Tick

Spec == Init /\ [][Next]_vars

\* Handlers run (a request ends after three minutes at the latest), time
\* passes, the control loop runs every 30 seconds; and no delivery, reload or
\* finishing UPDATE fails for ever.
Serves(w, t) == worker[w].task = t

Fairness ==
    /\ WF_vars(Tick)
    /\ \A w \in Workers :
        /\ WF_vars(PassFence(w) \/ ExecuteFails(w))
        /\ WF_vars(CallAgent(w) \/ SkipAgent(w) \/ ExecuteFails(w))
        /\ WF_vars(AgentSucceeds(w) \/ AgentFails(w))
        /\ WF_vars(CommitResult(w) \/ CommitFails(w))
        /\ WF_vars(FinishRefused(w))
        /\ WF_vars(releaseInstanceTaskLock(w)) /\ WF_vars(failDeployment(w))
        /\ WF_vars(ReloadFails(w))
    /\ \A t \in Tasks :
        /\ WF_vars(RecoverLease(t))
        /\ SF_vars(RecoverPending(t) /\ queue'[t] > queue[t])
        /\ SF_vars(\E w \in Workers : claimTask(w, t))
        /\ SF_vars(\E w \in Workers : Serves(w, t) /\ ReloadTask(w))
        /\ SF_vars(\E w \in Workers : Serves(w, t) /\ finishTask(w))

FairSpec == Spec /\ Fairness
-----------------------------------------------------------------------------
(* Properties.                                                             *)

Owner(w) ==
    /\ worker[w].pc \in Executing \cup {"finishing"}
    /\ OwnsLease(w) /\ HoldsLock(w)

\* At most one handler passes the fence of an instance at any time, whatever
\* expired, crashed or was redelivered meanwhile (task_queue.go, "A stale
\* worker can never complete or release a newer execution").  Only with "reload",
\* like the two properties below: see README.
FencedExclusive ==
    \A v, w \in Workers :
        /\ v # w /\ Owner(v) /\ Owner(w)
        => InstanceOf[worker[v].task] # InstanceOf[worker[w].task]

\* Only the handler that made a task's latest claim finishes or releases it
\* (finishTask: "that worker must never be able to mark the replacement
\* attempt as complete or failed").
OnlyClaimantFinishes ==
    [][\A w \in Workers :
        worker[w].pc = "finishing" /\ worker'[w].pc = "releasing"
            => claimant[worker[w].task] = w]_vars

\* Why: no two rows and no two handlers share an execution token, and a
\* handler that holds the token of its row made the row's latest claim.  (With
\* "reload" only: a handler that claims t reloads t before t is claimed again.)
TokensInv ==
    /\ \A t, u \in Tasks :
        t # u /\ task[t].token # None => task[t].token # task[u].token
    /\ \A v, w \in Workers :
        v # w /\ worker[v].token # None => worker[v].token # worker[w].token
    /\ \A w \in Workers :
        worker[w].pc \in {"idle", "claimed"} => worker[w].token = None
    /\ \A w \in Workers :
        worker[w].pc = "claimed" =>
            /\ claimant[worker[w].task] = w
            /\ task[worker[w].task].token # None =>
                \A v \in Workers : worker[v].token # task[worker[w].task].token
    /\ \A w \in Workers :
        worker[w].token # None /\ worker[w].token = task[worker[w].task].token
            => claimant[worker[w].task] = w

Calling(w, i) == worker[w].pc = "calling" /\ InstanceOf[worker[w].task] = i

\* Two container-changing requests for one instance are never in flight at the
\* same time (claimTask: a task must not be executed "while a different
\* lifecycle task holds the instance lock").
OneAgentCall ==
    \A v, w \in Workers, i \in Instances : Calling(v, i) /\ Calling(w, i) => v = w

\* However late a handler is, a dangerous task is not executed a second time
\* beside it unless an administrator resumed the task.
NoBlindReplay ==
    \A v, w \in Workers :
        /\ v # w /\ worker[v].pc = "calling" /\ worker[w].pc = "calling"
        /\ worker[v].task = worker[w].task
        => ~ dangerousRecoveredTask(ActionOf[worker[v].task]) \/ worker[v].task \in resumed

\* A task shown as cancelled is not being executed: marking a running task
\* cancelled "would lie about the real container state" (control_handlers.go).
CancelHonest ==
    \A w \in Workers :
        worker[w].pc = "calling" => task[worker[w].task].status # "cancelled"

\* What succeeded, was cancelled or was discarded never runs again, although
\* handlers, the loop and administrators all rewrite rows they read earlier.
FinalStaysFinal ==
    [][\A t \in Tasks :
        task[t].status \in {"succeeded", "cancelled", "discarded"}
            => task'[t].status = task[t].status]_vars

\* An instance whose container was destroyed is only ever purged: no late
\* handler, observation or renewal brings it back.
DestroyedForGood ==
    [][\A i \in Instances :
        inst[i] \in {"destroyed", "purged"} => inst'[i] \in {inst[i], "purged"}]_vars

\* Queued work settles: it succeeds, fails, is cancelled or waits for review
\* after a bounded number of attempts.  A compensation is retried for ever, and
\* a create or start whose handlers keep crashing is requeued each time.
Settles ==
    \A t \in Tasks :
        /\ ActionOf[t] # "compensate-resize"
        /\ "crash" \notin Events \/ dangerousRecoveredTask(ActionOf[t])
        => (task[t].status \in {"pending", "running"}
                ~> task[t].status \notin {"pending", "running"})
=============================================================================
