------------------------------ MODULE Lifecycle ------------------------------
(***************************************************************************)
(* The end of an instance's life: plans to destroy it (manual, expired,    *)
(* refund), their withdrawal (cancellation, renewal), the immediate        *)
(* destruction, and the purge of its data after the retention.  One        *)
(* instance with its container and its data directory on the node.         *)
(*                                                                         *)
(* The queue is reduced to what TaskQueue shows of it: a live handler      *)
(* keeps the lease of its task and is the only one of that task, and its   *)
(* fences ask for the instance lock.  It keeps the lock as well, unless an *)
(* administrator who resumed or discarded the task clears it belatedly. A  *)
(* task is identified by its idempotency key, which contains the time of   *)
(* the plan: destroy_at is a DATETIME in whole seconds, while              *)
(* scheduleManualDestroy builds its key from the nanoseconds of the Go     *)
(* clock, so the key of a manual plan is never the one executeDestroyTask  *)
(* expects.                                                                *)
(***************************************************************************)
EXTENDS Integers, FiniteSets, InstanceStates

CONSTANTS
    Grace,        \* ticks from a plan to its destroy_at (7 days)
    Retention,    \* ticks from the destruction to purge_at (30 days)
    Prepaid,      \* refundPrepaidDays: ticks of service a refund leaves
    Term,         \* ticks one renewal adds
    MaxAttempts,  \* the literal 3 of finishTask
    MaxNow,       \* bound: the last tick
    MaxPlans,     \* bound: destroy plans of a behaviour
    InitStatus,   \* where the instance is when the model starts
    MaxEvents     \* bound: plans, crashes and failed requests together

ASSUME LifecycleAssumption ==
    /\ Grace \in Nat \ {0} /\ Retention \in Nat \ {0} /\ Prepaid \in Nat /\ Term \in Nat \ {0}
    /\ MaxAttempts \in Nat \ {0} /\ MaxNow \in Nat \ {0} /\ MaxPlans \in Nat
    /\ MaxEvents \in Nat
    /\ InitStatus \subseteq {"running", "stopped", "deployment_failed"}

VARIABLES
    now,       \* the clock of the database, in ticks
    ins,       \* the row of xcloud_instances
    order,     \* status of its order; the order runs until ins.expiresAt
    plans,     \* number of destroy plans so far; the latest has this number
    container, \* the container on the node
    data,      \* whether the data directory exists
    late,      \* tasks whose abandoned Agent request may still be carried out
    row,       \* xcloud_tasks rows by idempotency key
    todo,      \* INSERTs into xcloud_tasks that a request has still to make
    lock,      \* active_task_id while active_task_expires_at lies ahead
    handler,   \* the handlers, by the task they execute
    cancelling,\* cancelManualDestroy after its checks: the runtime it restores
    expiring,  \* the loop between its statements: the status it has read of an
               \* instance to expire, or "orders" that are still to expire
    clearing,  \* the task an administrator has released and not yet its lock
    faults,    \* number of crashes and failed requests so far
    asked      \* history: the user asked to carry out the plan in force at once

node == <<container, data, late>>
queue == <<row, todo, lock, handler>>
history == <<faults, asked>>
pass == <<cancelling, expiring, clearing>>
vars == <<now, ins, order, plans, node, queue, pass, history>>
-----------------------------------------------------------------------------
(* Types.                                                                  *)

Plans == 1..MaxPlans
Time == 0..(MaxNow + Grace + Retention + Prepaid + Term)

\* lifecycleTaskKey: "manual" is a destroy key with nanoseconds, "destroy" one
\* made from the column; "start" is the renew-start key of a renewal.
Keys == ({"manual", "destroy", "start"} \X Plans) \cup {<<"purge", 0>>}
PurgeKey == <<"purge", 0>>
NoKey == <<"none", 0>>
Action(k) == IF k[1] = "manual" THEN "destroy" ELSE k[1]

Runtime == {"running", "stopped", "missing", "unknown"}
Reasons == {"none", "manual", "deployment_failed", "expired", "refund", "user_no_refund"}

InstanceRow ==
    [status : InstanceStatus, runtime : Runtime, expiresAt : Time, plan : {0} \cup Plans,
     destroyAt : Time, reason : Reasons, purgeAt : Time, archived : BOOLEAN]

\* run_after, 0 when it has passed already.
TaskRow == [status : {"none", "pending", "running", "succeeded", "failed",
                      "needs_review", "cancelled", "discarded"},
            attempts : 0..MaxAttempts, after : Time]

\* raced is history: a cancellation that overtook the task, see below.
HandlerRow == [pc : {"idle", "claimed", "ready", "called", "done", "ok", "error"},
               seen : InstanceStatus, raced : BOOLEAN]

TypeOK ==
    /\ now \in 0..MaxNow
    /\ ins \in InstanceRow
    /\ order \in {"active", "expired", "refunded"}
    /\ plans \in {0} \cup Plans
    /\ container \in {"running", "stopped", "absent"}
    /\ data \in BOOLEAN
    /\ late \subseteq Keys
    /\ row \in [Keys -> TaskRow]
    /\ todo \subseteq [key : Keys, after : Time]
    /\ lock \in Keys \cup {NoKey}
    /\ handler \in [Keys -> HandlerRow]
    /\ cancelling \in {"no", "running", "stopped"}
    /\ expiring \in {"no", "running", "stopped", "orders"}
    /\ clearing \in Keys \cup {NoKey}
    /\ faults \in 0..MaxEvents
    /\ asked \in BOOLEAN

IdleHandler == [pc |-> "idle", seen |-> "none", raced |-> FALSE]

\* An instance in use with its order paid until tick Term, or one whose
\* deployment failed and left a stopped container behind.
Init ==
    /\ now = 0
    /\ \E s \in InitStatus :
        /\ ins = [status |-> s, runtime |-> IF s = "running" THEN s
                                            ELSE IF s = "stopped" THEN s ELSE "unknown",
                  expiresAt |-> Term, plan |-> 0, destroyAt |-> 0, reason |-> "none",
                  purgeAt |-> 0, archived |-> FALSE]
        /\ container = IF s = "running" THEN s ELSE "stopped"
    /\ order = "active"
    /\ plans = 0
    /\ data = TRUE
    /\ late = {}
    /\ row = [k \in Keys |-> [status |-> "none", attempts |-> 0, after |-> 0]]
    /\ todo = {}
    /\ lock = NoKey
    /\ handler = [k \in Keys |-> IdleHandler]
    /\ cancelling = "no"
    /\ expiring = "no"
    /\ clearing = NoKey
    /\ faults = 0
    /\ asked = FALSE
-----------------------------------------------------------------------------
(* Conditions.                                                             *)

InUse == ins.status \in {"running", "stopped"}
Scheduled == ins.status = "destroy_scheduled"

\* runtimeStatus, normalised before it becomes the status again.
Restored == IF ins.runtime \in {"running", "stopped"} THEN ins.runtime ELSE "stopped"

Live(k) == row[k].status \in {"pending", "running"}
\* A mistake: a task that ended counts as well.
EverAction(a) == \E k \in Keys : Action(k) = a /\ row[k].status # "none"

LiveAction(a) == \E k \in Keys : Action(k) = a /\ Live(k)

\* activeLifecycleTask: a destroy that is not yet due does not count.
ActiveTask ==
    \E k \in Keys :
        /\ Live(k)
        /\ ~ (row[k].status = "pending" /\ Action(k) \in {"destroy", "purge"} /\ row[k].after > now)

OrderInForce == order = "active" /\ ins.expiresAt > now

\* Room for one more plan, for one more crash or failed request.
NewPlan == plans < MaxPlans /\ plans + faults < MaxEvents /\ plans' = plans + 1
Fault == plans + faults < MaxEvents /\ faults' = faults + 1

\* ownedInstance: an archived instance is out of its owner's reach.
Owned == ~ ins.archived

\* The UPDATE that puts a plan in force, with the number of the plan for its time.
Planned(reason, at, runtime) ==
    [ins EXCEPT !.status = "destroy_scheduled", !.runtime = runtime, !.plan = plans + 1,
                !.destroyAt = at, !.reason = reason, !.purgeAt = 0]

\* The UPDATE that withdraws it.
Withdrawn(runtime) ==
    [ins EXCEPT !.status = runtime, !.runtime = runtime, !.plan = 0,
                !.destroyAt = 0, !.reason = "none", !.purgeAt = 0]

-----------------------------------------------------------------------------
(* Requests of the user.  A transition and the INSERT of its task are two  *)
(* statements; a renewal, a refund and a cancellation are one transaction. *)

scheduleManualDestroy ==
    /\ Owned /\ ins.status \in {"running", "stopped", "deployment_failed"} /\ NewPlan
    /\ ins' = Planned(IF ins.status = "deployment_failed" THEN "deployment_failed" ELSE "manual",
                      now + Grace, Restored)
    /\ todo' = todo \cup {[key |-> <<"manual", plans + 1>>, after |-> now + Grace]}
    /\ UNCHANGED <<now, order, node, row, lock, handler, pass, history>>

\* The checks on a row read before the transaction.
CancelChecks ==
    /\ Owned /\ cancelling = "no" /\ ~ ActiveTask
    /\ Scheduled /\ ins.reason \in {"manual", "deployment_failed"}
    /\ cancelling' = Restored
    /\ UNCHANGED <<now, ins, order, plans, node, queue, expiring, clearing, history>>

\* UPDATE ... WHERE action='destroy' AND status='pending' AND run_after>NOW()
Deferred == {k \in Keys : Action(k) = "destroy" /\ row[k].status = "pending" /\ row[k].after > now}

\* A destroy that has compared its key with the plan: its last fence looks at
\* the status alone, which a newer plan restores.
DestroyUnderWay(k) == handler[k].pc \in {"ready", "called"} /\ Action(k) = "destroy"

\* The transaction: it changes the instance and exactly one deferred task, or
\* rolls back.
cancelManualDestroy ==
    /\ cancelling # "no"
    /\ cancelling' = "no"
    /\ IF Scheduled /\ Cardinality(Deferred) = 1
         THEN /\ ins' = Withdrawn(cancelling)
              /\ row' = [k \in Keys |-> IF k \in Deferred THEN [row[k] EXCEPT !.status = "cancelled"]
                                                           ELSE row[k]]
              /\ handler' = [k \in Keys |-> [handler[k] EXCEPT !.raced = @ \/ DestroyUnderWay(k)]]
              /\ asked' = FALSE
         ELSE UNCHANGED <<ins, row, handler, asked>>
    /\ UNCHANGED <<now, order, plans, node, todo, lock, expiring, clearing, faults>>

queueImmediateDestroy ==
    /\ Owned /\ Scheduled /\ ~ ActiveTask
    /\ ins' = [ins EXCEPT !.reason = IF @ = "manual" THEN "user_no_refund" ELSE @]
    /\ todo' = todo \cup {[key |-> <<"destroy", ins.plan>>, after |-> 0]}
    /\ asked' = TRUE
    /\ UNCHANGED <<now, order, plans, node, row, lock, handler, pass, faults>>

archiveDestroyedInstance ==
    /\ Owned /\ ins.status = "destroyed"
    /\ ins' = [ins EXCEPT !.archived = TRUE]
    /\ UNCHANGED <<now, order, plans, node, queue, pass, history>>

ExpiredPlan == Scheduled /\ ins.reason = "expired"

\* A mistake: only task rows are looked at, not the lock.
NoTaskLive == \A k \in Keys : Live(k) => ExpiredPlan /\ Action(k) = "destroy"

NoLifecycleTask == lock = NoKey /\ \A k \in Keys : Live(k) => ExpiredPlan /\ Action(k) = "destroy"

\* The renewal of an expired instance that does not run starts it again.
renewWithWallet ==
    /\ order \in {"active", "expired"} /\ NoLifecycleTask
    /\ InUse \/ ExpiredPlan
    /\ ins.expiresAt <= MaxNow
    /\ LET base == IF ins.expiresAt > now THEN ins.expiresAt ELSE now
           startKey == <<"start", ins.plan>> IN
        /\ ins' = [Withdrawn(Restored) EXCEPT !.expiresAt = base + Term]
        /\ row' = IF ExpiredPlan /\ Restored # "running"
                    THEN [row EXCEPT ![startKey] = [status |-> "pending", attempts |-> 0, after |-> 0]]
                    ELSE row
    /\ order' = "active"
    /\ asked' = FALSE
    /\ UNCHANGED <<now, plans, node, todo, lock, handler, pass, faults>>

\* A refund leaves the prepaid days of service; the orders of an instance that
\* is gone are refunded without a plan.
refundOrder ==
    /\ OrderInForce /\ ins.expiresAt > now + Prepaid
    /\ ins.reason # "user_no_refund"
    /\ \/ /\ InUse /\ NewPlan
          /\ ins' = [Planned("refund", now + Prepaid, Restored) EXCEPT !.expiresAt = now + Prepaid]
       \/ /\ ins.status \in {"destroyed", "purged"}
          /\ UNCHANGED <<ins, plans>>
    /\ order' = "refunded"
    /\ UNCHANGED <<now, node, queue, pass, history>>
-----------------------------------------------------------------------------
(* The control loop: scheduleLifecycle and syncInstanceStates.             *)

\* The SELECT of the instances that have expired.
ExpiredSeen ==
    /\ expiring = "no"
    /\ InUse /\ ins.expiresAt < now
    /\ expiring' = ins.status
    /\ UNCHANGED <<now, ins, order, plans, node, queue, cancelling, clearing, history>>

\* The transition, which looks at the status again and not at the expiry: an
\* instance renewed in between is expired all the same.
ExpireInstance ==
    /\ expiring \in {"running", "stopped"}
    /\ InUse /\ NewPlan
    /\ ins' = Planned("expired", ins.expiresAt + Grace, expiring)
    /\ expiring' = "orders"
    /\ UNCHANGED <<now, order, node, queue, cancelling, clearing, history>>

\* The transition fails, or has nothing to change any more: the next instance.
ExpirySkipped ==
    /\ expiring \in {"running", "stopped"}
    /\ expiring' = "no"
    /\ UNCHANGED <<now, ins, order, plans, node, queue, cancelling, clearing, history>>

\* The next statement: whatever orders the instance has by now.
ExpireOrders ==
    /\ expiring = "orders"
    /\ expiring' = "no"
    /\ order' = IF order = "active" THEN "expired" ELSE order
    /\ UNCHANGED <<now, ins, plans, node, queue, cancelling, clearing, history>>

LoopCrashes ==
    /\ expiring = "orders" /\ Fault
    /\ expiring' = "no"
    /\ UNCHANGED <<now, ins, order, plans, node, queue, cancelling, clearing, asked>>

\* A mistake: instances the owner has archived are passed over.
PurgeDueListed == ins.status = "destroyed" /\ ins.purgeAt <= now /\ ~ ins.archived

DestroyDue == Scheduled /\ ins.destroyAt <= now
PurgeDue == ins.status = "destroyed" /\ ins.purgeAt <= now

\* INSERT IGNORE: a key that exists keeps its row, whatever its status.
InsertIgnore(k, at) ==
    IF row[k].status = "none"
      THEN [row EXCEPT ![k] = [status |-> "pending", attempts |-> 0, after |-> at]]
      ELSE row

\* One pass of the loop for what is due and has no live task.
scheduleLifecycleTask ==
    /\ \/ DestroyDue /\ ~ LiveAction("destroy") /\ row' = InsertIgnore(<<"destroy", ins.plan>>, 0)
       \/ PurgeDue /\ ~ LiveAction("purge") /\ row' = InsertIgnore(PurgeKey, 0)
    /\ row' # row
    /\ UNCHANGED <<now, ins, order, plans, node, todo, lock, handler, pass, history>>

\* The INSERT of a request, some time after its transition.
InsertTask(e) ==
    /\ e \in todo
    /\ todo' = todo \ {e}
    /\ row' = InsertIgnore(e.key, e.after)
    /\ UNCHANGED <<now, ins, order, plans, node, lock, handler, pass, history>>

RequestCrashes(e) ==
    /\ Fault
    /\ e \in todo
    /\ todo' = todo \ {e}
    /\ UNCHANGED <<now, ins, order, plans, node, row, lock, handler, pass, asked>>

\* A missing container is a fault of the runtime, never a change of status.
syncInstanceStates ==
    /\ InUse \/ Scheduled
    /\ ins' = IF container = "absent" THEN [ins EXCEPT !.runtime = "missing"]
              ELSE [ins EXCEPT !.runtime = container, !.status = IF Scheduled THEN @ ELSE container]
    /\ ins' # ins
    /\ UNCHANGED <<now, order, plans, node, queue, pass, history>>
-----------------------------------------------------------------------------
(* The handlers.  One of a task at a time: a live one keeps the lease.      *)

\* recoverPendingTasks announces a due row, claimTask takes it with the lock.
claimTask(k) ==
    /\ lock = NoKey
    /\ row[k].status = "pending" /\ row[k].after <= now
    /\ row' = [row EXCEPT ![k].status = "running",
                          ![k].attempts = IF @ < MaxAttempts THEN @ + 1 ELSE @]
    /\ lock' = k
    /\ handler' = [handler EXCEPT ![k] = [IdleHandler EXCEPT !.pc = "claimed"]]
    /\ UNCHANGED <<now, ins, order, plans, node, todo, pass, history>>

\* executeDestroyTask: the key must be that of the plan in force.
KeyMatches(k) == k[1] = "destroy" /\ ins.plan = k[2]

\* A mistake: orders are not looked at.
RetentionOver == PurgeDue

PurgeEligible == PurgeDue /\ ~ OrderInForce

ToDo(k) == CASE Action(k) = "destroy" -> KeyMatches(k)
             [] Action(k) = "purge"   -> PurgeEligible
             [] Action(k) = "start"   -> TRUE

\* taskMayCallAgent asks for the lock and the status, and never for the plan.
Fenced(k) == lock = k /\ ins.status \in ExpectedStates(Action(k))

Reach(k, pc) == handler' = [handler EXCEPT ![k].pc = pc]

\* The fence of executeTask and the conditions of the action: a task with
\* nothing to do succeeds.  A start goes to the Agent without another fence.
executeTask(k) ==
    /\ handler[k].pc = "claimed"
    /\ handler' = [handler EXCEPT ![k].seen = IF Action(k) = "start" THEN ins.status ELSE "none",
                                  ![k].pc = IF ~ Fenced(k) THEN "error"
                                            ELSE IF ~ ToDo(k) THEN "ok"
                                            ELSE IF Action(k) = "start" THEN "called" ELSE "ready"]
    /\ UNCHANGED <<now, ins, order, plans, node, row, todo, lock, pass, history>>

taskMayCallAgent(k) ==
    /\ handler[k].pc = "ready"
    /\ Reach(k, IF Fenced(k) THEN "called" ELSE "error")
    /\ UNCHANGED <<now, ins, order, plans, node, row, todo, lock, pass, history>>

\* What the Agent does to the container and the data.
Effect(k) ==
    /\ container' = IF Action(k) = "start" THEN "running" ELSE "absent"
    /\ data' = IF Action(k) = "purge" THEN FALSE ELSE data

AgentDoes(k) ==
    /\ handler[k].pc = "called"
    /\ Effect(k) /\ Reach(k, "done")
    /\ UNCHANGED <<now, ins, order, plans, late, row, todo, lock, pass, history>>

\* A request that fails may have been carried out all the same, or be carried
\* out when nobody waits for it any more.
Abandoned(k) == UNCHANGED <<container, data>> /\ late' \in {late, late \cup {k}}

AgentFails(k) ==
    /\ Fault
    /\ handler[k].pc = "called"
    /\ (Effect(k) /\ UNCHANGED late) \/ Abandoned(k)
    /\ Reach(k, "error")
    /\ UNCHANGED <<now, ins, order, plans, row, todo, lock, pass, asked>>

LateEffect(k) ==
    /\ k \in late
    /\ Effect(k) /\ late' = late \ {k}
    /\ UNCHANGED <<now, ins, order, plans, queue, pass, history>>

\* The conditional UPDATE that records the result, with the lock among its
\* conditions; a start looks only at the status it has read.
CommitDestroy(k) ==
    IF Scheduled /\ KeyMatches(k) /\ lock = k
      THEN /\ ins' = [ins EXCEPT !.status = "destroyed", !.runtime = "stopped",
                                 !.purgeAt = now + Retention]
           /\ asked' = FALSE /\ Reach(k, "ok")
      ELSE UNCHANGED <<ins, asked>> /\ Reach(k, "error")

CommitPurge(k) ==
    IF PurgeEligible /\ lock = k
      THEN /\ ins' = [ins EXCEPT !.status = "purged", !.archived = TRUE]
           /\ UNCHANGED asked /\ Reach(k, "ok")
      ELSE UNCHANGED <<ins, asked>> /\ Reach(k, "error")

CommitStart(k) ==
    /\ ins' = IF ins.status = handler[k].seen
                THEN [ins EXCEPT !.runtime = "running",
                                 !.status = IF Scheduled THEN @ ELSE "running"]
                ELSE ins
    /\ UNCHANGED asked /\ Reach(k, "ok")

CommitResult(k) ==
    /\ handler[k].pc = "done"
    /\ CASE Action(k) = "destroy" -> CommitDestroy(k)
         [] Action(k) = "purge"   -> CommitPurge(k)
         [] Action(k) = "start"   -> CommitStart(k)
    /\ UNCHANGED <<now, order, plans, node, row, todo, lock, pass, faults>>

FinishStatus(k) ==
    IF handler[k].pc = "ok" THEN "succeeded"
    ELSE IF row[k].attempts >= MaxAttempts THEN "failed" ELSE "pending"

\* finishTask and releaseInstanceTaskLock.
finishTask(k) ==
    /\ handler[k].pc \in {"ok", "error"}
    /\ row' = [row EXCEPT ![k].status = FinishStatus(k)]
    /\ lock' = IF lock = k THEN NoKey ELSE lock
    /\ handler' = [handler EXCEPT ![k] = IdleHandler]
    /\ UNCHANGED <<now, ins, order, plans, node, todo, pass, history>>

\* The control plane dies; lease and lock run out, a request goes its way.
HandlerCrashes(k) ==
    /\ Fault
    /\ handler[k].pc # "idle"
    /\ handler' = [handler EXCEPT ![k] = IdleHandler]
    /\ IF handler[k].pc = "called" THEN Abandoned(k) ELSE UNCHANGED node
    /\ UNCHANGED <<now, ins, order, plans, row, todo, lock, pass, asked>>

LeaseExpires ==
    /\ \A k \in Keys : lock = k => handler[k].pc = "idle"
    /\ lock # NoKey
    /\ lock' = NoKey
    /\ UNCHANGED <<now, ins, order, plans, node, row, todo, handler, pass, history>>

\* recoverExpiredTaskLeases: a running row nobody executes.
RecoverLease(k) ==
    /\ row[k].status = "running" /\ handler[k].pc = "idle" /\ lock # k
    /\ LET a == Action(k) IN
       row' = [row EXCEPT ![k].status =
                 IF ~ dangerousRecoveredTask(a) /\ safeRecoveryState(a, ins.status)
                   THEN "pending" ELSE "needs_review"]
    /\ UNCHANGED <<now, ins, order, plans, node, todo, lock, handler, pass, history>>

\* quarantineDangerousFailedTasks, and retryTask for such a task.
Quarantine(k) ==
    /\ row[k].status = "failed" /\ Action(k) \in QuarantinedActions
    /\ row' = [row EXCEPT ![k].status = "needs_review"]
    /\ UNCHANGED <<now, ins, order, plans, node, todo, lock, handler, pass, history>>
-----------------------------------------------------------------------------
(* Administrators.                                                         *)

\* One administrator: a request begins when the one before has ended.
Administer(k, from, to) ==
    /\ clearing = NoKey /\ row[k].status \in from
    /\ row' = [row EXCEPT ![k] = to]
    /\ UNCHANGED <<now, ins, order, plans, node, todo, lock, handler, cancelling, expiring, history>>

\* A task that is resumed or discarded loses its lock in a second statement,
\* when a handler may have claimed it again.
resumeReviewTask(k) ==
    /\ Administer(k, {"needs_review"}, [row[k] EXCEPT !.status = "pending", !.after = 0])
    /\ clearing' = k

discardReviewTask(k) ==
    /\ Administer(k, {"needs_review"}, [row[k] EXCEPT !.status = "failed"])
    /\ clearing' = k

\* The row keeps its key, so that the plan it stood for has no other task.
discardAllAdminTasks(k) ==
    /\ Administer(k, {"failed", "needs_review"}, [row[k] EXCEPT !.status = "discarded"])
    /\ clearing' = k

\* The statement may fail; nobody looks.
ClearLock(k) ==
    /\ clearing = k
    /\ clearing' = NoKey
    /\ lock' \in {lock, IF lock = k THEN NoKey ELSE lock}
    /\ UNCHANGED <<now, ins, order, plans, node, row, todo, handler, cancelling, expiring, history>>

\* A task that is not dangerous starts over.
retryTask(k) ==
    /\ ~ dangerousRecoveredTask(Action(k))
    /\ Administer(k, {"failed"}, [status |-> "pending", attempts |-> 0, after |-> 0])
    /\ UNCHANGED clearing
-----------------------------------------------------------------------------
\* A tick is days: requests and tasks end before the next one, and what an
\* Agent was asked for is carried out by then or never.
Tick ==
    /\ now < MaxNow
    /\ cancelling = "no" /\ expiring = "no" /\ clearing = NoKey /\ todo = {}
    /\ \A k \in Keys : handler[k].pc = "idle"
    /\ now' = now + 1 /\ late' = {}
    /\ UNCHANGED <<ins, order, plans, container, data, queue, pass, history>>

Request ==
    \/ scheduleManualDestroy \/ CancelChecks \/ queueImmediateDestroy
    \/ archiveDestroyedInstance \/ renewWithWallet \/ refundOrder
    \/ \E e \in todo : RequestCrashes(e)

Expiry == ExpiredSeen \/ ExpireInstance \/ ExpirySkipped \/ ExpireOrders

Loop ==
    \/ Expiry \/ LoopCrashes \/ scheduleLifecycleTask \/ syncInstanceStates \/ LeaseExpires
    \/ \E k \in Keys : RecoverLease(k) \/ Quarantine(k)

Inserts == \E e \in todo : InsertTask(e)

Handler(k) == executeTask(k) \/ taskMayCallAgent(k) \/ CommitResult(k) \/ finishTask(k)

Agent(k) == AgentDoes(k) \/ AgentFails(k)

Administrator(k) ==
    resumeReviewTask(k) \/ discardReviewTask(k) \/ discardAllAdminTasks(k) \/ retryTask(k)

Next ==
    \/ Request \/ cancelManualDestroy \/ Loop \/ Inserts \/ Tick
    \/ \E k \in Keys :
         \/ claimTask(k) \/ Handler(k) \/ Agent(k) \/ LateEffect(k) \/ HandlerCrashes(k)
         \/ Administrator(k) \/ ClearLock(k)

Spec == Init /\ [][Next]_vars

\* The loop runs every 30 seconds in every control plane, statements and
\* requests to an Agent end, and the messages of pending rows are delivered
\* again and again until a handler finds the lock free.  Administrators
\* come to an end with a task.
Recovery == LeaseExpires \/ \E k \in Keys : RecoverLease(k)
Statements == cancelManualDestroy \/ ExpirySkipped \/ ExpireOrders \/ Inserts \/ \E k \in Keys : ClearLock(k)
Local == Recovery \/ Statements \/ \E k \in Keys : Handler(k) \/ Agent(k)

FairSpec ==
    /\ Spec
    /\ WF_vars(scheduleLifecycleTask) /\ WF_vars(Local) /\ SF_vars(\E k \in Keys : claimTask(k))
    /\ <>[][\A k \in Keys : ~ Administrator(k)]_vars
-----------------------------------------------------------------------------
(* Properties.                                                             *)

\* The plan with the key k is in force, and due or asked for.
InForce(k) == Scheduled /\ ins.plan = k[2] /\ (ins.destroyAt <= now \/ asked)

Sends(k) == handler[k].pc = "ready" /\ handler'[k].pc = "called"
Answered(k) == handler[k].pc = "called" /\ handler'[k].pc # "called"

\* executeDestroyTask, taskMayCallAgent, renewWithWallet, queueImmediateDestroy:
\* a destroy leaves the control plane only for the plan in force, after its
\* grace or at the user's wish, and no renewal withdraws the plan before it is
\* answered: neither a late INSERT, nor a task that was resumed or repeated, nor
\* a lock cleared before it was sent.  Three are not promised, and happen (README):
\* a cancellation that passed its checks before such a wish and committed after
\* the destroy had compared its key; a destroy whose lock an administrator
\* clears after it was sent; and one carried out after it was given up.
DestroyJustified ==
    [][\A k \in Keys : Action(k) = "destroy" /\ ~ handler[k].raced =>
         /\ Sends(k) => InForce(k)
         /\ Answered(k) /\ container # "absent" /\ container' = "absent" =>
              InForce(k) \/ lock # k]_vars

\* executePurgeTask and docs/08: data is deleted only on a destroyed instance,
\* after its retention, while no order of it is in force; whatever tasks were
\* resumed, repeated or left over before.
DataKept ==
    [][(data /\ ~ data') =>
         /\ ins.status = "destroyed" /\ ins.purgeAt <= now
         /\ ~ OrderInForce]_vars

\* An administrator has, or had, the task with key k.
WithAdministrator(k) == row[k].status \in {"failed", "needs_review", "discarded"}

\* scheduleLifecycle: a destroy that is due is carried out, or its plan is
\* withdrawn, or its task failed and is with the administrators; crashes, lost
\* INSERTs and the task of a manual plan, which does nothing, never lose it.
DueDestroyEnds == DestroyDue ~> (~ DestroyDue \/ WithAdministrator(<<"destroy", ins.plan>>))

\* A purge was refused because of an order when its task ran; the row that says
\* so keeps the key of the purge.
PurgeRefused == row[PurgeKey].status = "succeeded"

\* scheduleLifecycle: data whose retention is over is purged, unless its task
\* is with the administrators or met an order that was still in force.
RetentionEnded == ins.status = "destroyed" /\ ins.purgeAt <= now /\ ~ OrderInForce

DuePurgeEnds ==
    RetentionEnded ~> (~ data \/ WithAdministrator(PurgeKey) \/ PurgeRefused)

\* docs/02: the data is purged in the end.  It is not: see README.
PurgeNeverLost ==
    RetentionEnded ~> (ins.status = "purged" \/ WithAdministrator(PurgeKey))

\* platform_upgrade.go:575: a renewal keeps an expired instance from destruction.
\* It does not in the last two cases above: see README.
InUseSpared ==
    [][(container # "absent" /\ container' = "absent")
         => ~ InUse \/ \E k \in Keys : handler[k].raced]_vars

\* control_handlers.go:1331 tells the owner of a failed deployment whose cleanup
\* is cancelled that the deployment can be retried.  It cannot: see README.
CleanupCancelled ==
    [][(ins.reason = "deployment_failed" /\ ins'.reason = "none") =>
         ins'.status = "deployment_failed"]_vars
=============================================================================
