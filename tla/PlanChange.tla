----------------------------- MODULE PlanChange -----------------------------
(***************************************************************************)
(* Changing the plan of an instance (plan_change.go): the target price is  *)
(* reserved from the wallet, a resize task applies the target resources on *)
(* the node, and the change is settled against the orders, or released, or *)
(* compensated at the user's request.  Uncertain results are observed on   *)
(* the node by the control loop.                                           *)
(*                                                                         *)
(* The task queue is the one of module TaskQueue, reduced to what matters  *)
(* here: an execution is named by its handler (there by its token), a live *)
(* lease by the task's owner, an expired lock is no lock.  One action is   *)
(* one transaction or statement group without a point where another actor  *)
(* could see a difference, or one Agent request.  No service time passes:  *)
(* an order is worth what was paid for it.                                 *)
(***************************************************************************)
EXTENDS Integers, FiniteSets, Sequences, Functions

CONSTANTS
    Changes,       \* plan changes of the one instance that is modelled
    Plans,
    Price,         \* what an order of a plan costs for the remaining period
    Resources,     \* the CPU and memory of a plan
    FirstPlan,     \* the plan of the order the instance was bought with
    Funds,         \* the balance of the wallet at the start
    Handlers,
    MaxAttempts,   \* the literal 3 of finishTask
    MaxOrders,     \* bound: no renewal beyond this number of orders
    Events,        \* what the surroundings do in a run, see EventKinds
    None

\* Handlers crash during a task or ("latecrash") right after finishing it, the
\* loop crashes, handlers stall past their lease or are overtaken by the loop
\* before they give up, transactions fail ("markfail": also the lone UPDATE
\* that blocks a change), nodes are unreachable, have their commands cancelled
\* and apply abandoned requests late; users cancel, renew, refund and declare
\* newer states; administrators resume and discard.
EventKinds ==
    {"crash", "latecrash", "loopcrash", "stall", "overtake", "txfail", "markfail",
     "outage", "cancelled", "late", "cancel", "renew", "refund", "newer",
     "resume", "discard"}

ASSUME PlanChangeAssumption ==
    /\ Price \in [Plans -> Nat] /\ FirstPlan \in Plans /\ Funds \in Nat
    /\ MaxAttempts \in Nat \ {0} /\ MaxOrders \in Nat \ {0}
    /\ Events \subseteq EventKinds
    /\ DOMAIN Resources = Plans
    /\ None \notin Plans \cup Changes \cup Handlers \cup Range(Resources)
    /\ None \notin {"resize", "compensate-resize"} \X Changes

VARIABLES
    change,     \* xcloud_instance_plan_changes rows
    task,       \* xcloud_tasks rows of the resizes and the compensations
    lock,       \* active_task_id of the instance while it has not expired
    inst,       \* [status, size]: status, cpu and memory_mb of the instance row
    outdated,   \* tasks whose desired_generation the instance has left behind
    container,  \* the resources the node gives the container
    late,       \* those of abandoned Agent requests that may still take effect
    orders,     \* xcloud_orders rows of the instance, in the order of creation
    balance,    \* the wallet
    ledger,     \* business keys of the wallet entries
    handler,    \* local state of the delivery handlers
    loop        \* local state of the control loop

queue == <<task, lock, outdated>>
node == <<container, late>>
money == <<orders, balance, ledger>>
vars == <<change, queue, inst, node, money, handler, loop>>
-----------------------------------------------------------------------------
Tasks == {"resize", "compensate-resize"} \X Changes

Sizes == Range(Resources)

Resize(c) == <<"resize", c>>
Compensation(c) == <<"compensate-resize", c>>

TaskStatus ==
    {"none", "pending", "running", "succeeded", "failed", "needs_review",
     "cancelled", "discarded"}

TaskRow == [status : TaskStatus, attempts : 0..MaxAttempts,
            owner : Handlers \cup {None}]

\* status, saga_status, fund_status, observed_* and the fixed columns of a
\* change; items are the orders of its exchange, reserve is reservation_fen.
ChangeRow ==
    [status   : {"none", "processing", "needs_review", "succeeded", "failed"},
     saga     : {"none", "applying", "observing", "compensating", "settled", "cancelled"},
     fund     : {"none", "pending", "blocked", "reserved", "settled", "released"},
     observed : Sizes \cup {None}, source : Sizes, target : Plans,
     items    : SUBSET Nat, reserve : Int]

\* exchange names the change whose settlement created a replacement order.
OrderRow == [plan : Plans, paid : Nat, exchange : Changes \cup {None},
             status : {"active", "exchanged", "refunded"}]

\* Wallet entries: the hold of a change, its three kinds of release (by its
\* settlement, its failure, its cancellation), and the refund of an order.
Entries == ({"hold", "release", "fail", "cancel"} \X Changes) \cup ({"order"} \X Nat)

HandlerRow ==
    [pc : {"idle", "claimed", "called", "applied", "settling", "finishing",
           "observing", "giving_up"},
     task : Tasks \cup {None}, err : {"none", "failed", "cancelled", "exhausted"}]

\* The task the loop looks at, what it saw there, and whether it recovered
\* the task itself, so that it still carries the old execution token.
LoopRow ==
    [pc : {"idle", "inspect", "resume", "settle", "close"},
     change : Changes \cup {None}, seen : Sizes \cup {None}, token : BOOLEAN]

TypeOK ==
    /\ change \in [Changes -> ChangeRow]
    /\ task \in [Tasks -> TaskRow]
    /\ lock \in Tasks \cup {None}
    /\ inst \in [status : {"running", "destroy_scheduled"}, size : Sizes]
    /\ outdated \subseteq Tasks
    /\ container \in Sizes /\ late \subseteq Sizes
    /\ orders \in Seq(OrderRow)
    /\ balance \in Nat
    /\ ledger \subseteq Entries
    /\ handler \in [Handlers -> HandlerRow]
    /\ loop \in LoopRow

NoChange == [status |-> "none", saga |-> "none", fund |-> "none", observed |-> None,
             source |-> Resources[FirstPlan], target |-> FirstPlan, items |-> {}, reserve |-> 0]
IdleHandler == [pc |-> "idle", task |-> None, err |-> "none"]
IdleLoop == [pc |-> "idle", change |-> None, seen |-> None, token |-> FALSE]

ActiveOrder(p, x) == [plan |-> p, paid |-> Price[p], exchange |-> x, status |-> "active"]

Init ==
    /\ change = [c \in Changes |-> NoChange]
    /\ task = [k \in Tasks |-> [status |-> "none", attempts |-> 0, owner |-> None]]
    /\ lock = None /\ outdated = {}
    /\ inst = [status |-> "running", size |-> Resources[FirstPlan]]
    /\ container = Resources[FirstPlan] /\ late = {}
    /\ orders = <<ActiveOrder(FirstPlan, None)>>
    /\ balance = Funds /\ ledger = {}
    /\ handler = [h \in Handlers |-> IdleHandler]
    /\ loop = IdleLoop
-----------------------------------------------------------------------------
(* What the statements read and write.                                     *)

\* Running and stopped instances are treated alike throughout.
Usable == inst.status = "running"

Busy == \E k \in Tasks : task[k].status \in {"pending", "running"}

Born == {k \in Tasks : task[k].status # "none"}

Active == {i \in DOMAIN orders : orders[i].status = "active"}

ActiveValue == SumFunctionOnSet([i \in DOMAIN orders |-> orders[i].paid], Active)

\* latestPlanForInstance: ORDER BY created_at DESC LIMIT 1.
LatestOrder == CHOOSE i \in Active : \A j \in Active : j <= i

TargetSize(c) == Resources[change[c].target]

\* The resources the payload of a task asks for.
SizeFor(k) == IF k[1] = "resize" THEN TargetSize(k[2]) ELSE change[k[2]].source

\* The columns of a change that waits for verification.
Verifying(row) ==
    [row EXCEPT !.status = "needs_review", !.saga = "observing", !.fund = "blocked"]

\* A mistake: blocking a change whatever has become of it.
BlockedAnyway(row) == Verifying(row)

\* markPlanChangeBlocked: only a change that is still processing.
Blocked(row) ==
    IF row.status = "processing" THEN Verifying(row) ELSE row

Released(row) == [row EXCEPT !.status = "failed", !.saga = "cancelled", !.fund = "released"]

Affordable(amount) == balance >= amount

\* A wallet entry under a business key that must not exist yet; an amount of
\* zero writes none.
NewEntry(key, amount) == amount > 0 => key \notin ledger

Enter(key, amount) == IF amount > 0 THEN {key} ELSE {}

\* The reservation of c returns to the wallet under the given key.
ReleaseFunds(c, key) ==
    /\ NewEntry(<<key, c>>, change[c].reserve)
    /\ balance' = balance + change[c].reserve
    /\ ledger' = ledger \cup Enter(<<key, c>>, change[c].reserve)
    /\ change' = [change EXCEPT ![c] = Released(@)]
    /\ orders' = orders

\* A mistake: releasing whatever is still open.
failAnyPlanChange(c) ==
    IF change[c].status \in {"processing", "needs_review"} THEN ReleaseFunds(c, "fail")
    ELSE UNCHANGED <<change, money>>

\* failPlanChange: nothing unless the change is processing.
failPlanChange(c) ==
    IF change[c].status = "processing" THEN ReleaseFunds(c, "fail")
    ELSE UNCHANGED <<change, money>>

\* cancelPlanChangeSettlementTx: nothing if the saga is cancelled already.
cancelPlanChangeSettlementTx(c) ==
    IF change[c].saga # "cancelled" THEN ReleaseFunds(c, "cancel")
    ELSE UNCHANGED <<change, money>>

Owns(h) ==
    LET k == handler[h].task IN task[k].status = "running" /\ task[k].owner = h

\* A mistake: a fence that ignores desired_generation.
FenceOfAnyGeneration(h) == Owns(h) /\ lock = handler[h].task /\ Usable

\* taskMayCallAgent: lease, lock, generation and state of the instance.
taskMayCallAgent(h) ==
    Owns(h) /\ lock = handler[h].task /\ handler[h].task \notin outdated /\ Usable

\* failPlanChange swallows every error: then nothing has happened.  (An error of
\* its UPDATE of the change alone would not stop the commit, but the row is locked
\* by then, and finishTask has stored the text it writes: only a failure that
\* undoes the whole transaction is left.)
TryFail(c) ==
    \/ failPlanChange(c)
    \/ "txfail" \in Events /\ UNCHANGED <<change, money>>

MarkBlocked(c) == change' = [change EXCEPT ![c] = Blocked(@)] /\ UNCHANGED money

\* The checks of completePlanChange on a change that is processing.  An UPDATE
\* of the instance row that changes nothing affects no row, and is an error.
Completable(c, owned) ==
    /\ owned /\ Usable /\ inst.size # TargetSize(c)
    /\ NewEntry(<<"release", c>>, change[c].reserve)
    /\ \A i \in change[c].items : NewEntry(<<"order", i>>, orders[i].paid)

\* Its statements: the hold is released and spent on the replacement orders,
\* the replaced orders are refunded, and the row gets the target resources.
Complete(c) ==
    LET items == change[c].items
        target == change[c].target
        refund == SumFunctionOnSet([i \in DOMAIN orders |-> orders[i].paid], items) IN
    /\ inst' = [inst EXCEPT !.size = Resources[target]]
    /\ orders' = [i \in DOMAIN orders |->
                    IF i \in items /\ orders[i].status = "active"
                    THEN [orders[i] EXCEPT !.status = "exchanged"] ELSE orders[i]]
                 \o [j \in 1..Cardinality(items) |-> ActiveOrder(target, c)]
    /\ balance' = balance + change[c].reserve - Cardinality(items) * Price[target] + refund
    /\ ledger' = ledger \cup Enter(<<"release", c>>, change[c].reserve)
                        \cup UNION {Enter(<<"order", i>>, orders[i].paid) : i \in items}
    /\ change' = [change EXCEPT ![c] =
                    [@ EXCEPT !.status = "succeeded", !.saga = "settled", !.fund = "settled"]]

\* completePlanChange, and markPlanChangeBlocked when it fails: the next step
\* of the caller depends on which.
completePlanChange(c, owned, done, error) ==
    \/ change[c].status # "processing" /\ done /\ UNCHANGED <<change, money, inst>>
    \/ change[c].status = "processing" /\ Completable(c, owned) /\ done /\ Complete(c)
    \/ /\ (change[c].status = "processing" /\ ~ Completable(c, owned)) \/ "txfail" \in Events
       /\ error /\ MarkBlocked(c) /\ inst' = inst
-----------------------------------------------------------------------------
(* The user.                                                               *)

\* A bump of desired_generation leaves all existing tasks behind.
Supersede(keep) == outdated' = (outdated \cup Born) \ keep

createPlanChange(c, target) ==
    LET reserve == Cardinality(Active) * Price[target] IN
    /\ change[c].status = "none"
    /\ Usable /\ ~ Busy
    /\ Active # {} /\ target # orders[LatestOrder].plan
    /\ Affordable(reserve)
    /\ balance' = balance - reserve
    /\ ledger' = ledger \cup Enter(<<"hold", c>>, reserve)
    /\ change' = [change EXCEPT ![c] =
            [NoChange EXCEPT !.status = "processing", !.saga = "applying",
                             !.fund = "pending", !.source = inst.size,
                             !.target = target, !.items = Active, !.reserve = reserve]]
    /\ task' = [task EXCEPT ![Resize(c)].status = "pending"]
    /\ Supersede({})
    /\ UNCHANGED <<lock, inst, node, orders, handler, loop>>

\* requestPlanChangeCompensation, while the change is neither settled nor
\* cancelled, and not compensating already.
Cancellable(c) ==
    /\ change[c].status \in {"processing", "needs_review"}
    /\ change[c].saga # "compensating"

ResizeActive == \E c \in Changes : task[Resize(c)].status \in {"pending", "running"}

\* The source resources have been observed, and no resize is under way.
CancelObserved(c) ==
    /\ "cancel" \in Events /\ Cancellable(c)
    /\ change[c].observed = change[c].source /\ ~ ResizeActive
    /\ Supersede({})
    /\ cancelPlanChangeSettlementTx(c)
    /\ UNCHANGED <<task, lock, inst, node, handler, loop>>

\* Otherwise pending resizes are cancelled and a compensation is queued.
RequestCompensation(c) ==
    /\ "cancel" \in Events /\ Cancellable(c)
    /\ change[c].observed # change[c].source \/ ResizeActive
    /\ IF Usable THEN Supersede({}) ELSE outdated' = outdated
    /\ task' = [k \in Tasks |->
            IF k = Compensation(c) THEN [task[k] EXCEPT !.status = "pending"]
            ELSE IF k[1] = "resize" /\ task[k].status = "pending"
                 THEN [task[k] EXCEPT !.status = "cancelled"] ELSE task[k]]
    /\ change' = [change EXCEPT ![c] =
            [@ EXCEPT !.status = "needs_review", !.saga = "compensating", !.fund = "reserved"]]
    /\ UNCHANGED <<lock, inst, node, money, handler, loop>>

\* The plan an active order is renewed at: the target of the latest settled
\* change, if there is one.
RenewalPlan(i) ==
    LET replacements == {j \in DOMAIN orders : orders[j].exchange # None} IN
    IF replacements = {} THEN orders[i].plan
    ELSE orders[CHOOSE j \in replacements : \A k \in replacements : k <= j].plan

renewWithWallet(i) ==
    LET p == RenewalPlan(i) IN
    /\ "renew" \in Events /\ Len(orders) < MaxOrders
    /\ i \in Active /\ Usable /\ ~ Busy /\ lock = None
    /\ Affordable(Price[p])
    /\ balance' = balance - Price[p]
    /\ orders' = Append(orders, ActiveOrder(p, None))
    /\ UNCHANGED <<change, queue, inst, node, ledger, handler, loop>>

\* refundOrder: all active orders, and the instance is on its way out.
refundOrder ==
    /\ "refund" \in Events /\ Usable /\ Active # {}
    /\ balance' = balance + ActiveValue
    /\ orders' = [i \in DOMAIN orders |->
            IF i \in Active THEN [orders[i] EXCEPT !.status = "refunded"] ELSE orders[i]]
    /\ inst' = [inst EXCEPT !.status = "destroy_scheduled"]
    /\ UNCHANGED <<change, queue, node, ledger, handler, loop>>

\* Any other bump of desired_generation (a reinstall, a desired-state patch).
NewerIntent ==
    /\ "newer" \in Events /\ outdated # Born
    /\ Supersede({})
    /\ UNCHANGED <<change, task, lock, inst, node, money, handler, loop>>
-----------------------------------------------------------------------------
(* A delivery handler: claimTask, executeTask, finishTask, failDeployment. *)

Goto(h, pc, err) == handler' = [handler EXCEPT ![h].pc = pc, ![h].err = err]
Leave(h) == handler' = [handler EXCEPT ![h] = IdleHandler]

claimTask(h, k) ==
    /\ handler[h].pc = "idle" /\ task[k].status = "pending" /\ lock = None
    /\ task' = [task EXCEPT ![k] =
            [status |-> "running", owner |-> h,
             attempts |-> IF @.attempts < MaxAttempts THEN @.attempts + 1 ELSE MaxAttempts]]
    /\ lock' = k
    /\ handler' = [handler EXCEPT ![h] = [pc |-> "claimed", task |-> k, err |-> "none"]]
    /\ UNCHANGED <<change, inst, outdated, node, money, loop>>

\* executeTask up to the Agent request: only the fence decides, nothing here
\* looks at the state of the change.
CallAgent(h) ==
    /\ handler[h].pc = "claimed"
    /\ IF taskMayCallAgent(h) THEN Goto(h, "called", "none") ELSE Goto(h, "finishing", "failed")
    /\ UNCHANGED <<change, queue, inst, node, money, loop>>

\* The node applies the requested resources ...
AgentApplies(h) ==
    /\ handler[h].pc = "called"
    /\ container' = SizeFor(handler[h].task)
    /\ Goto(h, "applied", "none")
    /\ UNCHANGED <<change, queue, inst, late, money, loop>>

\* ... and its answer arrives.
AgentAnswers(h) ==
    /\ handler[h].pc = "applied"
    /\ Goto(h, "settling", "none")
    /\ UNCHANGED <<change, queue, inst, node, money, loop>>

\* The handler gives up its request; the Docker daemon may still carry it out.
Abandons(h) ==
    \/ late' = late
    \/ /\ "late" \in Events /\ handler[h].pc = "called"
       /\ late' = late \cup {SizeFor(handler[h].task)}

\* The request fails, applied or not: a timeout, an unreachable node, or
\* "command_cancelled".
AgentFails(h) ==
    /\ handler[h].pc \in {"called", "applied"} /\ "outage" \in Events
    /\ \E err \in {"failed"} \cup ({"cancelled"} \cap Events) : Goto(h, "finishing", err)
    /\ Abandons(h)
    /\ UNCHANGED <<change, queue, inst, container, money, loop>>

\* completePlanChange under the handler's execution token.
SettleResize(h) ==
    LET k == handler[h].task IN
    /\ handler[h].pc = "settling" /\ k[1] = "resize"
    /\ completePlanChange(k[2], Owns(h) /\ lock = k,
                          Goto(h, "finishing", "none"), Goto(h, "finishing", "failed"))
    /\ UNCHANGED <<queue, node, loop>>

\* completePlanChangeCompensation: the saga must still be compensating and the
\* generation current; the update of the instance row may miss.
SettleCompensation(h) ==
    LET k == handler[h].task
        c == k[2] IN
    /\ handler[h].pc = "settling" /\ k[1] = "compensate-resize"
    /\ \/ /\ change[c].saga = "compensating" /\ k \notin outdated
          /\ inst' = IF Usable THEN [inst EXCEPT !.size = change[c].source] ELSE inst
          /\ cancelPlanChangeSettlementTx(c)
          /\ Goto(h, "finishing", "none")
       \/ /\ change[c].saga # "compensating" \/ k \in outdated \/ "txfail" \in Events
          /\ MarkBlocked(c) /\ inst' = inst
          /\ Goto(h, "finishing", "failed")
    /\ UNCHANGED <<queue, node, loop>>

\* A mistake: a resize that has used up its attempts fails like other tasks.
FinishAsFailed(k, err) ==
    IF err = "none" THEN "succeeded"
    ELSE IF err = "cancelled" THEN "needs_review"
    ELSE IF k[1] = "resize" /\ task[k].attempts >= MaxAttempts THEN "failed"
    ELSE "pending"

\* What finishTask makes of an outcome: a resize that was cancelled on the
\* node or has used up its attempts is reviewed, a compensation is retried
\* without limit.
FinishStatus(k, err) ==
    IF err = "none" THEN "succeeded"
    ELSE IF err = "cancelled" \/ (k[1] = "resize" /\ task[k].attempts >= MaxAttempts)
    THEN "needs_review"
    ELSE "pending"

\* finishTask: the result counts only while the lease is held.  What follows
\* a review goes by the attempts of this execution.
finishTask(h) ==
    LET k == handler[h].task
        next == FinishStatus(k, handler[h].err)
        cause == IF task[k].attempts >= MaxAttempts THEN "exhausted" ELSE "cancelled" IN
    /\ handler[h].pc = "finishing"
    /\ IF Owns(h)
       THEN /\ task' = [task EXCEPT ![k] = [@ EXCEPT !.status = next, !.owner = None]]
            /\ lock' = IF lock = k THEN None ELSE lock
            /\ IF next = "needs_review" /\ k[1] = "resize"
               THEN Goto(h, "observing", cause) ELSE Leave(h)
       ELSE UNCHANGED <<task, lock>> /\ Leave(h)
    /\ UNCHANGED <<change, inst, outdated, node, money, loop>>

\* markResizeTaskObserving, whose error is ignored ...
markResizeTaskObserving(h) ==
    LET c == handler[h].task[2] IN
    /\ handler[h].pc = "observing"
    /\ MarkBlocked(c) \/ ("markfail" \in Events /\ UNCHANGED <<change, money>>)
    /\ Goto(h, "giving_up", handler[h].err)
    /\ UNCHANGED <<queue, inst, node, loop>>

\* ... and failDeployment after it, which calls failPlanChange once the
\* attempts are used up.
failDeployment(h) ==
    /\ handler[h].pc = "giving_up"
    /\ IF handler[h].err = "exhausted" THEN TryFail(handler[h].task[2])
       ELSE UNCHANGED <<change, money>>
    /\ Leave(h)
    /\ UNCHANGED <<queue, inst, node, loop>>

Crash(h) ==
    /\ handler[h].pc # "idle"
    /\ IF handler[h].pc \in {"observing", "giving_up"}
       THEN "latecrash" \in Events ELSE "crash" \in Events
    /\ Leave(h) /\ Abandons(h)
    /\ UNCHANGED <<change, queue, inst, container, money, loop>>

\* The lease of a handler that is gone, or that stalls, runs out, and the
\* instance lock with it.
LeaseExpires(k) ==
    LET h == task[k].owner IN
    /\ h # None
    /\ handler[h].task # k \/ "stall" \in Events
    /\ task' = [task EXCEPT ![k].owner = None]
    /\ lock' = IF lock = k THEN None ELSE lock
    /\ UNCHANGED <<change, inst, outdated, node, money, handler, loop>>

\* An abandoned request takes effect after all.
LateApply(size) ==
    /\ size \in late
    /\ container' = size /\ late' = late \ {size}
    /\ UNCHANGED <<change, queue, inst, money, handler, loop>>
-----------------------------------------------------------------------------
(* The control loop: recoverExpiredTaskLeases, reconcileBlockedPlanChanges *)
(* and the reconcileRecoveredPlanChange both call.                         *)

LookAt(c, token) ==
    loop' = [IdleLoop EXCEPT !.pc = "inspect", !.change = c, !.token = token]

\* An interrupted compensation is repeated, an interrupted resize reviewed.
recoverExpiredTaskLeases(k) ==
    /\ loop.pc = "idle" /\ task[k].status = "running" /\ task[k].owner = None
    /\ IF k[1] = "resize"
       THEN task' = [task EXCEPT ![k].status = "needs_review"] /\ LookAt(k[2], TRUE)
       ELSE task' = [task EXCEPT ![k].status = "pending"] /\ loop' = loop
    /\ UNCHANGED <<change, lock, inst, outdated, node, money, handler>>

\* No handler is still busy with the failure of this change, unless handlers
\* can be overtaken there.
HandlersDone(c) ==
    "overtake" \in Events
        \/ \A h \in Handlers : handler[h].pc \in {"observing", "giving_up"} =>
                                handler[h].task # Resize(c)

reconcileBlockedPlanChanges(c) ==
    /\ loop.pc = "idle" /\ HandlersDone(c)
    /\ task[Resize(c)].status = "needs_review" /\ change[c].status = "needs_review"
    /\ LookAt(c, FALSE)
    /\ UNCHANGED <<change, queue, inst, node, money, handler>>

\* The node reports the container's resources, which are written to the
\* change; anything but its source or target blocks the change.
Inspect ==
    LET c == loop.change IN
    /\ loop.pc = "inspect"
    /\ IF container \in {change[c].source, TargetSize(c)}
       THEN /\ change' = [change EXCEPT ![c].observed = container]
            /\ loop' = [loop EXCEPT !.pc = "resume", !.seen = container]
       ELSE /\ change' = [change EXCEPT ![c] = [Blocked(@) EXCEPT !.observed = container]]
            /\ loop' = IdleLoop
    /\ UNCHANGED <<queue, inst, node, money, handler>>

InspectFails ==
    /\ loop.pc = "inspect" /\ "outage" \in Events
    /\ MarkBlocked(loop.change)
    /\ loop' = IdleLoop
    /\ UNCHANGED <<queue, inst, node, handler>>

\* A mistake: resuming without regard to fund_status.
ResumableReview(row) == row.status \in {"processing", "needs_review"}

\* WHERE status='processing' OR (status='needs_review' AND fund_status='blocked')
Resumable(row) ==
    row.status = "processing" \/ (row.status = "needs_review" /\ row.fund = "blocked")

\* An UPDATE that changes nothing affects no row: unless the second has turned
\* since the observation was written, a change that is processing already looks
\* like one that must not be resumed.
resumeBlockedPlanChange ==
    LET c == loop.change IN
    /\ loop.pc = "resume"
    /\ \/ /\ Resumable(change[c])
          /\ change' = [change EXCEPT ![c].status = "processing"]
          /\ loop' = [loop EXCEPT !.pc = "settle"]
       \/ /\ ~ Resumable(change[c]) \/ change[c].status = "processing"
          /\ change' = change /\ loop' = IdleLoop
    /\ UNCHANGED <<queue, inst, node, money, handler>>

\* The target was seen: settle, but a token the task no longer has is refused.
SettleTarget ==
    LET c == loop.change IN
    /\ loop.pc = "settle" /\ loop.seen = TargetSize(c)
    /\ completePlanChange(c, ~ loop.token, loop' = [loop EXCEPT !.pc = "close"], loop' = IdleLoop)
    /\ UNCHANGED <<queue, node, handler>>

\* The source was seen: release.
SettleSource ==
    LET c == loop.change IN
    /\ loop.pc = "settle" /\ loop.seen # TargetSize(c)
    /\ TryFail(c)
    /\ loop' = [loop EXCEPT !.pc = "close"]
    /\ UNCHANGED <<queue, inst, node, handler>>

\* UPDATE xcloud_tasks ... AND status='needs_review', whatever the settlement did.
CloseTask ==
    LET k == Resize(loop.change)
        next == IF loop.seen = TargetSize(loop.change) THEN "succeeded" ELSE "failed" IN
    /\ loop.pc = "close"
    /\ task' = [task EXCEPT ![k].status = IF @ = "needs_review" THEN next ELSE @]
    /\ loop' = IdleLoop
    /\ UNCHANGED <<change, lock, inst, outdated, node, money, handler>>

LoopCrash ==
    /\ "loopcrash" \in Events /\ loop.pc # "idle"
    /\ loop' = IdleLoop
    /\ UNCHANGED <<change, queue, inst, node, money, handler>>
-----------------------------------------------------------------------------
(* The administrator.                                                      *)

\* retryTask: a failed resize goes to review, a failed compensation starts over.
retryTask(k) ==
    /\ "resume" \in Events /\ task[k].status = "failed"
    /\ task' = [task EXCEPT ![k] =
            IF k[1] = "resize" THEN [@ EXCEPT !.status = "needs_review"]
            ELSE [@ EXCEPT !.status = "pending", !.attempts = 0]]
    /\ UNCHANGED <<change, lock, inst, outdated, node, money, handler, loop>>

Unlock(k) == lock' = IF lock = k THEN None ELSE lock

resumeReviewTask(k) ==
    /\ "resume" \in Events /\ task[k].status = "needs_review"
    /\ task' = [task EXCEPT ![k].status = "pending"]
    /\ Unlock(k)
    /\ UNCHANGED <<change, inst, outdated, node, money, handler, loop>>

\* discardReviewTask and, with the status discarded, discardAllAdminTasks.
DiscardedStatus(status) ==
    IF status = "needs_review" THEN {"failed", "discarded"}
    ELSE IF status = "failed" THEN {"discarded"} ELSE {}

discardReviewTask(k) ==
    /\ "discard" \in Events
    /\ \E next \in DiscardedStatus(task[k].status) : task' = [task EXCEPT ![k].status = next]
    /\ IF k[1] = "resize" THEN TryFail(k[2]) ELSE MarkBlocked(k[2])
    /\ Unlock(k)
    /\ UNCHANGED <<inst, outdated, node, handler, loop>>
-----------------------------------------------------------------------------
User ==
    \/ \E c \in Changes : CancelObserved(c) \/ RequestCompensation(c)
    \/ \E c \in Changes, p \in Plans : createPlanChange(c, p)
    \/ \E i \in DOMAIN orders : renewWithWallet(i)
    \/ refundOrder \/ NewerIntent

Handler(h) ==
    \/ \E k \in Tasks : claimTask(h, k)
    \/ CallAgent(h) \/ AgentApplies(h) \/ AgentAnswers(h) \/ AgentFails(h)
    \/ SettleResize(h) \/ SettleCompensation(h)
    \/ finishTask(h) \/ markResizeTaskObserving(h) \/ failDeployment(h)
    \/ Crash(h)

Loop ==
    \/ \E k \in Tasks : recoverExpiredTaskLeases(k)
    \/ \E c \in Changes : reconcileBlockedPlanChanges(c)
    \/ Inspect \/ InspectFails \/ resumeBlockedPlanChange
    \/ SettleTarget \/ SettleSource \/ CloseTask \/ LoopCrash

Administrator == \E k \in Tasks : retryTask(k) \/ resumeReviewTask(k) \/ discardReviewTask(k)

Next ==
    \/ User \/ (\E h \in Handlers : Handler(h)) \/ Loop \/ Administrator
    \/ \E k \in Tasks : LeaseExpires(k)
    \/ \E size \in Sizes : LateApply(size)

Spec == Init /\ [][Next]_vars

\* Handlers consume their queue and the loop runs every 30 seconds.  A node
\* that is asked again and again answers eventually, a transaction that is
\* tried again and again commits, and a handler that is started again and
\* again lives through its task: strong fairness.
FairHandler(h) ==
    /\ SF_vars(\E k \in Tasks : claimTask(h, k))
    /\ SF_vars(CallAgent(h)) /\ SF_vars(AgentApplies(h)) /\ SF_vars(AgentAnswers(h))
    /\ SF_vars(SettleResize(h) \/ SettleCompensation(h)) /\ SF_vars(finishTask(h))
    /\ WF_vars(markResizeTaskObserving(h) \/ failDeployment(h))

FairLoop ==
    /\ WF_vars(\E k \in Tasks : LeaseExpires(k))
    /\ SF_vars(\E k \in Tasks : recoverExpiredTaskLeases(k))
    /\ \A c \in Changes : SF_vars(reconcileBlockedPlanChanges(c))
    /\ SF_vars(Inspect)
    /\ WF_vars(resumeBlockedPlanChange \/ SettleTarget \/ SettleSource \/ CloseTask)

FairSpec == Spec /\ FairLoop /\ \A h \in Handlers : FairHandler(h)
-----------------------------------------------------------------------------
(* What a plan change promises about money.                                *)

Held(row) == row.fund \in {"pending", "blocked", "reserved"}

SalePhase ==
    [c \in Changes |->
        CASE change[c].fund = "none" -> "none"
          [] change[c].fund = "settled" -> "charged"
          [] change[c].fund = "released" -> "returned"
          [] OTHER -> "held"]

Sale == INSTANCE PlanSale WITH
            phase <- SalePhase,
            escrow <- [c \in Changes |-> IF Held(change[c]) THEN change[c].reserve ELSE 0],
            purse <- balance, assets <- ActiveValue

\* Wallet, orders and reservations only move as PlanSale allows: each price is
\* held once, and leaves the hold once, for orders or back to the wallet; no
\* path through completion, failure, cancellation, observation and review
\* creates or loses value.
MoneyConserved == Sale!Spec

EntriesOf(c) == {e \in ledger : e[1] \in {"hold", "release", "fail", "cancel"} /\ e[2] = c}

\* The entries a change may have written by its fund_status: a hold while it is
\* open, with one release when it is settled, and with one release by failure
\* or by cancellation, never both, when it is released.
AccountsOf(c) ==
    LET paid(key) == Enter(<<key, c>>, change[c].reserve) IN
    CASE Held(change[c])             -> {paid("hold")}
      [] change[c].fund = "settled"  -> {paid("hold") \cup paid("release")}
      [] change[c].fund = "released" -> {paid("hold") \cup paid("fail"),
                                         paid("hold") \cup paid("cancel")}
      [] OTHER                       -> {{}}

FundsAccounted == \A c \in Changes : EntriesOf(c) \in AccountsOf(c)

\* status, saga_status and fund_status of a change always fit together.
FundStates ==
    {<<"none", "none", "none">>, <<"processing", "applying", "pending">>,
     <<"processing", "observing", "blocked">>, <<"needs_review", "observing", "blocked">>,
     <<"needs_review", "compensating", "reserved">>,
     <<"succeeded", "settled", "settled">>, <<"failed", "cancelled", "released">>}

WellFormed ==
    /\ DOMAIN change = Changes
    /\ \A c \in Changes :
        /\ DOMAIN change[c] = DOMAIN NoChange
        /\ <<change[c].status, change[c].saga, change[c].fund>> \in FundStates

\* The wallet entries of a change tell the same story as its row, on whichever
\* path it was settled, failed, cancelled or compensated.  The keys of the
\* three releases differ, so the unique index on business_key does not ensure
\* this: the conditions on status and saga_status do.
FundsInv == WellFormed /\ FundsAccounted

\* A change that has been charged for or released never moves money again,
\* however late its handlers, its compensation, the loop or the administrator
\* come back to it.
SettledOnce ==
    [][\A c \in Changes : change[c].fund \in {"settled", "released"} =>
            change'[c].fund = change[c].fund /\ EntriesOf(c)' = EntriesOf(c)]_vars
-----------------------------------------------------------------------------
(* What it promises about resources.                                       *)

Becomes(c, fund) == change[c].fund # fund /\ change'[c].fund = fund

\* A change is only charged for while the container has the target resources.
\* ("It never guesses: only an exact target or exact source resource match is
\* settled automatically", reconcileRecoveredPlanChange.)
SettledOnTarget ==
    [][\A c \in Changes : Becomes(c, "settled") => container = TargetSize(c)]_vars

\* A reservation is only released while the container has the source resources.
ReleasedOnSource ==
    [][\A c \in Changes : Becomes(c, "released") => container = change[c].source]_vars

Open(c) == change[c].status \in {"processing", "needs_review"}

\* When nothing is under way, the container, the instance row and every active
\* order agree on the resources: the user pays for what runs.
OrdersMatchContainer ==
    (Usable /\ ~ Busy /\ ~ \E c \in Changes : Open(c)) =>
        /\ container = inst.size
        /\ \A i \in Active : Resources[orders[i].plan] = container

\* Every plan change ends: charged for or released.
Resolves == \A c \in Changes : Open(c) ~> change[c].status \in {"succeeded", "failed"}
=============================================================================
