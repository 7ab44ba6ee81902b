--------------------------- MODULE TaskQueueProofs ---------------------------
(***************************************************************************)
(* Theorems about TaskQueue: types; and, as long as no handler sleeps      *)
(* between its claim and its reload until the task is claimed again, the   *)
(* exclusion of two fenced handlers and that only the latest claimant of a *)
(* task finishes it.                                                       *)
(***************************************************************************)
EXTENDS TaskQueue, TLAPS

-----------------------------------------------------------------------------
(* Type correctness.                                                       *)

\* What a commit writes is a status (the next status executeTask computes).
LEMMA CommitTargetType ==
    ASSUME NEW a, NEW s \in InstanceStatus
    PROVE  CommitTarget(a, s) \in InstanceStatus
BY DEF CommitTarget, InstanceStatus

\* What finishTask writes is a task status.
LEMMA FinishStatusType ==
    ASSUME NEW a, NEW r, NEW n
    PROVE  FinishStatus(a, r, n) \in {"succeeded", "needs_review", "failed", "pending"}
BY DEF FinishStatus

\* The names of the task states, for the steps below.
LEMMA StatusNames ==
    {"unborn", "requested", "pending", "succeeded", "failed", "needs_review",
     "cancelled", "discarded"} \subseteq TaskStatus
BY DEF TaskStatus

\* Every change of a row the actions make leaves a row.
LEMMA RowStatus ==
    ASSUME NEW r \in TaskRow, NEW s \in TaskStatus
    PROVE  /\ [r EXCEPT !.status = s] \in TaskRow
           /\ [r EXCEPT !.status = s, !.token = None] \in TaskRow
           /\ [r EXCEPT !.status = s, !.token = None, !.wait = 0] \in TaskRow
           /\ \A n \in 0..1 : [r EXCEPT !.status = s, !.wait = n] \in TaskRow
<1>1. [r EXCEPT !.status = s] \in TaskRow
  BY DEF TaskRow
<1>2. [r EXCEPT !.status = s, !.token = None] \in TaskRow
  BY DEF TaskRow
<1>3. [r EXCEPT !.status = s, !.token = None, !.wait = 0] \in TaskRow
  <2>1. 0 \in 0..1
    OBVIOUS
  <2> QED
    BY <2>1 DEF TaskRow
<1>4. ASSUME NEW n \in 0..1 PROVE [r EXCEPT !.status = s, !.wait = n] \in TaskRow
  BY DEF TaskRow
<1> QED
  BY <1>1, <1>2, <1>3, <1>4

LEMMA RowLease ==
    ASSUME NEW r \in TaskRow
    PROVE  /\ [r EXCEPT !.lease = Lease] \in TaskRow
           /\ \A s \in TaskStatus :
                [r EXCEPT !.status = s, !.token = None, !.lease = 0] \in TaskRow
<1> Lease \in 0..Lease /\ 0 \in 0..Lease
  BY TaskQueueAssumption
<1>1. [r EXCEPT !.lease = Lease] \in TaskRow
  BY DEF TaskRow
<1>2. ASSUME NEW s \in TaskStatus
      PROVE  [r EXCEPT !.status = s, !.token = None, !.lease = 0] \in TaskRow
  BY DEF TaskRow
<1> QED
  BY <1>1, <1>2

LEMMA RowNew == [NoTaskRow EXCEPT !.status = "pending"] \in TaskRow /\ NoTaskRow \in TaskRow
<1> 0 \in 0..Lease /\ 0 \in 0..MaxAttempts /\ {"unborn", "pending"} \subseteq TaskStatus
  BY TaskQueueAssumption DEF TaskStatus
<1> QED
  BY DEF NoTaskRow, TaskRow

LEMMA RowClaimed ==
    ASSUME NEW r \in TaskRow, NEW k \in Tokens
    PROVE  Claimed(r, k) \in TaskRow
<1>1. (IF r.attempts < MaxAttempts THEN r.attempts + 1 ELSE r.attempts) \in 0..MaxAttempts
  BY TaskQueueAssumption DEF TaskRow
<1>2. Lease \in 0..Lease /\ "running" \in TaskStatus
  BY TaskQueueAssumption DEF TaskStatus
<1> QED
  BY <1>1, <1>2 DEF Claimed, TaskRow

LEMMA RowFinished ==
    ASSUME NEW r \in TaskRow, NEW s \in TaskStatus
    PROVE  Finished(r, s) \in TaskRow
<1>1. (IF s = "pending" THEN 1 ELSE r.wait) \in 0..1
  BY DEF TaskRow
<1>2. 0 \in 0..Lease
  BY TaskQueueAssumption
<1> QED
  BY <1>1, <1>2 DEF Finished, TaskRow

LEMMA TickedType ==
    ASSUME NEW m \in Nat, NEW n \in 0..m
    PROVE  Ticked(n) \in 0..m
BY DEF Ticked

LEMMA RowTicked ==
    ASSUME NEW r \in TaskRow
    PROVE  TickedRow(r) \in TaskRow
<1>1. Ticked(r.lease) \in 0..Lease /\ Ticked(r.wait) \in 0..1
  BY TickedType, TaskQueueAssumption DEF TaskRow
<1> QED
  BY <1>1 DEF TickedRow, TaskRow

\* So does every change of a lock ...
LEMMA LockTypes ==
    /\ FreeLock \in LockRow
    /\ \A r \in LockRow : [r EXCEPT !.left = Lease] \in LockRow
    /\ \A r \in LockRow : [r EXCEPT !.left = Ticked(@)] \in LockRow
    /\ \A t \in Tasks, k \in Tokens : [task |-> t, token |-> k, left |-> Lease] \in LockRow
<1>1. 0 \in 0..Lease /\ Lease \in 0..Lease
  BY TaskQueueAssumption
<1>2. FreeLock \in LockRow
  BY <1>1 DEF FreeLock, LockRow
<1>3. \A r \in LockRow : [r EXCEPT !.left = Lease] \in LockRow
  BY <1>1 DEF LockRow
<1>4. ASSUME NEW r \in LockRow PROVE [r EXCEPT !.left = Ticked(@)] \in LockRow
  <2>1. Ticked(r.left) \in 0..Lease
    BY TickedType, TaskQueueAssumption DEF LockRow
  <2> QED
    BY <2>1 DEF LockRow
<1>5. \A t \in Tasks, k \in Tokens : [task |-> t, token |-> k, left |-> Lease] \in LockRow
  BY <1>1 DEF LockRow
<1> QED
  BY <1>2, <1>3, <1>4, <1>5

\* ... and of a handler's local state.
LEMMA IdleType ==
    /\ IdleWorker \in WorkerState
    /\ \A t \in Tasks :
        [IdleWorker EXCEPT !.pc = "claimed", !.task = t, !.unacked = TRUE] \in WorkerState
<1>1. 0 \in 0..MaxAttempts /\ 1 \in 1..2 /\ "none" \in InstanceStatus
  BY TaskQueueAssumption DEF InstanceStatus
<1>2. IdleWorker \in WorkerState
  BY <1>1 DEF IdleWorker, WorkerState, WorkerRow
<1>3. ASSUME NEW t \in Tasks
      PROVE  [IdleWorker EXCEPT !.pc = "claimed", !.task = t, !.unacked = TRUE] \in WorkerState
  BY <1>2, TaskQueueAssumption DEF IdleWorker, WorkerState, WorkerRow
<1> QED
  BY <1>2, <1>3

LEMMA WorkerMoves ==
    ASSUME NEW r \in WorkerState, r.pc # "idle"
    PROVE  /\ \A p \in {"fenced", "calling", "returned", "finishing", "releasing", "failing"} :
                [r EXCEPT !.pc = p] \in WorkerState
           /\ \A x \in {"ok", "error", "cancelled"} :
                [r EXCEPT !.pc = "finishing", !.result = x] \in WorkerState
           /\ [r EXCEPT !.pc = "loaded", !.leg = 2] \in WorkerState
<1>1. \A p \in {"fenced", "calling", "returned", "finishing", "releasing", "failing"} :
        [r EXCEPT !.pc = p] \in WorkerState
  BY DEF WorkerState, WorkerRow, Executing
<1>2. \A x \in {"ok", "error", "cancelled"} :
        [r EXCEPT !.pc = "finishing", !.result = x] \in WorkerState
  BY DEF WorkerState, WorkerRow
<1>3. [r EXCEPT !.pc = "loaded", !.leg = 2] \in WorkerState
  <2>1. 2 \in 1..2 /\ "loaded" \in Executing
    BY DEF Executing
  <2> QED
    BY <2>1 DEF WorkerState, WorkerRow
<1> QED
  BY <1>1, <1>2, <1>3

LEMMA WorkerAcks ==
    ASSUME NEW r \in WorkerState
    PROVE  [r EXCEPT !.unacked = FALSE] \in WorkerState
BY DEF WorkerState, WorkerRow

\* A handler past the claim serves a task, whose row it may read.
LEMMA Serving ==
    ASSUME TypeOK, NEW w \in Workers, worker[w].pc # "idle" \/ worker[w].unacked
    PROVE  /\ worker[w].task \in Tasks
           /\ task[worker[w].task] \in TaskRow
           /\ InstanceOf[worker[w].task] \in Instances
<1>1. worker[w] \in WorkerState
  BY DEF TypeOK
<1>2. worker[w].task \in Tasks
  BY <1>1 DEF WorkerState, WorkerRow
<1> QED
  BY <1>2, TaskQueueAssumption DEF TypeOK

LEMMA WorkerLoads ==
    ASSUME NEW r \in WorkerState, r.pc # "idle", NEW k \in Tokens \cup {None},
           NEW n \in 0..MaxAttempts, NEW s \in InstanceStatus
    PROVE  [r EXCEPT !.pc = "loaded", !.token = k, !.attempts = n, !.seen = s] \in WorkerState
BY DEF WorkerState, WorkerRow, Executing

LEMMA TypeInit == Init => TypeOK
<1> SUFFICES ASSUME Init PROVE TypeOK
  OBVIOUS
<1>1. task \in [Tasks -> TaskRow]
  BY RowNew DEF Init
<1>2. lock \in [Instances -> LockRow] /\ worker \in [Workers -> WorkerState]
  BY LockTypes, IdleType DEF Init
<1>3. inst \in [Instances -> InstanceStatus] /\ queue \in [Tasks -> 0..MaxCopies]
  BY TaskQueueAssumption DEF Init
<1> QED
  BY <1>1, <1>2, <1>3 DEF Init, TypeOK

\* Taking a retry-deploy back leaves the instance in one of its states.
LEMMA UndeployedType ==
    ASSUME TypeOK, NEW t \in Tasks
    PROVE  Undeployed(t) \in [Instances -> InstanceStatus]
BY TaskQueueAssumption DEF Undeployed, TypeOK, InstanceStatus

\* Creating tasks keeps the types.
LEMMA CreateTypes ==
    ASSUME TypeOK, NEW t \in Tasks, Create(t)
    PROVE  TypeOK'
<1>1. CASE CreateInstance(t)
  <2>1. task' \in [Tasks -> TaskRow]
    BY <1>1, RowStatus, StatusNames DEF CreateInstance, TypeOK, Insert
  <2>2. inst' \in [Instances -> InstanceStatus]
    BY <1>1, TaskQueueAssumption DEF CreateInstance, TypeOK, InstanceStatus
  <2>3. queue' \in [Tasks -> 0..MaxCopies]
    BY <1>1, TaskQueueAssumption DEF CreateInstance, TypeOK, Enqueue
  <2> QED
    BY <1>1, <2>1, <2>2, <2>3 DEF CreateInstance, TypeOK, history
<1>2. CASE RequestAction(t)
  <2>1. task' \in [Tasks -> TaskRow]
    BY <1>2, RowStatus, StatusNames DEF RequestAction, TypeOK
  <2> QED
    BY <1>2, <2>1 DEF RequestAction, TypeOK, history
<1>3. CASE InsertRequested(t)
  <2>1. task' \in [Tasks -> TaskRow]
    BY <1>3, RowStatus, StatusNames DEF InsertRequested, TypeOK, Insert
  <2>2. followup' \subseteq Followup
    BY <1>3 DEF InsertRequested, TypeOK
  <2>3. stale' \subseteq Tasks
    BY <1>3, TaskQueueAssumption DEF InsertRequested, TypeOK, Outdated
  <2>4. queue' \in [Tasks -> 0..MaxCopies]
    BY <1>3, TaskQueueAssumption DEF InsertRequested, TypeOK, Enqueue
  <2> QED
    BY <1>3, <2>1, <2>2, <2>3, <2>4 DEF InsertRequested, TypeOK, history
<1>4. CASE RefuseRequested(t)
  <2>1. task' \in [Tasks -> TaskRow]
    BY <1>4, RowStatus, StatusNames DEF RefuseRequested, TypeOK
  <2> QED
    BY <1>4, <2>1 DEF RefuseRequested, TypeOK, history
<1>5. CASE scheduleLifecycle(t)
  <2>1. task' \in [Tasks -> TaskRow]
    <3>1. PICK n \in 0..1 :
            task' = [task EXCEPT ![t] = [@ EXCEPT !.status = "pending", !.wait = n]]
      BY <1>5 DEF scheduleLifecycle
    <3>2. [task[t] EXCEPT !.status = "pending", !.wait = n] \in TaskRow
      BY RowStatus, StatusNames DEF TypeOK
    <3> QED
      BY <3>1, <3>2 DEF TypeOK
  <2>2. queue' \in [Tasks -> 0..MaxCopies]
    BY <1>5, TaskQueueAssumption DEF scheduleLifecycle, TypeOK, Enqueue
  <2> QED
    BY <1>5, <2>1, <2>2 DEF scheduleLifecycle, TypeOK, history
<1>6. CASE InsertTx(t)
  <2>1. task' \in [Tasks -> TaskRow]
    BY <1>6, RowStatus, StatusNames DEF InsertTx, TypeOK
  <2>2. stale' \subseteq Tasks
    BY <1>6, TaskQueueAssumption DEF InsertTx, TypeOK, Outdated
  <2>3. queue' \in [Tasks -> 0..MaxCopies]
    BY <1>6, TaskQueueAssumption DEF InsertTx, TypeOK, Enqueue
  <2> QED
    BY <1>6, <2>1, <2>2, <2>3 DEF InsertTx, TypeOK, history
<1>7. CASE MoveRequested(t)
  <2>1. inst' \in [Instances -> InstanceStatus]
    BY <1>7, TaskQueueAssumption DEF MoveRequested, TypeOK, InstanceStatus
  <2>2. followup' \subseteq Followup
    BY <1>7 DEF MoveRequested, Inserting, TypeOK, Followup
  <2> QED
    BY <1>7, <2>1, <2>2 DEF MoveRequested, TypeOK
<1>8. CASE UndoRequested(t)
  <2>1. task' \in [Tasks -> TaskRow]
    BY <1>8, RowStatus, StatusNames DEF UndoRequested, TypeOK
  <2>2. inst' \in [Instances -> InstanceStatus] /\ followup' \subseteq Followup
    BY <1>8, UndeployedType DEF UndoRequested, TypeOK
  <2> QED
    BY <1>8, <2>1, <2>2 DEF UndoRequested, TypeOK
<1> QED
  BY <1>1, <1>2, <1>3, <1>4, <1>5, <1>6, <1>7, <1>8 DEF Create

\* So does the control loop.
LEMMA LoopTypes ==
    ASSUME TypeOK, NEW t \in Tasks, Loop(t)
    PROVE  TypeOK'
<1>1. CASE RecoverPending(t)
  <2>1. queue' \in [Tasks -> 0..MaxCopies]
    BY <1>1, TaskQueueAssumption DEF RecoverPending, TypeOK, Enqueue
  <2> QED
    BY <1>1, <2>1 DEF RecoverPending, TypeOK, history
<1>2. CASE RecoverLease(t)
  <2>1. task' \in [Tasks -> TaskRow]
    BY <1>2, RowStatus, StatusNames DEF RecoverLease, TypeOK
  <2>2. queue' \in [Tasks -> 0..MaxCopies]
    BY <1>2, TaskQueueAssumption DEF RecoverLease, TypeOK, Enqueue
  <2> QED
    BY <1>2, <2>1, <2>2 DEF RecoverLease, TypeOK, history
<1>3. CASE quarantineDangerousFailedTasks(t)
  <2>1. task' \in [Tasks -> TaskRow]
    BY <1>3, RowStatus, StatusNames DEF quarantineDangerousFailedTasks, TypeOK
  <2> QED
    BY <1>3, <2>1 DEF quarantineDangerousFailedTasks, TypeOK, history
<1>4. CASE ReconcileOperation(t)
  <2>1. inst' \in [Instances -> InstanceStatus]
    BY <1>4, TaskQueueAssumption DEF ReconcileOperation, TypeOK, InstanceStatus
  <2>2. followup' \subseteq Followup
    BY <1>4, TaskQueueAssumption DEF ReconcileOperation, TypeOK, Followup
  <2> QED
    BY <1>4, <2>1, <2>2 DEF ReconcileOperation, TypeOK, history
<1>5. CASE FinalizeOperation(t)
  <2>1. task' \in [Tasks -> TaskRow]
    BY <1>5, RowStatus, StatusNames DEF FinalizeOperation, TypeOK
  <2>2. followup' \subseteq Followup
    BY <1>5, TaskQueueAssumption DEF FinalizeOperation, TypeOK, Followup
  <2> QED
    BY <1>5, <2>1, <2>2 DEF FinalizeOperation, TypeOK, history
<1>6. CASE ReconcileResize(t)
  <2>1. task' \in [Tasks -> TaskRow]
    <3>1. PICK s \in {"succeeded", "failed"} : task' = [task EXCEPT ![t].status = s]
      BY <1>6 DEF ReconcileResize
    <3>2. [task[t] EXCEPT !.status = s] \in TaskRow
      BY RowStatus, StatusNames DEF TypeOK
    <3> QED
      BY <3>1, <3>2 DEF TypeOK
  <2> QED
    BY <1>6, <2>1 DEF ReconcileResize, TypeOK, history
<1> QED
  BY <1>1, <1>2, <1>3, <1>4, <1>5, <1>6 DEF Loop

\* So do users and administrators.
LEMMA ManageTypes ==
    ASSUME TypeOK, NEW t \in Tasks, Manage(t)
    PROVE  TypeOK'
<1>1. CASE CancelQueued(t)
  <2>1. task' \in [Tasks -> TaskRow]
    BY <1>1, RowStatus, StatusNames DEF CancelQueued, TypeOK
  <2>2. followup' \subseteq Followup
    BY <1>1 DEF CancelQueued, TypeOK, Followup
  <2> QED
    BY <1>1, <2>1, <2>2 DEF CancelQueued, TypeOK, history
<1>2. CASE CancelDestroy(t)
  <2>1. task' \in [Tasks -> TaskRow]
    BY <1>2, RowStatus, StatusNames DEF CancelDestroy, TypeOK
  <2>2. inst' \in [Instances -> InstanceStatus]
    BY <1>2, TaskQueueAssumption DEF CancelDestroy, TypeOK, InstanceStatus
  <2> QED
    BY <1>2, <2>1, <2>2 DEF CancelDestroy, TypeOK, history
<1>3. CASE retryTask(t)
  <2>1. task' \in [Tasks -> TaskRow]
    <3>1. CASE dangerousRecoveredTask(ActionOf[t])
      <4>1. [task[t] EXCEPT !.status = "needs_review", !.token = None] \in TaskRow
        BY RowStatus, StatusNames DEF TypeOK
      <4> QED
        BY <1>3, <3>1, <4>1 DEF retryTask, TypeOK
    <3>2. CASE ~ dangerousRecoveredTask(ActionOf[t])
      BY <1>3, <3>2, RowNew DEF retryTask, TypeOK
    <3> QED
      BY <3>1, <3>2
  <2>2. queue' \in [Tasks -> 0..MaxCopies]
    BY <1>3, TaskQueueAssumption DEF retryTask, TypeOK, Enqueue
  <2> QED
    BY <1>3, <2>1, <2>2 DEF retryTask, TypeOK, history
<1>4. CASE resumeReviewTask(t)
  <2>1. task' \in [Tasks -> TaskRow]
    BY <1>4, RowStatus, StatusNames DEF resumeReviewTask, TypeOK
  <2>2. followup' \subseteq Followup
    BY <1>4, TaskQueueAssumption DEF resumeReviewTask, TypeOK, Followup
  <2>3. resumed' \subseteq Tasks
    BY <1>4, TaskQueueAssumption DEF resumeReviewTask, TypeOK
  <2> QED
    BY <1>4, <2>1, <2>2, <2>3 DEF resumeReviewTask, TypeOK, history
<1>5. CASE discardReviewTask(t)
  <2>1. task' \in [Tasks -> TaskRow]
    <3>1. task[t] \in TaskRow
      BY DEF TypeOK
    <3>2. /\ [task[t] EXCEPT !.status = "failed"] \in TaskRow
          /\ [task[t] EXCEPT !.status = "discarded", !.token = None] \in TaskRow
      BY <3>1, RowStatus, StatusNames
    <3> QED
      BY <1>5, <3>2 DEF discardReviewTask, TypeOK
  <2>2. followup' \subseteq Followup
    BY <1>5, TaskQueueAssumption DEF discardReviewTask, TypeOK, Followup
  <2> QED
    BY <1>5, <2>1, <2>2 DEF discardReviewTask, TypeOK, history
<1>6. CASE \E do \in {"resume", "discard"} : ClearLock(t, do)
  <2>1. lock' \in [Instances -> LockRow]
    BY <1>6, LockTypes DEF ClearLock, TypeOK
  <2>2. queue' \in [Tasks -> 0..MaxCopies] /\ followup' \subseteq Followup
    BY <1>6, TaskQueueAssumption DEF ClearLock, TypeOK, Enqueue
  <2> QED
    BY <1>6, <2>1, <2>2 DEF ClearLock, TypeOK
<1>7. CASE UndoDeploy(t)
  <2>1. inst' \in [Instances -> InstanceStatus] /\ followup' \subseteq Followup
    BY <1>7, UndeployedType DEF UndoDeploy, TypeOK
  <2> QED
    BY <1>7, <2>1 DEF UndoDeploy, TypeOK
<1> QED
  BY <1>1, <1>2, <1>3, <1>4, <1>5, <1>6, <1>7 DEF Manage

\* So do the handlers.
LEMMA HandleTypes ==
    ASSUME TypeOK, NEW w \in Workers, Handle(w)
    PROVE  TypeOK'
<1>1. CASE ReloadTask(w)
  <2>1. worker' \in [Workers -> WorkerState]
    BY <1>1, WorkerLoads, Serving, TaskQueueAssumption DEF ReloadTask, TypeOK, TaskRow
  <2> QED
    BY <1>1, <2>1 DEF ReloadTask, TypeOK, history
<1>2. CASE ReloadFails(w)
  <2>1. worker' \in [Workers -> WorkerState]
    BY <1>2, IdleType DEF ReloadFails, Leave, TypeOK
  <2> QED
    BY <1>2, <2>1 DEF ReloadFails, TypeOK, history
<1>3. CASE PassFence(w)
  <2>1. worker' \in [Workers -> WorkerState]
    BY <1>3, WorkerMoves DEF PassFence, TypeOK
  <2> QED
    BY <1>3, <2>1 DEF PassFence, TypeOK, history
<1>4. CASE ExecuteFails(w)
  <2>1. worker' \in [Workers -> WorkerState]
    BY <1>4, WorkerMoves DEF ExecuteFails, TypeOK
  <2> QED
    BY <1>4, <2>1 DEF ExecuteFails, TypeOK, history
<1>5. CASE CallAgent(w)
  <2>1. worker' \in [Workers -> WorkerState]
    BY <1>5, WorkerMoves DEF CallAgent, TypeOK
  <2> QED
    BY <1>5, <2>1 DEF CallAgent, TypeOK, history
<1>6. CASE SkipAgent(w)
  <2>1. worker' \in [Workers -> WorkerState]
    BY <1>6, WorkerMoves DEF SkipAgent, TypeOK
  <2> QED
    BY <1>6, <2>1 DEF SkipAgent, TypeOK, history
<1>7. CASE AgentSucceeds(w)
  <2>1. worker' \in [Workers -> WorkerState]
    BY <1>7, WorkerMoves DEF AgentSucceeds, TypeOK
  <2> QED
    BY <1>7, <2>1 DEF AgentSucceeds, TypeOK, history
<1>8. CASE AgentFails(w)
  <2>1. worker' \in [Workers -> WorkerState]
    <3>1. PICK r \in {"error", "cancelled"} :
            worker' = [worker EXCEPT ![w] = [@ EXCEPT !.pc = "finishing", !.result = r]]
      BY <1>8 DEF AgentFails
    <3>2. [worker[w] EXCEPT !.pc = "finishing", !.result = r] \in WorkerState
      BY <1>8, WorkerMoves DEF AgentFails, TypeOK
    <3> QED
      BY <3>1, <3>2 DEF TypeOK
  <2> QED
    BY <1>8, <2>1 DEF AgentFails, TypeOK, history
<1>9. CASE CommitResult(w)
  <2>1. inst' \in [Instances -> InstanceStatus]
    <3>1. CommitTarget(ActionOf[worker[w].task], worker[w].seen) \in InstanceStatus
      BY CommitTargetType DEF TypeOK, WorkerState, WorkerRow
    <3> QED
      BY <1>9, <3>1 DEF CommitResult, TypeOK
  <2>2. worker' \in [Workers -> WorkerState]
    BY <1>9, WorkerMoves DEF CommitResult, TypeOK
  <2> QED
    BY <1>9, <2>1, <2>2 DEF CommitResult, TypeOK, history
<1>10. CASE CommitFails(w)
  <2>1. worker' \in [Workers -> WorkerState]
    BY <1>10, WorkerMoves DEF CommitFails, TypeOK
  <2> QED
    BY <1>10, <2>1 DEF CommitFails, TypeOK, history
<1>11. CASE renewTaskLease(w)
  <2>1. task' \in [Tasks -> TaskRow]
    BY <1>11, RowLease DEF renewTaskLease, TypeOK
  <2>2. lock' \in [Instances -> LockRow]
    BY <1>11, LockTypes DEF renewTaskLease, TypeOK
  <2> QED
    BY <1>11, <2>1, <2>2 DEF renewTaskLease, TypeOK, history
<1>12. CASE finishTask(w)
  <2>1. task' \in [Tasks -> TaskRow]
    BY <1>12, RowFinished, FinishStatusType, StatusNames DEF finishTask, TypeOK
  <2>2. worker' \in [Workers -> WorkerState]
    BY <1>12, WorkerMoves DEF finishTask, TypeOK
  <2> QED
    BY <1>12, <2>1, <2>2 DEF finishTask, TypeOK, history
<1>13. CASE FinishRefused(w)
  <2>1. worker' \in [Workers -> WorkerState]
    BY <1>13, IdleType DEF FinishRefused, Leave, TypeOK
  <2> QED
    BY <1>13, <2>1 DEF FinishRefused, TypeOK, history
<1>14. CASE releaseInstanceTaskLock(w)
  <2>1. lock' \in [Instances -> LockRow]
    BY <1>14, LockTypes DEF releaseInstanceTaskLock, TypeOK
  <2>2. worker' \in [Workers -> WorkerState]
    <3>1. CASE worker[w].result = "ok"
      BY <1>14, <3>1, IdleType DEF releaseInstanceTaskLock, Leave, TypeOK
    <3>2. CASE worker[w].result # "ok"
      <4>1. [worker[w] EXCEPT !.pc = "failing"] \in WorkerState
        BY <1>14, WorkerMoves DEF releaseInstanceTaskLock, TypeOK
      <4> QED
        BY <1>14, <3>2, <4>1 DEF releaseInstanceTaskLock, TypeOK
    <3> QED
      BY <3>1, <3>2
  <2> QED
    BY <1>14, <2>1, <2>2 DEF releaseInstanceTaskLock, TypeOK, history
<1>15. CASE failDeployment(w)
  <2>1. inst' \in [Instances -> InstanceStatus]
    BY <1>15, TaskQueueAssumption DEF failDeployment, TypeOK, InstanceStatus
  <2>2. worker' \in [Workers -> WorkerState]
    BY <1>15, IdleType DEF failDeployment, Leave, TypeOK
  <2> QED
    BY <1>15, <2>1, <2>2 DEF failDeployment, TypeOK, history
<1>16. CASE Crash(w)
  <2>1. worker' \in [Workers -> WorkerState]
    BY <1>16, IdleType DEF Crash, Leave, TypeOK
  <2>2. queue' \in [Tasks -> 0..MaxCopies]
    BY <1>16, TaskQueueAssumption DEF Crash, TypeOK, Enqueue
  <2> QED
    BY <1>16, <2>1, <2>2 DEF Crash, TypeOK, history
<1>17. CASE Redeliver(w)
  <2>1. worker' \in [Workers -> WorkerState]
    BY <1>17, WorkerAcks DEF Redeliver, TypeOK
  <2>2. queue' \in [Tasks -> 0..MaxCopies]
    BY <1>17, Serving, TaskQueueAssumption DEF Redeliver, TypeOK
  <2> QED
    BY <1>17, <2>1, <2>2 DEF Redeliver, TypeOK, history
<1>18. ASSUME NEW t \in Tasks, claimTask(w, t) PROVE TypeOK'
  <2>1. task' \in [Tasks -> TaskRow]
    BY <1>18, RowClaimed DEF claimTask, TypeOK, FreshTokens
  <2>2. lock' \in [Instances -> LockRow]
    <3>1. PICK k \in Tokens :
            lock' = [lock EXCEPT ![InstanceOf[t]] =
                        [task |-> t, token |-> k, left |-> Lease]]
      BY <1>18 DEF claimTask, FreshTokens
    <3>2. [task |-> t, token |-> k, left |-> Lease] \in LockRow
      BY LockTypes
    <3> QED
      BY <3>1, <3>2 DEF TypeOK
  <2>3. queue' \in [Tasks -> 0..MaxCopies]
    BY <1>18, TaskQueueAssumption DEF claimTask, TypeOK
  <2>4. worker' \in [Workers -> WorkerState]
    BY <1>18, IdleType DEF claimTask, TypeOK
  <2>5. claimant' \in [Tasks -> Workers \cup {None}]
    BY <1>18, TaskQueueAssumption DEF claimTask, TypeOK
  <2> QED
    BY <1>18, <2>1, <2>2, <2>3, <2>4, <2>5 DEF claimTask, TypeOK, history
<1>19. ASSUME NEW t \in Tasks, ClaimRefused(w, t) PROVE TypeOK'
  <2>1. queue' \in [Tasks -> 0..MaxCopies]
    BY <1>19, TaskQueueAssumption DEF ClaimRefused, TypeOK
  <2> QED
    BY <1>19, <2>1 DEF ClaimRefused, TypeOK, history
<1> QED
  BY <1>1, <1>2, <1>3, <1>4, <1>5, <1>6, <1>7, <1>8, <1>9, <1>10, <1>11, <1>12, <1>13, <1>14, <1>15, <1>16, <1>17, <1>18, <1>19 DEF Handle

\* So do the other components.
LEMMA EnvironmentTypes ==
    ASSUME TypeOK, NEW i \in Instances, Environment(i)
    PROVE  TypeOK'
<1>1. CASE Supersede(i)
  <2>1. stale' \subseteq Tasks
    BY <1>1, TaskQueueAssumption DEF Supersede, TypeOK, Outdated
  <2> QED
    BY <1>1, <2>1 DEF Supersede, TypeOK, history
<1>2. CASE NodeFlip(i)
  <2>1. down' \subseteq Instances
    BY <1>2, TaskQueueAssumption DEF NodeFlip, TypeOK
  <2> QED
    BY <1>2, <2>1 DEF NodeFlip, TypeOK, history
<1>3. CASE RevokeDevice(i)
  <2>1. down' \subseteq Instances
    BY <1>3, TaskQueueAssumption DEF RevokeDevice, TypeOK
  <2>2. task' \in [Tasks -> TaskRow]
    BY <1>3, RowLease, StatusNames DEF RevokeDevice, TypeOK
  <2>3. lock' \in [Instances -> LockRow]
    BY <1>3, LockTypes DEF RevokeDevice, TypeOK
  <2> QED
    BY <1>3, <2>1, <2>2, <2>3 DEF RevokeDevice, TypeOK, history
<1>4. CASE OtherWriter(i)
  <2>1. inst' \in [Instances -> InstanceStatus]
    BY <1>4, TaskQueueAssumption DEF OtherWriter, TypeOK, InstanceStatus
  <2> QED
    BY <1>4, <2>1 DEF OtherWriter, TypeOK, history
<1> QED
  BY <1>1, <1>2, <1>3, <1>4 DEF Environment

LEMMA TickTypes == ASSUME TypeOK, Tick PROVE TypeOK'
<1>1. task' \in [Tasks -> TaskRow]
  BY RowTicked DEF Tick, TypeOK
<1>2. lock' \in [Instances -> LockRow]
  BY LockTypes DEF Tick, TypeOK
<1> QED
  BY <1>1, <1>2 DEF Tick, TypeOK, history

LEMMA TypeNext == TypeOK /\ [Next]_vars => TypeOK'
<1> SUFFICES ASSUME TypeOK, [Next]_vars PROVE TypeOK'
  OBVIOUS
<1>1. CASE UNCHANGED vars
  BY <1>1 DEF TypeOK, vars, history
<1>2. CASE Next
  BY <1>2, CreateTypes, LoopTypes, ManageTypes, HandleTypes, EnvironmentTypes, TickTypes
  DEF Next
<1> QED
  BY <1>1, <1>2

\* Every row, lock and handler stays well formed.
THEOREM TypeCorrect == Spec => []TypeOK
BY TypeInit, TypeNext, PTL DEF Spec
-----------------------------------------------------------------------------
(* Execution tokens.                                                       *)

\* A step that hands out no token: rows keep or drop theirs, handlers keep
\* their task and token and do not enter the stage "claimed", or leave.
QuietRows == \A t \in Tasks : task'[t].token \in {task[t].token, None}

QuietWorkers ==
    \A w \in Workers :
        \/ worker'[w] = IdleWorker
        \/ /\ worker'[w].task = worker[w].task
           /\ worker'[w].token = worker[w].token
           /\ worker'[w].pc \in {"idle", "claimed"} => worker'[w].pc = worker[w].pc

Quiet == QuietRows /\ QuietWorkers /\ claimant' = claimant

\* No step but a claim and a reload can disturb the invariant.
LEMMA QuietTokens ==
    ASSUME TypeOK, TokensInv, Quiet
    PROVE  TokensInv'
<1> USE DEF Quiet, QuietRows, QuietWorkers
<1>0. IdleWorker.token = None /\ IdleWorker.pc = "idle"
  BY DEF IdleWorker
<1>1. \A w \in Workers :
        worker'[w].token # None => /\ worker'[w].token = worker[w].token
                                   /\ worker'[w].task = worker[w].task
  BY <1>0
<1>2. \A w \in Workers :
        worker'[w].pc = "claimed" => /\ worker[w].pc = "claimed"
                                     /\ worker'[w].task = worker[w].task
  BY <1>0
<1>3. (\A t, u \in Tasks :
        t # u /\ task[t].token # None => task[t].token # task[u].token)'
  BY DEF TokensInv
<1>4. (\A v, w \in Workers :
        v # w /\ worker[v].token # None => worker[v].token # worker[w].token)'
  BY <1>1 DEF TokensInv
<1>5. (\A w \in Workers :
        worker[w].pc \in {"idle", "claimed"} => worker[w].token = None)'
  BY <1>0 DEF TokensInv
<1>6. ASSUME NEW w \in Workers, worker'[w].pc = "claimed"
      PROVE  /\ claimant'[worker'[w].task] = w
             /\ task'[worker'[w].task].token # None =>
                 \A v \in Workers : worker'[v].token # task'[worker'[w].task].token
  <2>1. worker'[w].task = worker[w].task /\ worker[w].pc = "claimed"
    BY <1>2, <1>6
  <2>2. worker[w].task \in Tasks
    BY <2>1, Serving
  <2>3. claimant[worker[w].task] = w
    BY <2>1 DEF TokensInv
  <2>4. task[worker[w].task].token # None =>
            \A v \in Workers : worker[v].token # task[worker[w].task].token
    BY <2>1 DEF TokensInv
  <2>5. task'[worker[w].task].token # None =>
            task'[worker[w].task].token = task[worker[w].task].token
    BY <2>2
  <2> QED
    BY <1>1, <2>1, <2>3, <2>4, <2>5
<1>7. ASSUME NEW w \in Workers,
             worker'[w].token # None, worker'[w].token = task'[worker'[w].task].token
      PROVE  claimant'[worker'[w].task] = w
  <2>1. worker'[w].token = worker[w].token /\ worker'[w].task = worker[w].task
    BY <1>1, <1>7
  <2>2. worker[w].pc # "idle"
    BY <1>7, <2>1 DEF TokensInv
  <2>3. worker[w].task \in Tasks
    BY <2>2, Serving
  <2>4. worker[w].token = task[worker[w].task].token
    BY <1>7, <2>1, <2>3
  <2> QED
    BY <1>7, <2>1, <2>4 DEF TokensInv
<1> QED
  BY <1>3, <1>4, <1>5, <1>6, <1>7 DEF TokensInv

\* A claim: the fresh token is nobody's, and the claimant is recorded.
LEMMA ClaimTokens ==
    ASSUME TypeOK, TokensInv, "reload" \in Prompt,
           NEW w \in Workers, NEW t \in Tasks, claimTask(w, t)
    PROVE  TokensInv'
<1>1. PICK k \in FreshTokens :
        task' = [task EXCEPT ![t] = Claimed(@, k)]
  BY DEF claimTask
<1>2. /\ k \in Tokens /\ k # None
      /\ \A u \in Tasks : task[u].token # k
      /\ \A v \in Workers : worker[v].token # k
  BY TaskQueueAssumption DEF FreshTokens, TokensInUse
<1>3. task'[t].token = k /\ \A u \in Tasks \ {t} : task'[u] = task[u]
  <2>1. task[t] \in TaskRow
    BY DEF TypeOK
  <2>2. Claimed(task[t], k).token = k
    BY <2>1 DEF Claimed, TaskRow
  <2> QED
    BY <1>1, <2>2 DEF TypeOK
<1>4. /\ worker'[w].pc = "claimed" /\ worker'[w].task = t /\ worker'[w].token = None
      /\ \A v \in Workers \ {w} : worker'[v] = worker[v]
  BY DEF claimTask, TypeOK, IdleWorker
<1>5. claimant' = [claimant EXCEPT ![t] = w]
  BY DEF claimTask
<1>6. (\A u, v \in Tasks :
        u # v /\ task[u].token # None => task[u].token # task[v].token)'
  BY <1>2, <1>3 DEF TokensInv
<1>7. (\A u, v \in Workers :
        u # v /\ worker[u].token # None => worker[u].token # worker[v].token)'
  BY <1>4 DEF TokensInv
<1>8. (\A v \in Workers :
        worker[v].pc \in {"idle", "claimed"} => worker[v].token = None)'
  BY <1>4 DEF TokensInv
<1>9. ASSUME NEW v \in Workers, worker'[v].pc = "claimed"
      PROVE  /\ claimant'[worker'[v].task] = v
             /\ task'[worker'[v].task].token # None =>
                 \A u \in Workers : worker'[u].token # task'[worker'[v].task].token
  <2>1. CASE v = w
    BY <1>2, <1>3, <1>4, <1>5, <2>1 DEF TypeOK
  <2>2. CASE v # w
    <3>1. worker'[v] = worker[v] /\ worker[v].pc = "claimed"
      BY <1>4, <1>9, <2>2
    <3>2. worker[v].task \in Tasks \ {t}
      BY <3>1, Serving DEF claimTask
    <3>3. /\ claimant[worker[v].task] = v
          /\ task[worker[v].task].token # None =>
                 \A u \in Workers : worker[u].token # task[worker[v].task].token
      BY <3>1 DEF TokensInv
    <3> QED
      BY <1>3, <1>4, <1>5, <3>1, <3>2, <3>3 DEF TypeOK
  <2> QED
    BY <2>1, <2>2
<1>10. ASSUME NEW v \in Workers,
              worker'[v].token # None, worker'[v].token = task'[worker'[v].task].token
       PROVE  claimant'[worker'[v].task] = v
  <2>1. worker'[v] = worker[v]
    BY <1>4, <1>10
  <2>2. worker[v].pc # "idle"
    BY <1>10, <2>1 DEF TokensInv
  <2>3. worker[v].task \in Tasks \ {t}
    BY <1>2, <1>3, <1>10, <2>1, <2>2, Serving
  <2> QED
    BY <1>3, <1>5, <1>10, <2>1, <2>3 DEF TokensInv, TypeOK
<1> QED
  BY <1>6, <1>7, <1>8, <1>9, <1>10 DEF TokensInv

\* A reload: the row's token is still the one of the handler's own claim.
LEMMA ReloadTokens ==
    ASSUME TypeOK, TokensInv, NEW w \in Workers, ReloadTask(w)
    PROVE  TokensInv'
<1> DEFINE t == worker[w].task
           k == task[t].token
<1>1. t \in Tasks /\ worker[w].pc = "claimed" /\ worker[w].token = None
  BY Serving DEF ReloadTask, TokensInv
<1>2. claimant[t] = w /\ (k # None => \A v \in Workers : worker[v].token # k)
  BY <1>1 DEF TokensInv
<1>3. /\ worker'[w].pc = "loaded" /\ worker'[w].task = t /\ worker'[w].token = k
      /\ \A v \in Workers \ {w} : worker'[v] = worker[v]
      /\ task' = task /\ claimant' = claimant
  <2>1. worker[w] \in WorkerState
    BY DEF TypeOK
  <2> QED
    BY <2>1 DEF ReloadTask, TypeOK, WorkerState, WorkerRow
<1> HIDE DEF t, k
<1>4. (\A u, v \in Tasks :
        u # v /\ task[u].token # None => task[u].token # task[v].token)'
  BY <1>3 DEF TokensInv
<1>5. (\A u, v \in Workers :
        u # v /\ worker[u].token # None => worker[u].token # worker[v].token)'
  BY <1>2, <1>3 DEF TokensInv
<1>6. (\A v \in Workers :
        worker[v].pc \in {"idle", "claimed"} => worker[v].token = None)'
  BY <1>3 DEF TokensInv
<1>7. ASSUME NEW v \in Workers, worker'[v].pc = "claimed"
      PROVE  /\ claimant'[worker'[v].task] = v
             /\ task'[worker'[v].task].token # None =>
                 \A u \in Workers : worker'[u].token # task'[worker'[v].task].token
  <2>1. v # w /\ worker'[v] = worker[v] /\ worker[v].pc = "claimed"
    BY <1>3, <1>7
  <2>2. worker[v].task \in Tasks
    BY <2>1, Serving
  <2>3. /\ claimant[worker[v].task] = v
        /\ task[worker[v].task].token # None =>
             \A u \in Workers : worker[u].token # task[worker[v].task].token
    BY <2>1 DEF TokensInv
  <2>4. worker[v].task # t
    BY <1>2, <2>1, <2>3
  <2>5. task[worker[v].task].token # None => task[worker[v].task].token # k
    BY <1>1, <2>2, <2>4 DEF TokensInv, k
  <2> QED
    BY <1>3, <2>1, <2>3, <2>5
<1>8. ASSUME NEW v \in Workers,
             worker'[v].token # None, worker'[v].token = task'[worker'[v].task].token
      PROVE  claimant'[worker'[v].task] = v
  BY <1>2, <1>3, <1>8 DEF TokensInv
<1> QED
  BY <1>4, <1>5, <1>6, <1>7, <1>8 DEF TokensInv

\* Creating tasks is quiet.
LEMMA CreateQuiet ==
    ASSUME TypeOK, NEW t \in Tasks, Create(t)
    PROVE  Quiet
<1>1. CASE CreateInstance(t)
  <2>1. QuietRows
    BY <1>1 DEF CreateInstance, QuietRows, TypeOK, Insert, TaskRow
  <2>2. QuietWorkers
    BY <1>1 DEF CreateInstance, QuietWorkers, TypeOK, Insert
  <2> QED
    BY <1>1, <2>1, <2>2 DEF CreateInstance, Quiet
<1>2. CASE RequestAction(t)
  <2>1. QuietRows
    BY <1>2 DEF RequestAction, QuietRows, TypeOK, TaskRow
  <2>2. QuietWorkers
    BY <1>2 DEF RequestAction, QuietWorkers, TypeOK
  <2> QED
    BY <1>2, <2>1, <2>2 DEF RequestAction, Quiet
<1>3. CASE InsertRequested(t)
  <2>1. QuietRows
    BY <1>3 DEF InsertRequested, QuietRows, TypeOK, Insert, TaskRow
  <2>2. QuietWorkers
    BY <1>3 DEF InsertRequested, QuietWorkers, TypeOK, Insert
  <2> QED
    BY <1>3, <2>1, <2>2 DEF InsertRequested, Quiet
<1>4. CASE RefuseRequested(t)
  <2>1. QuietRows
    BY <1>4 DEF RefuseRequested, QuietRows, TypeOK, TaskRow
  <2>2. QuietWorkers
    BY <1>4 DEF RefuseRequested, QuietWorkers, TypeOK
  <2> QED
    BY <1>4, <2>1, <2>2 DEF RefuseRequested, Quiet
<1>5. CASE scheduleLifecycle(t)
  <2>1. QuietRows
    BY <1>5 DEF scheduleLifecycle, QuietRows, TypeOK, TaskRow
  <2>2. QuietWorkers
    BY <1>5 DEF scheduleLifecycle, QuietWorkers, TypeOK
  <2> QED
    BY <1>5, <2>1, <2>2 DEF scheduleLifecycle, Quiet
<1>6. CASE InsertTx(t)
  <2>1. QuietRows
    BY <1>6 DEF InsertTx, QuietRows, TypeOK, TaskRow
  <2>2. QuietWorkers
    BY <1>6 DEF InsertTx, QuietWorkers, TypeOK
  <2> QED
    BY <1>6, <2>1, <2>2 DEF InsertTx, Quiet
<1>7. CASE MoveRequested(t)
  BY <1>7 DEF MoveRequested, Quiet, QuietRows, QuietWorkers, TypeOK
<1>8. CASE UndoRequested(t)
  <2>1. QuietRows
    BY <1>8 DEF UndoRequested, QuietRows, TypeOK, TaskRow
  <2>2. QuietWorkers
    BY <1>8 DEF UndoRequested, QuietWorkers, TypeOK
  <2> QED
    BY <1>8, <2>1, <2>2 DEF UndoRequested, Quiet
<1> QED
  BY <1>1, <1>2, <1>3, <1>4, <1>5, <1>6, <1>7, <1>8 DEF Create

\* So is the control loop.
LEMMA LoopQuiet ==
    ASSUME TypeOK, NEW t \in Tasks, Loop(t)
    PROVE  Quiet
<1>1. CASE RecoverPending(t)
  <2>1. QuietRows
    BY <1>1 DEF RecoverPending, QuietRows, TypeOK
  <2>2. QuietWorkers
    BY <1>1 DEF RecoverPending, QuietWorkers, TypeOK
  <2> QED
    BY <1>1, <2>1, <2>2 DEF RecoverPending, Quiet
<1>2. CASE RecoverLease(t)
  <2>1. QuietRows
    BY <1>2 DEF RecoverLease, QuietRows, TypeOK, TaskRow
  <2>2. QuietWorkers
    BY <1>2 DEF RecoverLease, QuietWorkers, TypeOK
  <2> QED
    BY <1>2, <2>1, <2>2 DEF RecoverLease, Quiet
<1>3. CASE quarantineDangerousFailedTasks(t)
  <2>1. QuietRows
    BY <1>3 DEF quarantineDangerousFailedTasks, QuietRows, TypeOK, TaskRow
  <2>2. QuietWorkers
    BY <1>3 DEF quarantineDangerousFailedTasks, QuietWorkers, TypeOK
  <2> QED
    BY <1>3, <2>1, <2>2 DEF quarantineDangerousFailedTasks, Quiet
<1>4. CASE ReconcileOperation(t)
  <2>1. QuietRows
    BY <1>4 DEF ReconcileOperation, QuietRows, TypeOK
  <2>2. QuietWorkers
    BY <1>4 DEF ReconcileOperation, QuietWorkers, TypeOK
  <2> QED
    BY <1>4, <2>1, <2>2 DEF ReconcileOperation, Quiet
<1>5. CASE FinalizeOperation(t)
  <2>1. QuietRows
    BY <1>5 DEF FinalizeOperation, QuietRows, TypeOK, TaskRow
  <2>2. QuietWorkers
    BY <1>5 DEF FinalizeOperation, QuietWorkers, TypeOK
  <2> QED
    BY <1>5, <2>1, <2>2 DEF FinalizeOperation, Quiet
<1>6. CASE ReconcileResize(t)
  <2>1. QuietRows
    BY <1>6 DEF ReconcileResize, QuietRows, TypeOK, TaskRow
  <2>2. QuietWorkers
    BY <1>6 DEF ReconcileResize, QuietWorkers, TypeOK
  <2> QED
    BY <1>6, <2>1, <2>2 DEF ReconcileResize, Quiet
<1> QED
  BY <1>1, <1>2, <1>3, <1>4, <1>5, <1>6 DEF Loop

\* So are users and administrators.
LEMMA ManageQuiet ==
    ASSUME TypeOK, NEW t \in Tasks, Manage(t)
    PROVE  Quiet
<1>1. CASE CancelQueued(t)
  <2>1. QuietRows
    BY <1>1 DEF CancelQueued, QuietRows, TypeOK, TaskRow
  <2>2. QuietWorkers
    BY <1>1 DEF CancelQueued, QuietWorkers, TypeOK
  <2> QED
    BY <1>1, <2>1, <2>2 DEF CancelQueued, Quiet
<1>2. CASE CancelDestroy(t)
  <2>1. QuietRows
    BY <1>2 DEF CancelDestroy, QuietRows, TypeOK, TaskRow
  <2>2. QuietWorkers
    BY <1>2 DEF CancelDestroy, QuietWorkers, TypeOK
  <2> QED
    BY <1>2, <2>1, <2>2 DEF CancelDestroy, Quiet
<1>3. CASE retryTask(t)
  <2>1. QuietRows
    BY <1>3 DEF retryTask, QuietRows, TypeOK, NoTaskRow, TaskRow
  <2>2. QuietWorkers
    BY <1>3 DEF retryTask, QuietWorkers, TypeOK, NoTaskRow
  <2> QED
    BY <1>3, <2>1, <2>2 DEF retryTask, Quiet
<1>4. CASE resumeReviewTask(t)
  <2>1. QuietRows
    BY <1>4 DEF resumeReviewTask, QuietRows, TypeOK, TaskRow
  <2>2. QuietWorkers
    BY <1>4 DEF resumeReviewTask, QuietWorkers, TypeOK
  <2> QED
    BY <1>4, <2>1, <2>2 DEF resumeReviewTask, Quiet
<1>5. CASE discardReviewTask(t)
  <2>1. QuietRows
    <3>1. task[t] \in TaskRow
      BY DEF TypeOK
    <3>2. CASE task' = [task EXCEPT ![t].status = "failed"]
      BY <3>1, <3>2 DEF QuietRows, TypeOK, TaskRow
    <3>3. CASE task' = [task EXCEPT ![t] = [@ EXCEPT !.status = "discarded", !.token = None]]
      BY <3>1, <3>3 DEF QuietRows, TypeOK, TaskRow
    <3> QED
      BY <1>5, <3>2, <3>3 DEF discardReviewTask
  <2>2. QuietWorkers
    BY <1>5 DEF discardReviewTask, QuietWorkers, TypeOK
  <2> QED
    BY <1>5, <2>1, <2>2 DEF discardReviewTask, Quiet
<1>6. CASE \E do \in {"resume", "discard"} : ClearLock(t, do)
  BY <1>6 DEF ClearLock, Quiet, QuietRows, QuietWorkers, TypeOK
<1>7. CASE UndoDeploy(t)
  BY <1>7 DEF UndoDeploy, Quiet, QuietRows, QuietWorkers, TypeOK
<1> QED
  BY <1>1, <1>2, <1>3, <1>4, <1>5, <1>6, <1>7 DEF Manage

\* So are the other components.
LEMMA EnvironmentQuiet ==
    ASSUME TypeOK, NEW i \in Instances, Environment(i)
    PROVE  Quiet
<1>1. CASE Supersede(i)
  <2>1. QuietRows
    BY <1>1 DEF Supersede, QuietRows, TypeOK
  <2>2. QuietWorkers
    BY <1>1 DEF Supersede, QuietWorkers, TypeOK
  <2> QED
    BY <1>1, <2>1, <2>2 DEF Supersede, Quiet
<1>2. CASE NodeFlip(i)
  <2>1. QuietRows
    BY <1>2 DEF NodeFlip, QuietRows, TypeOK
  <2>2. QuietWorkers
    BY <1>2 DEF NodeFlip, QuietWorkers, TypeOK
  <2> QED
    BY <1>2, <2>1, <2>2 DEF NodeFlip, Quiet
<1>3. CASE RevokeDevice(i)
  <2>1. QuietRows
    BY <1>3 DEF RevokeDevice, QuietRows, TypeOK, TaskRow
  <2>2. QuietWorkers
    BY <1>3 DEF RevokeDevice, QuietWorkers, TypeOK
  <2> QED
    BY <1>3, <2>1, <2>2 DEF RevokeDevice, Quiet
<1>4. CASE OtherWriter(i)
  <2>1. QuietRows
    BY <1>4 DEF OtherWriter, QuietRows, TypeOK
  <2>2. QuietWorkers
    BY <1>4 DEF OtherWriter, QuietWorkers, TypeOK
  <2> QED
    BY <1>4, <2>1, <2>2 DEF OtherWriter, Quiet
<1> QED
  BY <1>1, <1>2, <1>3, <1>4 DEF Environment

\* So is a handler but for its claim and its reload.
LEMMA HandleQuiet ==
    ASSUME TypeOK, NEW w \in Workers, Handle(w),
           ~ ReloadTask(w), \A t \in Tasks : ~ claimTask(w, t)
    PROVE  Quiet
<1>1. CASE ReloadFails(w)
  <2>1. QuietRows
    BY <1>1 DEF ReloadFails, QuietRows, TypeOK, Leave
  <2>2. QuietWorkers
    BY <1>1 DEF ReloadFails, QuietWorkers, TypeOK, Leave, WorkerState, WorkerRow
  <2> QED
    BY <1>1, <2>1, <2>2 DEF ReloadFails, Quiet
<1>2. CASE PassFence(w)
  <2>1. QuietRows
    BY <1>2 DEF PassFence, QuietRows, TypeOK
  <2>2. QuietWorkers
    BY <1>2 DEF PassFence, QuietWorkers, TypeOK, WorkerState, WorkerRow
  <2> QED
    BY <1>2, <2>1, <2>2 DEF PassFence, Quiet
<1>3. CASE ExecuteFails(w)
  <2>1. QuietRows
    BY <1>3 DEF ExecuteFails, QuietRows, TypeOK
  <2>2. QuietWorkers
    BY <1>3 DEF ExecuteFails, QuietWorkers, TypeOK, WorkerState, WorkerRow
  <2> QED
    BY <1>3, <2>1, <2>2 DEF ExecuteFails, Quiet
<1>4. CASE CallAgent(w)
  <2>1. QuietRows
    BY <1>4 DEF CallAgent, QuietRows, TypeOK
  <2>2. QuietWorkers
    BY <1>4 DEF CallAgent, QuietWorkers, TypeOK, WorkerState, WorkerRow
  <2> QED
    BY <1>4, <2>1, <2>2 DEF CallAgent, Quiet
<1>5. CASE SkipAgent(w)
  <2>1. QuietRows
    BY <1>5 DEF SkipAgent, QuietRows, TypeOK
  <2>2. QuietWorkers
    BY <1>5 DEF SkipAgent, QuietWorkers, TypeOK, WorkerState, WorkerRow
  <2> QED
    BY <1>5, <2>1, <2>2 DEF SkipAgent, Quiet
<1>6. CASE AgentSucceeds(w)
  <2>1. QuietRows
    BY <1>6 DEF AgentSucceeds, QuietRows, TypeOK
  <2>2. QuietWorkers
    BY <1>6 DEF AgentSucceeds, QuietWorkers, TypeOK, WorkerState, WorkerRow
  <2> QED
    BY <1>6, <2>1, <2>2 DEF AgentSucceeds, Quiet
<1>7. CASE AgentFails(w)
  <2>1. QuietRows
    BY <1>7 DEF AgentFails, QuietRows, TypeOK
  <2>2. QuietWorkers
    BY <1>7 DEF AgentFails, QuietWorkers, TypeOK, WorkerState, WorkerRow
  <2> QED
    BY <1>7, <2>1, <2>2 DEF AgentFails, Quiet
<1>8. CASE CommitResult(w)
  <2>1. QuietRows
    BY <1>8 DEF CommitResult, QuietRows, TypeOK
  <2>2. QuietWorkers
    BY <1>8 DEF CommitResult, QuietWorkers, TypeOK, WorkerState, WorkerRow
  <2> QED
    BY <1>8, <2>1, <2>2 DEF CommitResult, Quiet
<1>9. CASE CommitFails(w)
  <2>1. QuietRows
    BY <1>9 DEF CommitFails, QuietRows, TypeOK
  <2>2. QuietWorkers
    BY <1>9 DEF CommitFails, QuietWorkers, TypeOK, WorkerState, WorkerRow
  <2> QED
    BY <1>9, <2>1, <2>2 DEF CommitFails, Quiet
<1>10. CASE renewTaskLease(w)
  <2>1. QuietRows
    BY <1>10 DEF renewTaskLease, QuietRows, TypeOK, TaskRow
  <2>2. QuietWorkers
    BY <1>10 DEF renewTaskLease, QuietWorkers, TypeOK
  <2> QED
    BY <1>10, <2>1, <2>2 DEF renewTaskLease, Quiet
<1>11. CASE finishTask(w)
  <2>1. QuietRows
    BY <1>11 DEF finishTask, QuietRows, TypeOK, Finished, TaskRow
  <2>2. QuietWorkers
    BY <1>11 DEF finishTask, QuietWorkers, TypeOK, Finished, WorkerState, WorkerRow
  <2> QED
    BY <1>11, <2>1, <2>2 DEF finishTask, Quiet
<1>12. CASE FinishRefused(w)
  <2>1. QuietRows
    BY <1>12 DEF FinishRefused, QuietRows, TypeOK, Leave
  <2>2. QuietWorkers
    BY <1>12 DEF FinishRefused, QuietWorkers, TypeOK, Leave, WorkerState, WorkerRow
  <2> QED
    BY <1>12, <2>1, <2>2 DEF FinishRefused, Quiet
<1>13. CASE releaseInstanceTaskLock(w)
  <2>1. QuietRows
    BY <1>13 DEF releaseInstanceTaskLock, QuietRows, TypeOK, Leave
  <2>2. QuietWorkers
    BY <1>13 DEF releaseInstanceTaskLock, QuietWorkers, TypeOK, Leave, WorkerState, WorkerRow
  <2> QED
    BY <1>13, <2>1, <2>2 DEF releaseInstanceTaskLock, Quiet
<1>14. CASE failDeployment(w)
  <2>1. QuietRows
    BY <1>14 DEF failDeployment, QuietRows, TypeOK, Leave
  <2>2. QuietWorkers
    BY <1>14 DEF failDeployment, QuietWorkers, TypeOK, Leave, WorkerState, WorkerRow
  <2> QED
    BY <1>14, <2>1, <2>2 DEF failDeployment, Quiet
<1>15. CASE Crash(w)
  <2>1. QuietRows
    BY <1>15 DEF Crash, QuietRows, TypeOK, Leave
  <2>2. QuietWorkers
    BY <1>15 DEF Crash, QuietWorkers, TypeOK, Leave, WorkerState, WorkerRow
  <2> QED
    BY <1>15, <2>1, <2>2 DEF Crash, Quiet
<1>16. CASE Redeliver(w)
  <2>1. QuietRows
    BY <1>16 DEF Redeliver, QuietRows, TypeOK
  <2>2. QuietWorkers
    BY <1>16 DEF Redeliver, QuietWorkers, TypeOK, WorkerState, WorkerRow
  <2> QED
    BY <1>16, <2>1, <2>2 DEF Redeliver, Quiet
<1>17. CASE \E t \in Tasks : ClaimRefused(w, t)
  BY <1>17 DEF ClaimRefused, Quiet, QuietRows, QuietWorkers, TypeOK
<1> QED
  BY <1>1, <1>2, <1>3, <1>4, <1>5, <1>6, <1>7, <1>8, <1>9, <1>10, <1>11, <1>12, <1>13, <1>14, <1>15, <1>16, <1>17 DEF Handle

\* So is the passing of time.
LEMMA TickQuiet == ASSUME TypeOK, Tick PROVE Quiet
<1>1. QuietRows
  BY DEF Tick, QuietRows, TickedRow, TypeOK, TaskRow
<1> QED
  BY <1>1 DEF Tick, Quiet, QuietWorkers

LEMMA TokensInit == Init => TokensInv
BY DEF Init, TokensInv, NoTaskRow, IdleWorker

LEMMA TokensNext ==
    ASSUME TypeOK, TokensInv, "reload" \in Prompt, [Next]_vars
    PROVE  TokensInv'
<1>1. CASE UNCHANGED vars
  BY <1>1, QuietTokens DEF vars, Quiet, QuietRows, QuietWorkers
<1>2. CASE \E t \in Tasks : Create(t) \/ Loop(t) \/ Manage(t)
  BY <1>2, QuietTokens, CreateQuiet, LoopQuiet, ManageQuiet
<1>3. ASSUME NEW w \in Workers, Handle(w) PROVE TokensInv'
  BY <1>3, QuietTokens, HandleQuiet, ClaimTokens, ReloadTokens
<1>4. CASE \E i \in Instances : Environment(i)
  BY <1>4, QuietTokens, EnvironmentQuiet
<1>5. CASE Tick
  BY <1>5, QuietTokens, TickQuiet
<1> QED
  BY <1>1, <1>2, <1>3, <1>4, <1>5 DEF Next

\* The only way out of "finishing" that goes on to release is finishTask.
LEMMA FinishingStep ==
    ASSUME TypeOK, [Next]_vars, NEW w \in Workers,
           worker[w].pc = "finishing", worker'[w].pc = "releasing"
    PROVE  OwnsLease(w)
<1>1. worker' # worker
  OBVIOUS
<1>2. ASSUME NEW t \in Tasks PROVE ~ Create(t) /\ ~ Loop(t) /\ ~ Manage(t)
  <2>1. ~ Create(t)
    BY <1>1 DEF Create, CreateInstance, RequestAction, MoveRequested, RefuseRequested,
        InsertRequested, UndoRequested, scheduleLifecycle, InsertTx
  <2>2. ~ Loop(t)
    BY <1>1 DEF Loop, RecoverPending, RecoverLease, quarantineDangerousFailedTasks,
        ReconcileOperation, FinalizeOperation, ReconcileResize
  <2>3. ~ Manage(t)
    BY <1>1 DEF Manage, CancelQueued, UndoDeploy, CancelDestroy, retryTask, resumeReviewTask,
        discardReviewTask, ClearLock
  <2> QED
    BY <2>1, <2>2, <2>3
<1>3. ~ (\E i \in Instances : Environment(i)) /\ ~ Tick /\ ~ UNCHANGED vars
  BY <1>1 DEF Environment, Supersede, NodeFlip, RevokeDevice, OtherWriter, Tick, vars
<1>4. PICK v \in Workers : Handle(v)
  BY <1>2, <1>3 DEF Next
<1>5. \A t \in Tasks : ~ claimTask(v, t) /\ ~ ClaimRefused(v, t)
  BY <1>1 DEF claimTask, ClaimRefused, TypeOK, IdleWorker
<1>6. CASE ReloadTask(v) \/ ReloadFails(v)
  BY <1>6 DEF ReloadTask, ReloadFails, Leave, IdleWorker, TypeOK, WorkerState, WorkerRow
<1>7. CASE PassFence(v) \/ ExecuteFails(v) \/ CallAgent(v) \/ SkipAgent(v)
  BY <1>7 DEF PassFence, ExecuteFails, CallAgent, SkipAgent, TypeOK, WorkerState, WorkerRow
<1>8. CASE AgentSucceeds(v) \/ AgentFails(v)
  BY <1>8 DEF AgentSucceeds, AgentFails, TypeOK, WorkerState, WorkerRow
<1>9. CASE CommitResult(v) \/ CommitFails(v) \/ renewTaskLease(v)
  BY <1>1, <1>9 DEF CommitResult, CommitFails, renewTaskLease, TypeOK, WorkerState, WorkerRow
<1>10. CASE finishTask(v)
  BY <1>10 DEF finishTask, TypeOK
<1>11. CASE FinishRefused(v) \/ failDeployment(v) \/ Crash(v)
  BY <1>11 DEF FinishRefused, failDeployment, Crash, Leave, IdleWorker, TypeOK
<1>12. CASE releaseInstanceTaskLock(v)
  BY <1>12 DEF releaseInstanceTaskLock, Leave, IdleWorker, TypeOK
<1>13. CASE Redeliver(v)
  BY <1>13 DEF Redeliver, TypeOK, WorkerState, WorkerRow
<1> QED
  BY <1>4, <1>5, <1>6, <1>7, <1>8, <1>9, <1>10, <1>11, <1>12, <1>13 DEF Handle

\* As long as no handler sleeps between claim and reload until its task is
\* claimed again, no two handlers and no two rows share an execution token.
THEOREM TokensCorrect == "reload" \in Prompt => (Spec => []TokensInv)
<1> SUFFICES ASSUME "reload" \in Prompt PROVE Spec => []TokensInv
  OBVIOUS
<1>1. TypeOK /\ TokensInv /\ [Next]_vars => TokensInv'
  BY TokensNext
<1> QED
  BY TypeCorrect, TokensInit, <1>1, PTL DEF Spec

\* Under the same premise at most one handler per instance is past the fence
\* with a valid lease and lock, whatever crashes, is redelivered or expires
\* after its reload.  Without it a handler adopts its successor's token there
\* (task_queue.go:185), and the property fails (README).
THEOREM FencedCorrect == "reload" \in Prompt => (Spec => []FencedExclusive)
<1> SUFFICES ASSUME "reload" \in Prompt PROVE Spec => []FencedExclusive
  OBVIOUS
<1>1. TokensInv => FencedExclusive
  BY DEF TokensInv, FencedExclusive, Owner, OwnsLease, HoldsLock
<1> QED
  BY <1>1, TokensCorrect, PTL

\* And under the same premise, which excludes the delayed reload as well, only
\* the latest claimant of a task finishes or retries it.
THEOREM FinishCorrect == "reload" \in Prompt => (Spec => OnlyClaimantFinishes)
<1> SUFFICES ASSUME "reload" \in Prompt PROVE Spec => OnlyClaimantFinishes
  OBVIOUS
<1>1. ASSUME TypeOK, TokensInv, [Next]_vars, NEW w \in Workers,
             worker[w].pc = "finishing", worker'[w].pc = "releasing"
      PROVE  claimant[worker[w].task] = w
  BY <1>1, FinishingStep DEF OwnsLease, TokensInv
<1>2. TypeOK /\ TokensInv /\ [Next]_vars =>
        (\A w \in Workers :
            worker[w].pc = "finishing" /\ worker'[w].pc = "releasing"
                => claimant[worker[w].task] = w)
  BY <1>1
<1> QED
  BY <1>2, TypeCorrect, TokensCorrect, PTL DEF Spec, OnlyClaimantFinishes
=============================================================================
