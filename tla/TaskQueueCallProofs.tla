-------------------------- MODULE TaskQueueCallProofs --------------------------
(***************************************************************************)
(* Theorems about what TaskQueue does to a container: what is final stays  *)
(* final, a destroyed instance is not brought back, a dangerous task is    *)
(* not replayed unless somebody resumed it; and, where leases are renewed  *)
(* in time and nobody resumes a task whose handler may still be there, the *)
(* requests to the Agent exclude each other.                               *)
(***************************************************************************)
EXTENDS TaskQueueProofs

-----------------------------------------------------------------------------
(* What a step leaves alone in the rows and in the locks.                  *)

Final == {"succeeded", "cancelled", "discarded"}
Waiting == {"unborn", "requested", "pending"}

\* What the theorem about the Agent's requests assumes: handlers reload at once
\* and renew their lease in time, nobody resumes a task in review, and what is
\* discarded from review is not retried.
Undisturbed ==
    /\ {"reload", "execute"} \subseteq Prompt
    /\ "resume" \notin Events
    /\ "retry" \notin Events \/ "discard" \notin Events

\* Then t is not executed again.
Over(t) ==
    \/ task[t].status \in {"needs_review", "succeeded", "discarded"}
    \/ /\ task[t].status = "failed"
       /\ dangerousRecoveredTask(ActionOf[t]) \/ "retry" \notin Events

FinalKept ==
    \A t \in Tasks : task[t].status \in Final => task'[t].status = task[t].status

\* A dangerous task only waits again when somebody resumed it.
WaitingKept ==
    \A t \in Tasks :
        /\ dangerousRecoveredTask(ActionOf[t]) /\ t \notin resumed'
        /\ task'[t].status \in Waiting
        => task[t].status \in Waiting

OverKept == Undisturbed => \A t \in Tasks : Over(t) => Over(t)'

Leased(t) == task[t].status = "running" /\ task[t].lease > 0

LeaseKept ==
    \A t \in Tasks : Leased(t) => Leased(t)' /\ task'[t].token = task[t].token

LockKept ==
    \A i \in Instances : lock[i].left > 0 =>
        /\ lock'[i].task = lock[i].task /\ lock'[i].token = lock[i].token
        /\ lock'[i].left > 0

RowsKept == FinalKept /\ WaitingKept /\ OverKept

LEMMA SameRows ==
    ASSUME UNCHANGED task
    PROVE  RowsKept /\ LeaseKept
BY DEF RowsKept, FinalKept, WaitingKept, OverKept, Over, LeaseKept, Leased

\* A row that changes while it waits.
LEMMA WaitingRow ==
    ASSUME TypeOK, NEW t \in Tasks, task[t].status \in Waiting,
           \A u \in Tasks \ {t} : task'[u] = task[u]
    PROVE  RowsKept /\ LeaseKept
<1>1. FinalKept /\ LeaseKept
  BY DEF FinalKept, LeaseKept, Leased, Final, Waiting
<1>2. WaitingKept /\ OverKept
  BY DEF WaitingKept, OverKept, Over, Waiting
<1> QED
  BY <1>1, <1>2 DEF RowsKept

\* A row that leaves review, a failure or an expired lease, but not for a run.
LEMMA RestingRow ==
    ASSUME TypeOK, NEW t \in Tasks, task[t].status \notin Final, ~ Leased(t),
           task'[t].status \notin Waiting, Undisturbed => Over(t)',
           \A u \in Tasks \ {t} : task'[u] = task[u]
    PROVE  RowsKept /\ LeaseKept
<1>1. FinalKept /\ LeaseKept
  BY DEF FinalKept, LeaseKept, Leased
<1>2. WaitingKept
  BY DEF WaitingKept
<1>3. OverKept
  BY DEF OverKept, Over
<1> QED
  BY <1>1, <1>2, <1>3 DEF RowsKept

\* What is repeated without anybody looking is not dangerous.
LEMMA SafeNotDangerous ==
    ASSUME NEW t \in Tasks, SafeToRepeat(t)
    PROVE  ~ dangerousRecoveredTask(ActionOf[t])
BY DEF SafeToRepeat, dangerousRecoveredTask

LEMMA CreateRows ==
    ASSUME TypeOK, NEW t \in Tasks, Create(t)
    PROVE  RowsKept /\ LeaseKept
<1>1. CASE CreateInstance(t)
  BY <1>1, WaitingRow DEF CreateInstance, Insert, Waiting, TypeOK
<1>2. CASE RequestAction(t)
  BY <1>2, WaitingRow DEF RequestAction, Waiting, TypeOK
<1>3. CASE InsertRequested(t)
  BY <1>3, WaitingRow DEF InsertRequested, Insert, Waiting, TypeOK
<1>4. CASE RefuseRequested(t)
  BY <1>4, WaitingRow DEF RefuseRequested, Waiting, TypeOK
<1>5. CASE scheduleLifecycle(t)
  BY <1>5, WaitingRow DEF scheduleLifecycle, Waiting, TypeOK
<1>6. CASE InsertTx(t)
  <2>1. /\ task[t].status = "unborn"
        /\ \A u \in Tasks : u = t \/ task[u].status = "pending" \/ task'[u] = task[u]
    BY <1>6 DEF InsertTx
  <2>2. \A u \in Tasks : task[u].status = "pending" => task'[u].status \in {"pending", "cancelled"}
    BY <1>6 DEF InsertTx, TypeOK, TaskRow
  <2>3. FinalKept /\ LeaseKept
    BY <2>1 DEF FinalKept, LeaseKept, Leased, Final
  <2>4. WaitingKept /\ OverKept
    BY <2>1 DEF WaitingKept, OverKept, Over, Waiting
  <2> QED
    BY <2>3, <2>4 DEF RowsKept
<1>7. CASE MoveRequested(t)
  BY <1>7, SameRows DEF MoveRequested
<1>8. CASE UndoRequested(t)
  BY <1>8, WaitingRow DEF UndoRequested, Waiting, TypeOK
<1> QED
  BY <1>1, <1>2, <1>3, <1>4, <1>5, <1>6, <1>7, <1>8 DEF Create

LEMMA LoopRows ==
    ASSUME TypeOK, NEW t \in Tasks, Loop(t)
    PROVE  RowsKept /\ LeaseKept
<1>1. CASE RecoverPending(t)
  BY <1>1, SameRows DEF RecoverPending
<1>2. CASE RecoverLease(t)
  <2>1. \A u \in Tasks \ {t} : task'[u] = task[u]
    BY <1>2 DEF RecoverLease, TypeOK
  <2>2. /\ task[t].status = "running" /\ task[t].lease = 0
        /\ task'[t].status = IF SafeToRepeat(t) THEN "pending" ELSE "needs_review"
    BY <1>2 DEF RecoverLease, TypeOK, TaskRow
  <2>3. dangerousRecoveredTask(ActionOf[t]) => task'[t].status = "needs_review"
    BY <2>2, SafeNotDangerous
  <2>4. FinalKept /\ LeaseKept
    BY <2>1, <2>2 DEF FinalKept, LeaseKept, Leased, Final
  <2>5. WaitingKept /\ OverKept
    BY <2>1, <2>2, <2>3 DEF WaitingKept, OverKept, Over, Waiting
  <2> QED
    BY <2>4, <2>5 DEF RowsKept
<1>3. CASE quarantineDangerousFailedTasks(t)
  BY <1>3, RestingRow DEF quarantineDangerousFailedTasks, Over, Leased, Waiting, Final, TypeOK, TaskRow
<1>4. CASE ReconcileOperation(t)
  BY <1>4, SameRows DEF ReconcileOperation
<1>5. CASE FinalizeOperation(t)
  <2>1. CASE task[t].status = "needs_review"
    BY <1>5, <2>1, RestingRow DEF FinalizeOperation, Over, Leased, Waiting, Final, TypeOK, TaskRow
  <2>2. CASE task[t].status # "needs_review"
    BY <1>5, <2>2, SameRows DEF FinalizeOperation
  <2> QED
    BY <2>1, <2>2
<1>6. CASE ReconcileResize(t)
  <2>1. PICK s \in {"succeeded", "failed"} : task' = [task EXCEPT ![t].status = s]
    BY <1>6 DEF ReconcileResize
  <2>2. task'[t].status = s
    BY <2>1 DEF TypeOK, TaskRow
  <2>3. Over(t)'
    BY <1>6, <2>2 DEF ReconcileResize, Over, dangerousRecoveredTask
  <2> QED
    BY <1>6, <2>1, <2>2, <2>3, RestingRow DEF ReconcileResize, Leased, Waiting, Final, TypeOK
<1> QED
  BY <1>1, <1>2, <1>3, <1>4, <1>5, <1>6 DEF Loop

\* What a discard leaves behind.
LEMMA DiscardRow ==
    ASSUME TypeOK, NEW t \in Tasks, discardReviewTask(t)
    PROVE  /\ task[t].status \in {"failed", "needs_review"} /\ "discard" \in Events
           /\ \A u \in Tasks \ {t} : task'[u] = task[u]
           /\ task'[t].status \in {"failed", "discarded"}
<1>1. task[t] \in TaskRow /\ task[t].status \in {"failed", "needs_review"} /\ "discard" \in Events
  BY DEF discardReviewTask, TypeOK
<1>2. CASE task' = [task EXCEPT ![t].status = "failed"]
  BY <1>1, <1>2 DEF TypeOK, TaskRow
<1>3. CASE task' = [task EXCEPT ![t] = [@ EXCEPT !.status = "discarded", !.token = None]]
  BY <1>1, <1>3 DEF TypeOK, TaskRow
<1> QED
  BY <1>1, <1>2, <1>3 DEF discardReviewTask

LEMMA ManageRows ==
    ASSUME TypeOK, NEW t \in Tasks, Manage(t)
    PROVE  RowsKept /\ LeaseKept
<1>1. CASE CancelQueued(t)
  BY <1>1, WaitingRow DEF CancelQueued, Cancellable, Waiting, TypeOK
<1>2. CASE CancelDestroy(t)
  BY <1>2, WaitingRow DEF CancelDestroy, Deferred, Waiting, TypeOK
<1>3. CASE retryTask(t)
  <2>1. task[t].status = "failed" /\ "retry" \in Events
    BY <1>3 DEF retryTask, Retryable
  <2>2. CASE dangerousRecoveredTask(ActionOf[t])
    <3>1. task'[t].status = "needs_review" /\ \A u \in Tasks \ {t} : task'[u] = task[u]
      BY <1>3, <2>2 DEF retryTask, TypeOK, TaskRow
    <3> QED
      BY <2>1, <3>1, RestingRow DEF Over, Leased, Waiting, Final
  <2>3. CASE ~ dangerousRecoveredTask(ActionOf[t])
    <3>1. \A u \in Tasks \ {t} : task'[u] = task[u]
      BY <1>3, <2>3 DEF retryTask, TypeOK
    <3>2. FinalKept /\ LeaseKept
      BY <2>1, <3>1 DEF FinalKept, LeaseKept, Leased, Final
    <3>3. WaitingKept /\ OverKept
      BY <2>1, <2>3, <3>1 DEF WaitingKept, OverKept, Over
    <3> QED
      BY <3>2, <3>3 DEF RowsKept
  <2> QED
    BY <2>2, <2>3
<1>4. CASE resumeReviewTask(t)
  <2>1. task[t].status = "needs_review" /\ "resume" \in Events /\ t \in resumed'
    BY <1>4 DEF resumeReviewTask
  <2>2. \A u \in Tasks \ {t} : task'[u] = task[u]
    BY <1>4 DEF resumeReviewTask, TypeOK
  <2>3. FinalKept /\ LeaseKept
    BY <2>1, <2>2 DEF FinalKept, LeaseKept, Leased, Final
  <2>4. WaitingKept /\ OverKept
    BY <2>1, <2>2 DEF WaitingKept, OverKept, Over, Undisturbed
  <2> QED
    BY <2>3, <2>4 DEF RowsKept
<1>5. CASE discardReviewTask(t)
  <2>1. /\ task[t].status \in {"failed", "needs_review"} /\ "discard" \in Events
        /\ \A u \in Tasks \ {t} : task'[u] = task[u]
        /\ task'[t].status \in {"failed", "discarded"}
    BY <1>5, DiscardRow
  <2>2. Undisturbed => Over(t)'
    BY <2>1 DEF Over, Undisturbed
  <2> QED
    BY <2>1, <2>2, RestingRow DEF Leased, Waiting, Final
<1>6. CASE \E do \in {"resume", "discard"} : ClearLock(t, do)
  BY <1>6, SameRows DEF ClearLock
<1>7. CASE UndoDeploy(t)
  BY <1>7, SameRows DEF UndoDeploy
<1> QED
  BY <1>1, <1>2, <1>3, <1>4, <1>5, <1>6, <1>7 DEF Manage

\* The revocation of a device ends leases; nothing else outside does.
LEMMA EnvironmentRows ==
    ASSUME TypeOK, NEW i \in Instances, Environment(i)
    PROVE  RowsKept /\ (RevokeDevice(i) \/ LeaseKept)
<1>1. CASE Supersede(i) \/ NodeFlip(i) \/ OtherWriter(i)
  BY <1>1, SameRows DEF Supersede, NodeFlip, OtherWriter
<1>2. CASE RevokeDevice(i)
  <2>1. \A t \in Tasks :
          \/ task'[t] = task[t]
          \/ task[t].status = "running" /\ task'[t].status = "needs_review"
          \/ task[t].status = "pending" /\ task'[t].status = "cancelled"
    BY <1>2 DEF RevokeDevice, Active, TypeOK, TaskRow
  <2>2. FinalKept
    BY <2>1 DEF FinalKept, Final
  <2>3. WaitingKept /\ OverKept
    BY <2>1 DEF WaitingKept, OverKept, Over, Waiting
  <2> QED
    BY <1>2, <2>2, <2>3 DEF RowsKept
<1> QED
  BY <1>1, <1>2 DEF Environment

LEMMA TickRows ==
    ASSUME TypeOK, Tick
    PROVE  /\ RowsKept
           /\ \A t \in Tasks : task'[t].status = task[t].status /\ task'[t].token = task[t].token
<1>1. \A t \in Tasks : task'[t].status = task[t].status /\ task'[t].token = task[t].token
  BY DEF Tick, TickedRow, TypeOK, TaskRow
<1>2. FinalKept
  BY <1>1 DEF FinalKept
<1>3. WaitingKept /\ OverKept
  BY <1>1 DEF WaitingKept, OverKept, Over
<1> QED
  BY <1>1, <1>2, <1>3 DEF RowsKept

\* A handler changes the row of its own task only: it claims it, renews its
\* lease, or finishes it.
LEMMA HandleRows ==
    ASSUME TypeOK, NEW w \in Workers, Handle(w), ~ finishTask(w)
    PROVE  RowsKept /\ LeaseKept
<1>1. ASSUME NEW t \in Tasks, claimTask(w, t) PROVE RowsKept /\ LeaseKept
  BY <1>1, WaitingRow DEF claimTask, Waiting, TypeOK
<1>2. CASE renewTaskLease(w)
  <2> DEFINE t == worker[w].task
  <2>1. t \in Tasks /\ task[t].status = "running"
    BY <1>2, Serving DEF renewTaskLease, Executing, OwnsLease
  <2>2. /\ task'[t].status = "running" /\ task'[t].token = task[t].token /\ task'[t].lease = Lease
        /\ \A u \in Tasks \ {t} : task'[u] = task[u]
    BY <1>2, <2>1 DEF renewTaskLease, TypeOK, TaskRow
  <2>3. FinalKept /\ LeaseKept
    BY <2>1, <2>2, TaskQueueAssumption DEF FinalKept, LeaseKept, Leased, Final
  <2>4. WaitingKept /\ OverKept
    BY <2>1, <2>2 DEF WaitingKept, OverKept, Over, Waiting
  <2> QED
    BY <2>3, <2>4 DEF RowsKept
<1>3. CASE UNCHANGED task
  BY <1>3, SameRows
<1>4. \/ (\E t \in Tasks : claimTask(w, t)) \/ renewTaskLease(w) \/ UNCHANGED task
  BY DEF Handle, ClaimRefused, ReloadTask, ReloadFails, PassFence, ExecuteFails, CallAgent,
      SkipAgent, AgentSucceeds, AgentFails, CommitResult, CommitFails, FinishRefused,
      releaseInstanceTaskLock, failDeployment, Crash, Redeliver
<1> QED
  BY <1>1, <1>2, <1>3, <1>4

LEMMA FinishRows ==
    ASSUME TypeOK, NEW w \in Workers, finishTask(w)
    PROVE  /\ FinalKept /\ OverKept
           /\ worker[w].task \in Tasks /\ task[worker[w].task].status = "running"
           /\ \A u \in Tasks \ {worker[w].task} : task'[u] = task[u]
<1>1. worker[w].task \in Tasks
  BY Serving DEF finishTask
<1>2. /\ task[worker[w].task].status = "running"
      /\ \A u \in Tasks \ {worker[w].task} : task'[u] = task[u]
  BY <1>1 DEF finishTask, OwnsLease, TypeOK
<1>3. FinalKept
  BY <1>2 DEF FinalKept, Final
<1>4. OverKept
  BY <1>2 DEF OverKept, Over
<1> QED
  BY <1>1, <1>2, <1>3, <1>4

-----------------------------------------------------------------------------
(* What is final.                                                          *)

\* What succeeded, was cancelled or was discarded never runs again, although
\* handlers, the loop and administrators all rewrite rows they read earlier.
THEOREM FinalCorrect == Spec => FinalStaysFinal
<1>1. TypeOK /\ [Next]_vars => FinalKept
  <2> SUFFICES ASSUME TypeOK, [Next]_vars PROVE FinalKept
    OBVIOUS
  <2>1. CASE UNCHANGED vars
    BY <2>1 DEF vars, FinalKept
  <2>2. ASSUME NEW w \in Workers, Handle(w) PROVE FinalKept
    BY <2>2, HandleRows, FinishRows DEF RowsKept
  <2> QED
    BY <2>1, <2>2, CreateRows, LoopRows, ManageRows, EnvironmentRows, TickRows DEF Next, RowsKept
<1>2. TypeOK /\ [Next]_vars =>
        \A t \in Tasks :
            task[t].status \in {"succeeded", "cancelled", "discarded"}
                => task'[t].status = task[t].status
  BY <1>1 DEF FinalKept, Final
<1> QED
  BY <1>2, TypeCorrect, PTL DEF Spec, FinalStaysFinal

\* What a commit writes to a destroyed instance, it leaves destroyed.
LEMMA CommitDestroyed ==
    ASSUME NEW from, NEW to, canTransitionInstance(from, to), from \in {"destroyed", "purged"}
    PROVE  to \in {from, "purged"}
BY DEF canTransitionInstance, Edges

\* No step of a handler brings a destroyed instance back.
LEMMA HandleDestroyed ==
    ASSUME TypeOK, NEW w \in Workers, Handle(w), NEW i \in Instances,
           inst[i] \in {"destroyed", "purged"}
    PROVE  inst'[i] \in {inst[i], "purged"}
<1>1. CASE CommitResult(w)
  <2> DEFINE a == ActionOf[worker[w].task]
             j == InstanceOf[worker[w].task]
             from == CommitSource(a, worker[w].seen)
             to == CommitTarget(a, worker[w].seen)
  <2>1. inst' = [inst EXCEPT ![j] =
                    IF canTransitionInstance(from, to) /\ CommitHits(w, from) THEN to ELSE @]
    BY <1>1 DEF CommitResult
  <2>2. CommitHits(w, from) => inst[j] = from
    BY DEF CommitHits
  <2> QED
    BY <2>1, <2>2, CommitDestroyed DEF TypeOK
<1>2. CASE failDeployment(w)
  BY <1>2 DEF failDeployment, TypeOK
<1>3. CASE UNCHANGED inst
  BY <1>3
<1>4. CommitResult(w) \/ failDeployment(w) \/ UNCHANGED inst
  BY DEF Handle, claimTask, ClaimRefused, ReloadTask, ReloadFails, PassFence, ExecuteFails,
      CallAgent, SkipAgent, AgentSucceeds, AgentFails, CommitFails, renewTaskLease, finishTask,
      FinishRefused, releaseInstanceTaskLock, Crash, Redeliver
<1> QED
  BY <1>1, <1>2, <1>3, <1>4

\* Nor does a step of anybody else.
LEMMA OtherDestroyed ==
    ASSUME TypeOK, NEW t \in Tasks, Create(t) \/ Loop(t) \/ Manage(t), NEW i \in Instances,
           inst[i] \in {"destroyed", "purged"}
    PROVE  inst'[i] \in {inst[i], "purged"}
<1>1. CASE CreateInstance(t)
  BY <1>1 DEF CreateInstance, TypeOK
<1>2. CASE MoveRequested(t)
  <2>1. inst' = inst \/ (inst[InstanceOf[t]] = "deployment_failed"
                            /\ inst' = [inst EXCEPT ![InstanceOf[t]] = "deploying"])
    BY <1>2 DEF MoveRequested, RequestStates
  <2> QED
    BY <2>1 DEF TypeOK
<1>3. CASE ReconcileOperation(t)
  <2>1. PICK next : /\ canTransitionInstance(inst[InstanceOf[t]], next)
                    /\ inst' = [inst EXCEPT ![InstanceOf[t]] = next]
    BY <1>3 DEF ReconcileOperation
  <2> QED
    BY <2>1, CommitDestroyed DEF TypeOK
<1>4. CASE UndoRequested(t) \/ UndoDeploy(t) \/ CancelDestroy(t)
  BY <1>4 DEF UndoRequested, UndoDeploy, Undeployed, CancelDestroy, TypeOK
<1>5. CASE UNCHANGED inst
  BY <1>5
<1>6. \/ CreateInstance(t) \/ MoveRequested(t) \/ UndoRequested(t) \/ UndoDeploy(t)
      \/ ReconcileOperation(t) \/ CancelDestroy(t) \/ UNCHANGED inst
  <2>1. CASE Create(t)
    BY <2>1 DEF Create, RequestAction, RefuseRequested, InsertRequested, scheduleLifecycle,
        InsertTx
  <2>2. CASE Loop(t)
    BY <2>2 DEF Loop, RecoverPending, RecoverLease, quarantineDangerousFailedTasks,
        FinalizeOperation, ReconcileResize
  <2>3. CASE Manage(t)
    BY <2>3 DEF Manage, CancelQueued, retryTask, resumeReviewTask, discardReviewTask, ClearLock
  <2> QED
    BY <2>1, <2>2, <2>3
<1> QED
  BY <1>1, <1>2, <1>3, <1>4, <1>5, <1>6

LEMMA EnvironmentDestroyed ==
    ASSUME TypeOK, NEW j \in Instances, Environment(j), NEW i \in Instances,
           inst[i] \in {"destroyed", "purged"}
    PROVE  inst'[i] \in {inst[i], "purged"}
<1>1. CASE OtherWriter(j)
  <2>1. inst[j] \notin {"destroyed", "purged"} /\ \A k \in Instances : k = j \/ inst'[k] = inst[k]
    BY <1>1 DEF OtherWriter, TypeOK
  <2> QED
    BY <2>1
<1> QED
  BY <1>1 DEF Environment, Supersede, NodeFlip, RevokeDevice

\* An instance whose container was destroyed is only ever purged: no late
\* handler, observation or renewal brings it back.
THEOREM DestroyedCorrect == Spec => DestroyedForGood
<1>1. TypeOK /\ [Next]_vars =>
        \A i \in Instances :
            inst[i] \in {"destroyed", "purged"} => inst'[i] \in {inst[i], "purged"}
  <2> SUFFICES ASSUME TypeOK, [Next]_vars, NEW i \in Instances, inst[i] \in {"destroyed", "purged"}
               PROVE  inst'[i] \in {inst[i], "purged"}
    OBVIOUS
  <2>1. CASE UNCHANGED inst
    BY <2>1
  <2>2. UNCHANGED vars \/ Tick => UNCHANGED inst
    BY DEF vars, Tick
  <2> QED
    BY <2>1, <2>2, HandleDestroyed, OtherDestroyed, EnvironmentDestroyed DEF Next
<1> QED
  BY <1>1, TypeCorrect, PTL DEF Spec, DestroyedForGood

-----------------------------------------------------------------------------
(* Nothing dangerous is replayed.                                          *)

\* The handlers that execute t or may still do so.
Live(w, t) == worker[w].task = t /\ worker[w].pc \in {"claimed", "finishing"} \cup Executing

\* A dangerous task nobody resumed has one such handler at most, and none while
\* it waits to be claimed.
ReplayInv ==
    \A t \in Tasks : dangerousRecoveredTask(ActionOf[t]) /\ t \notin resumed =>
        /\ \A v, w \in Workers : Live(v, t) /\ Live(w, t) => v = w
        /\ task[t].status \in Waiting => \A w \in Workers : ~ Live(w, t)

\* Whoever resumed a task is remembered.
LEMMA ResumedGrows == ASSUME [Next]_vars PROVE resumed \subseteq resumed'
<1>1. CASE UNCHANGED resumed
  BY <1>1
<1>2. ASSUME NEW t \in Tasks, Create(t) \/ Loop(t) \/ Manage(t) PROVE resumed \subseteq resumed'
  <2>1. Create(t) => UNCHANGED resumed
    BY DEF Create, CreateInstance, RequestAction, MoveRequested, RefuseRequested,
        InsertRequested, UndoRequested, scheduleLifecycle, InsertTx, history
  <2>2. Loop(t) => UNCHANGED resumed
    BY DEF Loop, RecoverPending, RecoverLease, quarantineDangerousFailedTasks,
        ReconcileOperation, FinalizeOperation, ReconcileResize, history
  <2>3. Manage(t) => resumed \subseteq resumed'
    BY DEF Manage, CancelQueued, UndoDeploy, CancelDestroy, retryTask, resumeReviewTask,
        discardReviewTask, ClearLock, history
  <2> QED
    BY <1>2, <2>1, <2>2, <2>3
<1>3. ASSUME NEW w \in Workers, Handle(w) PROVE UNCHANGED resumed
  BY <1>3 DEF Handle, claimTask, ClaimRefused, ReloadTask, ReloadFails, PassFence, ExecuteFails,
      CallAgent, SkipAgent, AgentSucceeds, AgentFails, CommitResult, CommitFails, renewTaskLease,
      finishTask, FinishRefused, releaseInstanceTaskLock, failDeployment, Crash, Redeliver, history
<1>4. UNCHANGED vars \/ (\E i \in Instances : Environment(i)) \/ Tick => UNCHANGED resumed
  BY DEF vars, Environment, Supersede, NodeFlip, RevokeDevice, OtherWriter, Tick, history
<1> QED
  BY <1>1, <1>2, <1>3, <1>4 DEF Next

LEMMA ReplayStep ==
    ASSUME ReplayInv, WaitingKept, resumed \subseteq resumed',
           \A w \in Workers, t \in Tasks : Live(w, t)' => Live(w, t)
    PROVE  ReplayInv'
BY DEF ReplayInv, WaitingKept

\* Only a claim makes a handler live.
LEMMA HandleLive ==
    ASSUME TypeOK, NEW w \in Workers, Handle(w), \A t \in Tasks : ~ claimTask(w, t),
           NEW v \in Workers, NEW t \in Tasks, Live(v, t)'
    PROVE  Live(v, t)
<1> USE DEF Live, TypeOK
<1>1. CASE ReloadTask(w)
  BY <1>1 DEF ReloadTask, WorkerState, WorkerRow
<1>2. CASE ReloadFails(w) \/ FinishRefused(w) \/ failDeployment(w) \/ Crash(w)
  BY <1>2, TaskQueueAssumption DEF ReloadFails, FinishRefused, failDeployment, Crash, Leave, IdleWorker, Executing
<1>3. CASE releaseInstanceTaskLock(w)
  BY <1>3, TaskQueueAssumption DEF releaseInstanceTaskLock, Leave, IdleWorker, Executing, WorkerState, WorkerRow
<1>4. CASE PassFence(w) \/ CallAgent(w)
  BY <1>4 DEF PassFence, CallAgent, WorkerState, WorkerRow, Executing
<1>5. CASE SkipAgent(w)
  BY <1>5 DEF SkipAgent, WorkerState, WorkerRow, Executing
<1>12. CASE ExecuteFails(w) \/ CommitFails(w)
  <2>1. /\ worker[w].pc \in Executing
        /\ worker' = [worker EXCEPT ![w] = [@ EXCEPT !.pc = "finishing", !.result = "error"]]
    BY <1>12 DEF ExecuteFails, CommitFails, Executing
  <2>2. worker'[w].task = worker[w].task
    BY <2>1 DEF WorkerState, WorkerRow
  <2> QED
    BY <2>1, <2>2
<1>6. CASE AgentSucceeds(w)
  BY <1>6 DEF AgentSucceeds, WorkerState, WorkerRow, Executing
<1>7. CASE AgentFails(w)
  BY <1>7 DEF AgentFails, WorkerState, WorkerRow, Executing
<1>8. CASE CommitResult(w)
  BY <1>8 DEF CommitResult, WorkerState, WorkerRow, Executing
<1>9. CASE finishTask(w)
  BY <1>9 DEF finishTask, WorkerState, WorkerRow, Executing
<1>10. CASE Redeliver(w)
  BY <1>10 DEF Redeliver, WorkerState, WorkerRow
<1>11. CASE renewTaskLease(w) \/ \E u \in Tasks : ClaimRefused(w, u)
  BY <1>11 DEF renewTaskLease, ClaimRefused
<1> QED
  BY <1>1, <1>2, <1>3, <1>4, <1>5, <1>6, <1>7, <1>8, <1>9, <1>10, <1>11, <1>12 DEF Handle

\* The claimed task was waiting, so that nobody else executes it.
LEMMA ClaimReplay ==
    ASSUME TypeOK, ReplayInv, NEW w \in Workers, NEW t \in Tasks, claimTask(w, t)
    PROVE  ReplayInv'
<1>1. /\ task[t].status = "pending" /\ task'[t].status = "running" /\ UNCHANGED resumed
      /\ \A u \in Tasks \ {t} : task'[u] = task[u]
  BY DEF claimTask, Claimed, TypeOK, TaskRow, history
<1>2. /\ worker'[w].task = t
      /\ \A v \in Workers \ {w} : worker'[v] = worker[v]
  BY DEF claimTask, IdleWorker, TypeOK
<1>3. \A u \in Tasks, v \in Workers : Live(v, u)' => (u = t /\ v = w) \/ (Live(v, u) /\ v # w)
  BY <1>2 DEF Live
<1> QED
  BY <1>1, <1>3 DEF ReplayInv, Waiting

\* Who finishes a dangerous task is the only one executing it.
LEMMA FinishReplay ==
    ASSUME TypeOK, ReplayInv, NEW w \in Workers, finishTask(w)
    PROVE  ReplayInv'
<1> DEFINE t == worker[w].task
<1>1. /\ worker[w].task \in Tasks /\ task[t].status = "running" /\ UNCHANGED resumed
      /\ \A u \in Tasks \ {t} : task'[u] = task[u]
  BY FinishRows DEF finishTask, history
<1>2. /\ Live(w, t)
      /\ \A v \in Workers : v # w => worker'[v] = worker[v]
      /\ worker'[w].pc = "releasing"
  BY DEF finishTask, Live, TypeOK, WorkerState, WorkerRow
<1>3. \A u \in Tasks, v \in Workers : Live(v, u)' => Live(v, u) /\ v # w
  BY <1>2 DEF Live, Executing
<1> QED
  BY <1>1, <1>2, <1>3 DEF ReplayInv

LEMMA ReplayNext == ASSUME TypeOK, ReplayInv, [Next]_vars PROVE ReplayInv'
<1>1. ASSUME UNCHANGED worker, WaitingKept PROVE ReplayInv'
  BY <1>1, ReplayStep, ResumedGrows DEF Live
<1>2. CASE UNCHANGED vars
  BY <1>1, <1>2, SameRows DEF vars, RowsKept
<1>3. ASSUME NEW t \in Tasks, Create(t) \/ Loop(t) \/ Manage(t) PROVE ReplayInv'
  <2>1. UNCHANGED worker
    <3>1. Create(t) => UNCHANGED worker
      BY DEF Create, CreateInstance, RequestAction, MoveRequested, RefuseRequested,
          InsertRequested, UndoRequested, scheduleLifecycle, InsertTx
    <3>2. Loop(t) => UNCHANGED worker
      BY DEF Loop, RecoverPending, RecoverLease, quarantineDangerousFailedTasks,
          ReconcileOperation, FinalizeOperation, ReconcileResize
    <3>3. Manage(t) => UNCHANGED worker
      BY DEF Manage, CancelQueued, UndoDeploy, CancelDestroy, retryTask, resumeReviewTask,
          discardReviewTask, ClearLock
    <3> QED
      BY <1>3, <3>1, <3>2, <3>3
  <2> QED
    BY <1>1, <1>3, <2>1, CreateRows, LoopRows, ManageRows DEF RowsKept
<1>4. ASSUME NEW w \in Workers, Handle(w) PROVE ReplayInv'
  <2>1. CASE \E t \in Tasks : claimTask(w, t)
    BY <2>1, ClaimReplay
  <2>2. CASE finishTask(w)
    BY <2>2, FinishReplay
  <2>3. CASE ~ finishTask(w) /\ \A t \in Tasks : ~ claimTask(w, t)
    <3>1. \A v \in Workers, t \in Tasks : Live(v, t)' => Live(v, t)
      BY <1>4, <2>3, HandleLive
    <3> QED
      BY <1>4, <2>3, <3>1, HandleRows, ReplayStep, ResumedGrows DEF RowsKept
  <2> QED
    BY <2>1, <2>2, <2>3
<1>5. CASE \E i \in Instances : Environment(i)
  <2>1. UNCHANGED worker
    BY <1>5 DEF Environment, Supersede, NodeFlip, RevokeDevice, OtherWriter
  <2> QED
    BY <1>1, <1>5, <2>1, EnvironmentRows DEF RowsKept
<1>6. CASE Tick
  BY <1>1, <1>6, TickRows DEF Tick, RowsKept
<1> QED
  BY <1>2, <1>3, <1>4, <1>5, <1>6 DEF Next

\* A dangerous task is not executed a second time beside a handler that still
\* executes it, unless an administrator resumed it: however late the handler is,
\* with or without the lease, and whatever crashes or is redelivered.
THEOREM ReplayCorrect == Spec => []NoBlindReplay
<1>1. Init => ReplayInv
  <2> SUFFICES ASSUME Init PROVE ReplayInv
    OBVIOUS
  <2>1. \A w \in Workers, t \in Tasks : ~ Live(w, t)
    BY DEF Init, Live, IdleWorker, Executing
  <2> QED
    BY <2>1 DEF ReplayInv
<1>2. TypeOK /\ ReplayInv /\ [Next]_vars => ReplayInv'
  BY ReplayNext
<1>3. TypeOK /\ ReplayInv => NoBlindReplay
  <2> SUFFICES ASSUME TypeOK, ReplayInv, NEW v \in Workers, NEW w \in Workers,
                      v # w, worker[v].pc = "calling", worker[w].pc = "calling",
                      worker[v].task = worker[w].task
               PROVE  \/ ~ dangerousRecoveredTask(ActionOf[worker[v].task])
                      \/ worker[v].task \in resumed
    BY DEF NoBlindReplay
  <2>1. worker[v].task \in Tasks
    BY Serving
  <2> QED
    BY <2>1 DEF ReplayInv, Live, Executing
<1> QED
  BY <1>1, <1>2, <1>3, TypeCorrect, PTL DEF Spec

-----------------------------------------------------------------------------
(* Requests to the Agent exclude each other.                               *)

AtFence(w) == worker[w].pc \in {"fenced", "calling"}

\* Its device was revoked under a handler: the fence refuses everybody else.
Cut(t) == InstanceOf[t] \in SelfHosted \cap down /\ Over(t)

\* Past the fence a handler has its lease and the lock, or nobody gets them.
CallsOwned ==
    \A w \in Workers : AtFence(w) => (OwnsLease(w) /\ HoldsLock(w)) \/ Cut(worker[w].task)

CallsAlone ==
    \A v, w \in Workers :
        /\ AtFence(v) /\ AtFence(w)
        /\ InstanceOf[worker[v].task] = InstanceOf[worker[w].task]
        => v = w

\* A lock is only cleared for a task that is not executed again.
FollowupsOver ==
    \A f \in followup :
        /\ f.do # "resume"
        /\ f.do = "discard" => "discard" \in Events /\ Over(f.task)

CallsInv == CallsOwned /\ CallsAlone /\ FollowupsOver

\* The handlers at the fence do not change.
FenceKept ==
    \A w \in Workers : AtFence(w)' =>
        AtFence(w) /\ worker'[w].task = worker[w].task /\ worker'[w].token = worker[w].token

\* New second statements are those of what is over.
FollowupsKept ==
    \A f \in followup' \ followup :
        f.do # "resume" /\ (f.do = "discard" => "discard" \in Events /\ Over(f.task)')

LEMMA FollowupsStep ==
    ASSUME TypeOK, Undisturbed, FollowupsOver, OverKept, FollowupsKept
    PROVE  FollowupsOver'
<1>1. \A f \in followup : f.task \in Tasks
  BY DEF TypeOK, Followup
<1> QED
  BY <1>1 DEF FollowupsOver, FollowupsKept, OverKept

LEMMA OwnedStep ==
    ASSUME TypeOK, Undisturbed, CallsOwned, OverKept, LeaseKept, LockKept, FenceKept,
           SelfHosted \cap down \subseteq down'
    PROVE  CallsOwned'
<1> SUFFICES ASSUME NEW w \in Workers, AtFence(w)'
             PROVE  (OwnsLease(w) /\ HoldsLock(w))' \/ Cut(worker[w].task)'
  BY DEF CallsOwned
<1>1. /\ AtFence(w) /\ worker'[w].task = worker[w].task /\ worker'[w].token = worker[w].token
      /\ worker[w].task \in Tasks /\ InstanceOf[worker[w].task] \in Instances
  BY Serving DEF FenceKept, AtFence
<1>2. CASE Cut(worker[w].task)
  BY <1>1, <1>2 DEF Cut, OverKept, Over
<1>3. CASE OwnsLease(w) /\ HoldsLock(w)
  BY <1>1, <1>3 DEF OwnsLease, HoldsLock, LeaseKept, Leased, LockKept
<1> QED
  BY <1>1, <1>2, <1>3 DEF CallsOwned

LEMMA AloneStep ==
    ASSUME CallsAlone, FenceKept
    PROVE  CallsAlone'
BY DEF CallsAlone, FenceKept

LEMMA CallsStep ==
    ASSUME TypeOK, Undisturbed, CallsInv, OverKept, LeaseKept, LockKept, FenceKept,
           SelfHosted \cap down \subseteq down', FollowupsKept
    PROVE  CallsInv'
BY OwnedStep, AloneStep, FollowupsStep DEF CallsInv

LEMMA SameLocks == ASSUME UNCHANGED lock PROVE LockKept
BY DEF LockKept

LEMMA SameFence == ASSUME UNCHANGED worker PROVE FenceKept
BY DEF FenceKept, AtFence

LEMMA SameFollowups == ASSUME UNCHANGED followup PROVE FollowupsKept
BY DEF FollowupsKept

LEMMA CreateCalls ==
    ASSUME TypeOK, Undisturbed, CallsInv, NEW t \in Tasks, Create(t)
    PROVE  CallsInv'
<1>1. UNCHANGED <<lock, down, worker>>
  BY DEF Create, CreateInstance, RequestAction, MoveRequested, RefuseRequested,
      InsertRequested, UndoRequested, scheduleLifecycle, InsertTx
<1>2. followup' \subseteq followup \cup {Inserting(t)}
  BY DEF Create, CreateInstance, RequestAction, MoveRequested, RefuseRequested,
      InsertRequested, UndoRequested, scheduleLifecycle, InsertTx, history
<1>3. FollowupsKept
  BY <1>2 DEF FollowupsKept, Inserting
<1> QED
  BY <1>1, <1>3, CreateRows, CallsStep, SameLocks, SameFence DEF RowsKept

LEMMA LoopCalls ==
    ASSUME TypeOK, Undisturbed, CallsInv, NEW t \in Tasks, Loop(t)
    PROVE  CallsInv'
<1>1. UNCHANGED <<lock, down, worker>>
  BY DEF Loop, RecoverPending, RecoverLease, quarantineDangerousFailedTasks,
      ReconcileOperation, FinalizeOperation, ReconcileResize
<1>2. followup' \subseteq followup \cup {[task |-> t, do |-> "finalize"]}
  BY DEF Loop, RecoverPending, RecoverLease, quarantineDangerousFailedTasks,
      ReconcileOperation, FinalizeOperation, ReconcileResize, history
<1>3. FollowupsKept
  BY <1>2 DEF FollowupsKept
<1> QED
  BY <1>1, <1>3, LoopRows, CallsStep, SameLocks, SameFence DEF RowsKept

\* The second statement of a discard clears a lock nobody at the fence holds.
LEMMA ClearCalls ==
    ASSUME TypeOK, Undisturbed, CallsInv, NEW t \in Tasks, NEW do \in {"resume", "discard"},
           ClearLock(t, do)
    PROVE  CallsInv'
<1>1. /\ [task |-> t, do |-> do] \in followup
      /\ followup' \subseteq followup
      /\ UNCHANGED <<task, down, worker>>
  BY DEF ClearLock
<1>2. Over(t)
  BY <1>1 DEF CallsInv, FollowupsOver
<1>3. \A i \in Instances : lock[i].task = t \/ lock'[i] = lock[i]
  BY DEF ClearLock, TypeOK
<1>4. CallsOwned'
  <2> SUFFICES ASSUME NEW w \in Workers, AtFence(w), OwnsLease(w), HoldsLock(w)
               PROVE  (OwnsLease(w) /\ HoldsLock(w))'
    BY <1>1 DEF CallsInv, CallsOwned, AtFence, Cut, Over
  <2>1. worker[w].task # t
    BY <1>2 DEF OwnsLease, Over
  <2>2. InstanceOf[worker[w].task] \in Instances
    BY Serving DEF AtFence
  <2> QED
    BY <1>1, <1>3, <2>1, <2>2 DEF OwnsLease, HoldsLock
<1>5. CallsAlone' /\ FollowupsOver'
  BY <1>1, AloneStep, SameFence DEF CallsInv, FollowupsOver, Over
<1> QED
  BY <1>4, <1>5 DEF CallsInv

LEMMA ManageCalls ==
    ASSUME TypeOK, Undisturbed, CallsInv, NEW t \in Tasks, Manage(t)
    PROVE  CallsInv'
<1>1. CASE CancelQueued(t) \/ UndoDeploy(t) \/ CancelDestroy(t) \/ retryTask(t)
  <2>1. UNCHANGED <<lock, down, worker>>
    BY <1>1 DEF CancelQueued, UndoDeploy, CancelDestroy, retryTask
  <2>2. followup' \subseteq followup \cup {[task |-> t, do |-> "undeploy"]}
    BY <1>1 DEF CancelQueued, UndoDeploy, CancelDestroy, retryTask, history
  <2>3. FollowupsKept
    BY <2>2 DEF FollowupsKept
  <2> QED
    BY <2>1, <2>3, ManageRows, CallsStep, SameLocks, SameFence DEF RowsKept
<1>2. CASE resumeReviewTask(t)
  BY <1>2 DEF resumeReviewTask, Undisturbed
<1>3. CASE discardReviewTask(t)
  <2>1. /\ UNCHANGED <<lock, down, worker>>
        /\ "discard" \in Events /\ followup' = followup \cup {[task |-> t, do |-> "discard"]}
    BY <1>3 DEF discardReviewTask
  <2>2. task'[t].status \in {"failed", "discarded"}
    BY <1>3, DiscardRow
  <2>3. FollowupsKept
    BY <2>1, <2>2 DEF FollowupsKept, Over, Undisturbed
  <2> QED
    BY <2>1, <2>3, ManageRows, CallsStep, SameLocks, SameFence DEF RowsKept
<1>4. CASE \E do \in {"resume", "discard"} : ClearLock(t, do)
  BY <1>4, ClearCalls
<1> QED
  BY <1>1, <1>2, <1>3, <1>4 DEF Manage

\* A revoked device: what was being executed is over, and cut off.
LEMMA EnvironmentCalls ==
    ASSUME TypeOK, Undisturbed, CallsInv, NEW i \in Instances, Environment(i)
    PROVE  CallsInv'
<1>1. CASE Supersede(i) \/ NodeFlip(i) \/ OtherWriter(i)
  <2>1. UNCHANGED <<task, lock, worker, followup>> /\ SelfHosted \cap down \subseteq down'
    BY <1>1 DEF Supersede, NodeFlip, OtherWriter, history
  <2> QED
    BY <2>1, SameRows, CallsStep, SameLocks, SameFence, SameFollowups DEF RowsKept
<1>2. CASE RevokeDevice(i)
  <2>1. /\ UNCHANGED <<worker, followup>> /\ i \in SelfHosted /\ down' = down \cup {i}
        /\ \A j \in Instances \ {i} : lock'[j] = lock[j]
        /\ \A t \in Tasks : InstanceOf[t] # i => task'[t] = task[t]
        /\ \A t \in Tasks : InstanceOf[t] = i /\ task[t].status = "running"
                                => task'[t].status = "needs_review"
    BY <1>2 DEF RevokeDevice, Active, history, TypeOK, TaskRow
  <2>2. OverKept
    BY EnvironmentRows DEF RowsKept
  <2>3. CallsOwned'
    <3> SUFFICES ASSUME NEW w \in Workers, AtFence(w)
                 PROVE  (OwnsLease(w) /\ HoldsLock(w))' \/ Cut(worker[w].task)'
      BY <2>1 DEF CallsOwned, AtFence
    <3>1. worker[w].task \in Tasks /\ InstanceOf[worker[w].task] \in Instances
      BY Serving DEF AtFence
    <3>2. CASE Cut(worker[w].task)
      BY <2>1, <2>2, <3>1, <3>2 DEF Cut, OverKept, Over
    <3>3. CASE OwnsLease(w) /\ HoldsLock(w) /\ InstanceOf[worker[w].task] = i
      BY <2>1, <3>1, <3>3 DEF OwnsLease, Cut, Over
    <3>4. CASE OwnsLease(w) /\ HoldsLock(w) /\ InstanceOf[worker[w].task] # i
      BY <2>1, <3>1, <3>4 DEF OwnsLease, HoldsLock
    <3> QED
      BY <3>2, <3>3, <3>4 DEF CallsInv, CallsOwned
  <2> QED
    BY <2>1, <2>2, <2>3, AloneStep, FollowupsStep, SameFence, SameFollowups DEF CallsInv
<1> QED
  BY <1>1, <1>2 DEF Environment

\* A handler past the fence renews its lease and lock before they expire.
LEMMA TickCalls ==
    ASSUME TypeOK, Undisturbed, CallsInv, Tick
    PROVE  CallsInv'
<1>1. UNCHANGED <<worker, down, followup>> /\ OverKept
  BY TickRows DEF Tick, history, RowsKept
<1>2. CallsOwned'
  <2> SUFFICES ASSUME NEW w \in Workers, AtFence(w)
               PROVE  (OwnsLease(w) /\ HoldsLock(w))' \/ Cut(worker[w].task)'
    BY <1>1 DEF CallsOwned, AtFence
  <2> DEFINE t == worker[w].task
             i == InstanceOf[t]
  <2>1. t \in Tasks /\ i \in Instances /\ task[t] \in TaskRow /\ lock[i] \in LockRow
    BY Serving DEF AtFence, TypeOK
  <2>2. CASE Cut(t)
    BY <1>1, <2>1, <2>2 DEF Cut, OverKept, Over
  <2>3. CASE OwnsLease(w) /\ HoldsLock(w)
    <3>1. task[t].lease # 1 /\ lock[i].left # 1
      BY <2>3 DEF Tick, Expiring, AtFence, Executing, Undisturbed
    <3>2. task'[t].status = task[t].status /\ task'[t].token = task[t].token
      BY <2>1, TickRows
    <3>3. task'[t].lease = Ticked(task[t].lease)
      BY <2>1 DEF Tick, TickedRow, TaskRow
    <3>4. /\ lock'[i].left = Ticked(lock[i].left)
          /\ lock'[i].task = lock[i].task /\ lock'[i].token = lock[i].token
      BY <2>1 DEF Tick, LockRow
    <3>5. task'[t].lease > 0 /\ lock'[i].left > 0
      BY <2>1, <2>3, <3>1, <3>3, <3>4, TaskQueueAssumption
         DEF Ticked, TaskRow, LockRow, OwnsLease, HoldsLock
    <3> QED
      BY <1>1, <2>3, <3>2, <3>4, <3>5 DEF OwnsLease, HoldsLock
  <2> QED
    BY <2>2, <2>3 DEF CallsInv, CallsOwned
<1> QED
  BY <1>1, <1>2, AloneStep, FollowupsStep, SameFence, SameFollowups DEF CallsInv

\* The claim takes a lock that nobody holds.
LEMMA ClaimCalls ==
    ASSUME TypeOK, Undisturbed, CallsInv, NEW w \in Workers, NEW t \in Tasks, claimTask(w, t)
    PROVE  CallsInv'
<1>1. Handle(w) /\ ~ finishTask(w)
  BY DEF Handle, finishTask, claimTask
<1>2. UNCHANGED <<down, followup>>
  BY DEF claimTask, history
<1>3. LockKept
  <2>1. /\ lock[InstanceOf[t]].left = 0
        /\ \A i \in Instances \ {InstanceOf[t]} : lock'[i] = lock[i]
    BY DEF claimTask, LockAvailable, TypeOK
  <2> QED
    BY <2>1 DEF LockKept
<1>4. FenceKept
  BY DEF claimTask, FenceKept, AtFence, IdleWorker, TypeOK
<1> QED
  BY <1>1, <1>2, <1>3, <1>4, HandleRows, CallsStep, SameFollowups DEF RowsKept

\* Who passes the fence owns the lease and the lock, so that nobody else does.
LEMMA PassCalls ==
    ASSUME TypeOK, TokensInv, Undisturbed, CallsInv, NEW w \in Workers, PassFence(w)
    PROVE  CallsInv'
<1>1. /\ UNCHANGED <<task, lock, down, followup>>
      /\ worker[w].pc = "loaded" /\ OwnsLease(w) /\ HoldsLock(w)
      /\ InstanceOf[worker[w].task] \notin down
      /\ \A v \in Workers \ {w} : worker'[v] = worker[v]
      /\ worker'[w].task = worker[w].task /\ worker'[w].token = worker[w].token
  BY DEF PassFence, taskMayCallAgent, history, TypeOK, WorkerState, WorkerRow
<1>2. CallsOwned'
  <2> SUFFICES ASSUME NEW v \in Workers, AtFence(v)'
               PROVE  (OwnsLease(v) /\ HoldsLock(v))' \/ Cut(worker[v].task)'
    BY DEF CallsOwned
  <2>1. CASE v = w
    BY <1>1, <2>1 DEF OwnsLease, HoldsLock
  <2>2. CASE v # w
    BY <1>1, <2>2 DEF CallsInv, CallsOwned, AtFence, OwnsLease, HoldsLock, Cut, Over
  <2> QED
    BY <2>1, <2>2
<1>3. ASSUME NEW v \in Workers, v # w, AtFence(v),
             InstanceOf[worker[v].task] = InstanceOf[worker[w].task]
      PROVE  FALSE
  <2>1. OwnsLease(v) /\ HoldsLock(v)
    BY <1>1, <1>3 DEF CallsInv, CallsOwned, Cut
  <2>2. worker[v].token = worker[w].token
    BY <1>1, <1>3, <2>1 DEF HoldsLock
  <2> QED
    BY <1>1, <1>3, <2>2 DEF TokensInv, OwnsLease
<1>4. CallsAlone'
  <2> SUFFICES ASSUME NEW u \in Workers, NEW v \in Workers, AtFence(u)', AtFence(v)',
                      InstanceOf[worker'[u].task] = InstanceOf[worker'[v].task]
               PROVE  u = v
    BY DEF CallsAlone
  <2>1. CASE u # w /\ v # w
    BY <1>1, <2>1 DEF CallsInv, CallsAlone, AtFence
  <2>2. CASE u = w \/ v = w
    BY <1>1, <1>3, <2>2 DEF AtFence
  <2> QED
    BY <2>1, <2>2
<1>5. FollowupsOver'
  BY <1>1 DEF CallsInv, FollowupsOver, Over
<1> QED
  BY <1>2, <1>4, <1>5 DEF CallsInv

\* Who finishes has the token of its row, so that nobody at the fence loses it.
LEMMA FinishCalls ==
    ASSUME TypeOK, TokensInv, Undisturbed, CallsInv, NEW w \in Workers, finishTask(w)
    PROVE  CallsInv'
<1>1. /\ UNCHANGED <<lock, down, followup>> /\ OwnsLease(w) /\ worker[w].pc = "finishing"
      /\ \A v \in Workers \ {w} : worker'[v] = worker[v]
      /\ worker'[w].pc = "releasing"
  BY DEF finishTask, history, TypeOK, WorkerState, WorkerRow
<1>2. /\ \A u \in Tasks \ {worker[w].task} : task'[u] = task[u]
      /\ OverKept
  BY FinishRows
<1>3. FenceKept
  BY <1>1 DEF FenceKept, AtFence
<1>4. CallsOwned'
  <2> SUFFICES ASSUME NEW v \in Workers, AtFence(v)'
               PROVE  (OwnsLease(v) /\ HoldsLock(v))' \/ Cut(worker[v].task)'
    BY DEF CallsOwned
  <2>1. v # w /\ AtFence(v) /\ worker'[v] = worker[v] /\ worker[v].task \in Tasks
    BY <1>1, Serving DEF AtFence
  <2>2. CASE Cut(worker[v].task)
    BY <1>1, <1>2, <2>1, <2>2 DEF Cut, OverKept, Over
  <2>3. CASE OwnsLease(v) /\ HoldsLock(v)
    <3>1. worker[v].task # worker[w].task
      BY <1>1, <2>1, <2>3 DEF OwnsLease, TokensInv
    <3> QED
      BY <1>1, <1>2, <2>1, <2>3, <3>1 DEF OwnsLease, HoldsLock
  <2> QED
    BY <2>1, <2>2, <2>3 DEF CallsInv, CallsOwned
<1> QED
  BY <1>1, <1>2, <1>3, <1>4, AloneStep, FollowupsStep, SameFollowups DEF CallsInv

\* A handler releases only the lock that has its own token.
LEMMA ReleaseCalls ==
    ASSUME TypeOK, TokensInv, Undisturbed, CallsInv, NEW w \in Workers, releaseInstanceTaskLock(w)
    PROVE  CallsInv'
<1> DEFINE i == InstanceOf[worker[w].task]
<1>1. /\ UNCHANGED <<task, down, followup>> /\ worker[w].pc = "releasing"
      /\ \A v \in Workers \ {w} : worker'[v] = worker[v]
      /\ worker'[w].pc \in {"idle", "failing"}
  BY DEF releaseInstanceTaskLock, history, Leave, IdleWorker, TypeOK, WorkerState, WorkerRow
<1>2. /\ \A j \in Instances \ {i} : lock'[j] = lock[j]
      /\ lock[i].token = worker[w].token \/ lock' = lock
  BY DEF releaseInstanceTaskLock, TypeOK
<1>3. FenceKept
  BY <1>1 DEF FenceKept, AtFence
<1>4. CallsOwned'
  <2> SUFFICES ASSUME NEW v \in Workers, AtFence(v)'
               PROVE  (OwnsLease(v) /\ HoldsLock(v))' \/ Cut(worker[v].task)'
    BY DEF CallsOwned
  <2>1. /\ v # w /\ AtFence(v) /\ worker'[v] = worker[v]
        /\ InstanceOf[worker[v].task] \in Instances
    BY <1>1, Serving DEF AtFence
  <2>2. CASE Cut(worker[v].task)
    BY <1>1, <2>1, <2>2 DEF Cut, Over
  <2>3. CASE OwnsLease(v) /\ HoldsLock(v)
    <3>1. InstanceOf[worker[v].task] # i \/ lock' = lock
      BY <1>2, <2>1, <2>3 DEF OwnsLease, HoldsLock, TokensInv
    <3> QED
      BY <1>1, <1>2, <2>1, <2>3, <3>1 DEF OwnsLease, HoldsLock
  <2> QED
    BY <2>1, <2>2, <2>3 DEF CallsInv, CallsOwned
<1>5. CallsAlone' /\ FollowupsOver'
  BY <1>1, <1>3, AloneStep DEF CallsInv, FollowupsOver, Over
<1> QED
  BY <1>4, <1>5 DEF CallsInv

\* One handler moves, away from the fence; the others stay.
LEMMA LeavesFence ==
    ASSUME TypeOK, NEW w \in Workers, NEW r, worker' = [worker EXCEPT ![w] = r],
           r.pc \notin {"fenced", "calling"}
    PROVE  FenceKept
<1>1. worker'[w] = r /\ \A v \in Workers \ {w} : worker'[v] = worker[v]
  BY DEF TypeOK
<1> QED
  BY <1>1 DEF FenceKept, AtFence

\* Every other step of a handler goes towards the fence with the same lease and
\* lock, or away from it.
LEMMA HandleCalls ==
    ASSUME TypeOK, TokensInv, Undisturbed, CallsInv, NEW w \in Workers, Handle(w)
    PROVE  CallsInv'
<1>1. ASSUME UNCHANGED <<task, lock, down, followup>>, FenceKept PROVE CallsInv'
  BY <1>1, SameRows, CallsStep, SameLocks, SameFollowups DEF RowsKept
<1>2. CASE renewTaskLease(w)
  <2>1. UNCHANGED <<worker, down, followup>> /\ ~ finishTask(w)
    BY <1>2 DEF renewTaskLease, finishTask, history, TypeOK, WorkerState, WorkerRow
  <2>2. LockKept
    BY <1>2, TaskQueueAssumption DEF renewTaskLease, LockKept, TypeOK, LockRow
  <2> QED
    BY <2>1, <2>2, HandleRows, CallsStep, SameFence, SameFollowups DEF RowsKept
<1>3. CASE \E t \in Tasks : claimTask(w, t)
  BY <1>3, ClaimCalls
<1>4. CASE PassFence(w) \/ finishTask(w) \/ releaseInstanceTaskLock(w)
  BY <1>4, PassCalls, FinishCalls, ReleaseCalls
<1>5. CASE CallAgent(w)
  <2>1. FenceKept
    BY <1>5 DEF CallAgent, FenceKept, AtFence, TypeOK, WorkerState, WorkerRow
  <2> QED
    BY <1>1, <1>5, <2>1 DEF CallAgent, history
<1>6. worker[w] \in WorkerRow
  BY DEF TypeOK, WorkerState
<1>7. CASE ReloadFails(w) \/ FinishRefused(w) \/ failDeployment(w) \/ Crash(w)
  <2>1. worker' = [worker EXCEPT ![w] = IdleWorker] /\ IdleWorker.pc = "idle"
    BY <1>7 DEF ReloadFails, FinishRefused, failDeployment, Crash, Leave, IdleWorker
  <2>2. FenceKept
    BY <2>1, LeavesFence
  <2> QED
    BY <1>1, <1>7, <2>2 DEF ReloadFails, FinishRefused, failDeployment, Crash, history
<1>8. CASE ReloadTask(w)
  <2> DEFINE t == worker[w].task
             r == [worker[w] EXCEPT !.pc = "loaded", !.token = task[t].token,
                      !.attempts = task[t].attempts, !.seen = inst[InstanceOf[t]]]
  <2>1. r.pc = "loaded"
    BY <1>6 DEF WorkerRow
  <2>2. worker' = [worker EXCEPT ![w] = r]
    BY <1>8 DEF ReloadTask
  <2> HIDE DEF r
  <2>3. FenceKept
    BY <2>1, <2>2, LeavesFence
  <2> QED
    BY <1>1, <1>8, <2>3 DEF ReloadTask, history
<1>9. CASE ExecuteFails(w) \/ SkipAgent(w) \/ CommitResult(w) \/ CommitFails(w) \/ AgentFails(w)
  <2>1. PICK r : worker' = [worker EXCEPT ![w] = r] /\ r.pc = "finishing"
    <3>1. \A x : [worker[w] EXCEPT !.pc = "finishing", !.result = x].pc = "finishing"
      BY <1>6 DEF WorkerRow
    <3>2. [worker[w] EXCEPT !.pc = "finishing"].pc = "finishing"
      BY <1>6 DEF WorkerRow
    <3>3. CASE SkipAgent(w)
      BY <3>2, <3>3 DEF SkipAgent
    <3>4. CASE CommitResult(w)
      BY <3>1, <3>4 DEF CommitResult
    <3>5. CASE ExecuteFails(w) \/ CommitFails(w) \/ AgentFails(w)
      BY <3>1, <3>5 DEF ExecuteFails, CommitFails, AgentFails
    <3> QED
      BY <1>9, <3>3, <3>4, <3>5
  <2>2. FenceKept
    BY <2>1, LeavesFence
  <2> QED
    BY <1>1, <1>9, <2>2 DEF ExecuteFails, SkipAgent, CommitResult, CommitFails, AgentFails, history
<1>12. CASE AgentSucceeds(w)
  <2> DEFINE a == [worker[w] EXCEPT !.pc = "loaded", !.leg = 2]
             b == [worker[w] EXCEPT !.pc = "returned"]
  <2>1. a.pc = "loaded" /\ b.pc = "returned"
    BY <1>6 DEF WorkerRow
  <2>2. worker' = [worker EXCEPT ![w] = a] \/ worker' = [worker EXCEPT ![w] = b]
    BY <1>12 DEF AgentSucceeds
  <2> HIDE DEF a, b
  <2>3. FenceKept
    BY <2>1, <2>2, LeavesFence
  <2> QED
    BY <1>1, <1>12, <2>3 DEF AgentSucceeds, history
<1>10. CASE Redeliver(w)
  <2>1. FenceKept
    BY <1>10 DEF Redeliver, FenceKept, AtFence, TypeOK, WorkerState, WorkerRow
  <2> QED
    BY <1>1, <1>10, <2>1 DEF Redeliver, history
<1>11. CASE \E t \in Tasks : ClaimRefused(w, t)
  BY <1>1, <1>11, SameFence DEF ClaimRefused, history
<1> QED
  BY <1>2, <1>3, <1>4, <1>5, <1>7, <1>8, <1>9, <1>10, <1>11, <1>12 DEF Handle

LEMMA CallsNext == ASSUME TypeOK, TokensInv, Undisturbed, CallsInv, [Next]_vars PROVE CallsInv'
<1>1. CASE UNCHANGED vars
  <2>1. UNCHANGED <<task, lock, down, worker, followup>>
    BY <1>1 DEF vars, history
  <2> QED
    BY <2>1, SameRows, CallsStep, SameLocks, SameFence, SameFollowups DEF RowsKept
<1> QED
  BY <1>1, CreateCalls, LoopCalls, ManageCalls, HandleCalls, EnvironmentCalls, TickCalls DEF Next

\* Where handlers are prompt, no task is resumed from review and none is retried
\* after it was discarded from review, the requests are owned and alone.
THEOREM CallsCorrect == Undisturbed => (Spec => []CallsInv)
<1> SUFFICES ASSUME Undisturbed PROVE Spec => []CallsInv
  OBVIOUS
<1>1. Init => CallsInv
  BY DEF Init, CallsInv, CallsOwned, CallsAlone, FollowupsOver, AtFence, IdleWorker
<1>2. TypeOK /\ TokensInv /\ CallsInv /\ [Next]_vars => CallsInv'
  BY CallsNext
<1>3. "reload" \in Prompt
  BY DEF Undisturbed
<1>4. Spec => []TokensInv
  BY <1>3, TokensCorrect
<1> QED
  BY <1>1, <1>2, <1>4, TypeCorrect, PTL DEF Spec

\* Then two requests that change the container of one instance are never in
\* flight at the same time, whatever crashes, is redelivered, cancelled,
\* superseded or revoked.
THEOREM OneCallCorrect == Undisturbed => (Spec => []OneAgentCall)
<1> SUFFICES ASSUME Undisturbed PROVE Spec => []OneAgentCall
  OBVIOUS
<1>1. CallsInv => OneAgentCall
  BY DEF CallsInv, CallsAlone, OneAgentCall, Calling, AtFence
<1> QED
  BY <1>1, CallsCorrect, PTL

\* And a task whose request is in flight is not shown as cancelled.
THEOREM CancelCorrect == Undisturbed => (Spec => []CancelHonest)
<1> SUFFICES ASSUME Undisturbed PROVE Spec => []CancelHonest
  OBVIOUS
<1>1. CallsInv => CancelHonest
  BY DEF CallsInv, CallsOwned, CancelHonest, AtFence, OwnsLease, Cut, Over
<1> QED
  BY <1>1, CallsCorrect, PTL
=============================================================================
