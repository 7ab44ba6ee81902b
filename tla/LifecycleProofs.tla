---------------------------- MODULE LifecycleProofs ----------------------------
(***************************************************************************)
(* Proofs about Lifecycle: types, when a container is taken down, and when *)
(* data is deleted, for any periods, attempts and bounds.                  *)
(***************************************************************************)
EXTENDS Lifecycle, TLAPS

\* The parts of TypeOK that steps change, with the number of the plan.
Service == 0..(MaxNow + Term + Prepaid)
InsT == ins \in InstanceRow /\ (Scheduled => ins.plan \in Plans) /\ ins.expiresAt \in Service
RowT == row \in [Keys -> TaskRow]
TodoT == todo \subseteq [key : Keys, after : Time]
PlansT == plans \in {0} \cup Plans
OrderT == order \in {"active", "expired", "refunded"}
NodeT == container \in {"running", "stopped", "absent"} /\ data \in BOOLEAN /\ late \subseteq Keys
PassT ==
    /\ cancelling \in {"no", "running", "stopped"}
    /\ expiring \in {"no", "running", "stopped", "orders"}
    /\ clearing \in Keys \cup {NoKey}
HistoryT == faults \in 0..MaxEvents /\ asked \in BOOLEAN

\* A handler that works has the lease of its task; the lock it may have lost.
HandlerT ==
    /\ handler \in [Keys -> HandlerRow] /\ lock \in Keys \cup {NoKey}
    /\ \A k \in Keys : handler[k].pc # "idle" => row[k].status = "running"

\* A start has read a status in which a start is expected.
Starting ==
    \A k \in Keys : handler[k].pc \in {"ready", "called", "done"} /\ Action(k) = "start" => handler[k].seen # "destroyed"

Types ==
    /\ now \in 0..MaxNow
    /\ InsT /\ RowT /\ TodoT /\ PlansT /\ OrderT /\ NodeT /\ PassT /\ HistoryT /\ HandlerT

\* The task of a plan exists, or a request is about to insert it.
DestroyKey(p) == <<"destroy", p>>
Known(p) == row[DestroyKey(p)].status # "none" \/ \E e \in todo : e.key = DestroyKey(p)

\* The number of the next plan is new ...
Fresh == ins.plan <= plans /\ \A p \in Plans : Known(p) => p <= plans

\* ... and the task of the plan in force exists only when it is due or asked for.
Due == ins.destroyAt <= now \/ asked
Timely == \A p \in Plans : Known(p) /\ Scheduled /\ ins.plan = p => Due

\* A destroy that has compared its key with the plan finds the plan in force for
\* as long as it has the lock ...
Destroying ==
    \A k \in Keys : Action(k) = "destroy" /\ lock = k /\ handler[k].pc \in {"ready", "called"} =>
                      handler[k].raced \/ InForce(k)

\* ... and a purge that has looked at the orders, and one that was given up,
\* finds the retention over with or without it, unless the data is gone.
Purging ==
    /\ handler[PurgeKey].pc \in {"ready", "called", "done"} => PurgeEligible
    /\ handler[PurgeKey].pc = "done" => ~ data
    /\ PurgeKey \in late => PurgeEligible \/ ~ data

Inv == Types /\ Fresh /\ Timely /\ Starting /\ Destroying /\ Purging

LEMMA InvTypes == Inv => TypeOK
  BY DEF Inv, Types, TypeOK, InsT, RowT, TodoT, PlansT, OrderT, NodeT, PassT, HistoryT, HandlerT

LEMMA NoKeyT == NoKey \notin Keys
  BY DEF NoKey, Keys

LEMMA PurgeKeyT == PurgeKey \in Keys /\ Action(PurgeKey) = "purge" /\ \A p \in Plans : DestroyKey(p) # PurgeKey
  BY DEF PurgeKey, Keys, Action, DestroyKey

LEMMA KeyActions ==
  \A k \in Keys : /\ Action(k) \in {"destroy", "purge", "start"}
                  /\ k[1] = "destroy" => k[2] \in Plans /\ k = DestroyKey(k[2])
                  /\ Action(k) = "purge" => k = PurgeKey
  BY DEF Keys, Action, DestroyKey, PurgeKey

LEMMA InitInv == Init => Inv
<1> SUFFICES ASSUME Init PROVE Inv
  OBVIOUS
<1> USE LifecycleAssumption DEF LifecycleAssumption, Init
<1>1. PICK s \in InitStatus :
        ins = [status |-> s, runtime |-> IF s = "running" THEN s ELSE IF s = "stopped" THEN s ELSE "unknown",
               expiresAt |-> Term, plan |-> 0, destroyAt |-> 0, reason |-> "none",
               purgeAt |-> 0, archived |-> FALSE]
  OBVIOUS
<1>2. Term \in Time /\ Term \in Service /\ 0 \in Time /\ 0 \in 0..MaxAttempts
  BY DEF Time, Service
<1>3. InsT
  BY <1>1, <1>2 DEF InsT, InstanceRow, InstanceStatus, Runtime, Reasons, Scheduled
<1>4. RowT
  BY <1>2 DEF RowT, TaskRow
<1>5. HandlerT
  BY DEF HandlerT, HandlerRow, IdleHandler, InstanceStatus
<1>6. NodeT /\ now \in 0..MaxNow /\ faults \in 0..MaxEvents
  BY DEF NodeT
<1>7. TodoT /\ PlansT /\ OrderT /\ PassT /\ HistoryT
  BY <1>6 DEF TodoT, PlansT, OrderT, PassT, HistoryT
<1>8. Types
  BY <1>3, <1>4, <1>5, <1>6, <1>7 DEF Types
<1>9. \A p \in Plans : DestroyKey(p) \in Keys /\ ~ Known(p)
  BY DEF DestroyKey, Keys, Known
<1>10. Fresh /\ Timely
  BY <1>1, <1>9 DEF Fresh, Timely
<1>11. Starting /\ Destroying /\ Purging
  BY PurgeKeyT DEF Starting, Destroying, Purging, IdleHandler
<1> QED
  BY <1>8, <1>10, <1>11 DEF Inv
-----------------------------------------------------------------------------
(* The row of the instance.                                                *)

LEMMA DestroyKeyT == \A p \in Plans : DestroyKey(p) \in Keys
  BY DEF DestroyKey, Keys

\* A plan in force has the number after the last.
LEMMA PlannedRow ==
  ASSUME InsT, NEW reason \in Reasons, NEW at \in Time, NEW runtime \in Runtime, plans + 1 \in Plans
  PROVE  LET r == Planned(reason, at, runtime) IN
         /\ r \in InstanceRow
         /\ r.status = "destroy_scheduled" /\ r.plan = plans + 1 /\ r.expiresAt = ins.expiresAt
<1> DEFINE a == [[[ins EXCEPT !.status = "destroy_scheduled"] EXCEPT !.runtime = runtime] EXCEPT !.plan = plans + 1]
           r == [[[a EXCEPT !.destroyAt = at] EXCEPT !.reason = reason] EXCEPT !.purgeAt = 0]
<1>1. Planned(reason, at, runtime) = r
  BY DEF Planned
<1>2. 0 \in Time
  BY LifecycleAssumption DEF LifecycleAssumption, Time
<1>3. a \in InstanceRow /\ a.status = "destroy_scheduled" /\ a.plan = plans + 1 /\ a.expiresAt = ins.expiresAt
  BY DEF InsT, InstanceRow, InstanceStatus
<1> HIDE DEF a
<1>4. /\ r \in InstanceRow
      /\ r.status = "destroy_scheduled" /\ r.plan = plans + 1 /\ r.expiresAt = ins.expiresAt
  BY <1>2, <1>3 DEF InstanceRow
<1> QED
  BY <1>1, <1>4

LEMMA WithdrawnRow ==
  ASSUME InsT, NEW runtime \in {"running", "stopped"}
  PROVE  LET r == Withdrawn(runtime) IN r \in InstanceRow /\ r.status = runtime /\ r.plan = 0 /\ r.expiresAt = ins.expiresAt
<1> DEFINE a == [[[ins EXCEPT !.status = runtime] EXCEPT !.runtime = runtime] EXCEPT !.plan = 0]
           r == [[[a EXCEPT !.destroyAt = 0] EXCEPT !.reason = "none"] EXCEPT !.purgeAt = 0]
<1>1. Withdrawn(runtime) = r
  BY DEF Withdrawn
<1>2. 0 \in Time
  BY LifecycleAssumption DEF LifecycleAssumption, Time
<1>3. a \in InstanceRow /\ a.status = runtime /\ a.plan = 0 /\ a.expiresAt = ins.expiresAt
  BY DEF InsT, InstanceRow, InstanceStatus, Runtime
<1> HIDE DEF a
<1>4. r \in InstanceRow /\ r.status = runtime /\ r.plan = 0 /\ r.expiresAt = ins.expiresAt
  BY <1>2, <1>3 DEF InstanceRow, Reasons
<1> QED
  BY <1>1, <1>4

LEMMA RestoredT == Restored \in {"running", "stopped"}
  BY DEF Restored
-----------------------------------------------------------------------------
(* What the steps have in common.                                          *)

\* The rest of the row stays, no task of a plan appears, no handler moves.
LEMMA Frame ==
  ASSUME Inv, Types', UNCHANGED <<handler, now, plans>>, lock' \in {lock, NoKey}, asked => asked',
         data' => data, late' \subseteq late,
         \A p \in Plans : Known(p)' => Known(p),
         Scheduled' <=> Scheduled, ins.status = "destroyed" => ins'.status = "destroyed",
         ins'.plan = ins.plan, ins'.destroyAt = ins.destroyAt, ins'.purgeAt = ins.purgeAt,
         ins'.expiresAt = ins.expiresAt, order' = "active" => order = "active"
  PROVE  Inv'
<1>1. (Due => Due') /\ \A k \in Keys : InForce(k) => InForce(k)'
  BY DEF Due, InForce
<1>2. PurgeEligible => PurgeEligible'
  BY DEF PurgeEligible, PurgeDue, OrderInForce
<1>3. Fresh' /\ Timely'
  BY <1>1 DEF Inv, Fresh, Timely
<1>4. Starting' /\ Destroying'
  BY <1>1, NoKeyT DEF Inv, Starting, Destroying
<1>5. Purging'
  BY <1>2 DEF Inv, Purging
<1> QED
  BY <1>3, <1>4, <1>5 DEF Inv

\* A new plan comes into force; the key of its task is not in use.
LEMMA PlanStep ==
  ASSUME Inv, Types', UNCHANGED <<handler, lock, now, data, late>>, NewPlan, ins'.plan = plans + 1,
         \A p \in Plans : Known(p)' => Known(p),
         ~ Scheduled, ins.status # "destroyed"
  PROVE  Inv'
<1>1. plans \in Nat /\ plans' = plans + 1 /\ plans + 1 \in Plans /\ \A p \in Plans : p \in Nat
  BY LifecycleAssumption DEF LifecycleAssumption, NewPlan, Inv, Types, PlansT, Plans
<1>2. \A p \in Plans : Known(p)' => p <= plans
  BY DEF Inv, Fresh
<1>3. Fresh' /\ Timely'
  BY <1>1, <1>2 DEF Fresh, Timely
<1>4. Starting' /\ Destroying'
  BY DEF Inv, Starting, Destroying, InForce
<1>5. Purging'
  BY DEF Inv, Purging, PurgeEligible, PurgeDue
<1> QED
  BY <1>3, <1>4, <1>5 DEF Inv

\* A plan is withdrawn while no handler that has the lock and has looked at the
\* plan goes on unmarked.
LEMMA WithdrawStep ==
  ASSUME Inv, Types', UNCHANGED <<plans, data, late>>, ins'.plan = 0, ins'.status \in {"running", "stopped"},
         \A p \in Plans : Known(p)' => Known(p),
         \A k \in Keys : Action(k) = "destroy" /\ lock' = k /\ handler'[k].pc \in {"ready", "called"} => handler'[k].raced,
         handler'[PurgeKey].pc = handler[PurgeKey].pc, ~ PurgeEligible, Starting'
  PROVE  Inv'
<1>1. plans \in Nat
  BY LifecycleAssumption DEF LifecycleAssumption, Inv, Types, PlansT, Plans
<1>2. Fresh' /\ Timely'
  BY <1>1 DEF Inv, Fresh, Timely, Scheduled
<1>3. Destroying'
  BY DEF Destroying
<1>4. Purging'
  BY DEF Inv, Purging
<1> QED
  BY <1>2, <1>3, <1>4 DEF Inv

\* The handler of a task moves, and nothing that the plans depend on.
LEMMA HandlerStep ==
  ASSUME Inv, Types', NEW k \in Keys, UNCHANGED <<ins, now, plans, todo, asked, order>>,
         \A j \in Keys : j # k => handler'[j] = handler[j] /\ (lock' = j => lock = j),
         \A p \in Plans : row'[DestroyKey(p)].status # "none" => row[DestroyKey(p)].status # "none",
         Action(k) = "destroy" /\ lock' = k /\ handler'[k].pc \in {"ready", "called"} =>
           handler'[k].raced \/ InForce(k),
         Action(k) = "start" /\ handler'[k].pc \in {"ready", "called", "done"} => handler'[k].seen # "destroyed",
         k = PurgeKey /\ handler'[k].pc \in {"ready", "called", "done"} => PurgeEligible,
         k = PurgeKey /\ handler'[k].pc = "done" => ~ data',
         data' => data, PurgeKey \in late' => PurgeKey \in late \/ PurgeEligible
  PROVE  Inv'
<1>1. \A p \in Plans : Known(p)' => Known(p)
  BY DEF Known
<1>2. (Due' <=> Due) /\ (Scheduled' <=> Scheduled) /\ (PurgeEligible' <=> PurgeEligible)
  BY DEF Due, Scheduled, PurgeEligible, PurgeDue, OrderInForce
<1>3. \A j \in Keys : InForce(j)' <=> InForce(j)
  BY DEF InForce, Scheduled
<1>4. Fresh' /\ Timely'
  BY <1>1, <1>2 DEF Inv, Fresh, Timely
<1>5. Starting' /\ Destroying'
  BY <1>3 DEF Inv, Starting, Destroying
<1>6. Purging'
  BY <1>2, PurgeKeyT DEF Inv, Purging
<1> QED
  BY <1>4, <1>5, <1>6 DEF Inv

LEMMA TimeT ==
  /\ 0 \in Time /\ Time \subseteq Nat
  /\ \A t \in 0..MaxNow : /\ t \in Time /\ t + Grace \in Time /\ t + Retention \in Time
                          /\ t + Prepaid \in Time /\ t + Term \in Time
                          /\ t + Prepaid \in Service /\ t + Term \in Service
  /\ \A t \in Service : t + Grace \in Time
  BY LifecycleAssumption DEF LifecycleAssumption, Time, Service

LEMMA FaultT == ASSUME Types, Fault PROVE faults' \in 0..MaxEvents
<1>1. plans \in Nat /\ faults \in Nat /\ MaxEvents \in Nat
  BY LifecycleAssumption DEF LifecycleAssumption, Types, PlansT, HistoryT, Plans
<1> QED
  BY <1>1 DEF Fault

\* A row that nobody executes is inserted or changed; rows do not vanish.
LEMMA RowSet ==
  ASSUME RowT, HandlerT, NEW k \in Keys, NEW r \in TaskRow, r.status # "none", handler[k].pc = "idle",
         row' = [row EXCEPT ![k] = r], UNCHANGED <<handler, lock>>
  PROVE  RowT' /\ HandlerT'
<1>1. RowT' /\ \A j \in Keys : row'[j] = IF j = k THEN r ELSE row[j]
  BY DEF RowT
<1> QED
  BY <1>1 DEF HandlerT
-----------------------------------------------------------------------------
(* Requests of the user.                                                   *)

LEMMA ManualStep == ASSUME Inv, scheduleManualDestroy PROVE Inv'
<1> USE DEF Inv, Types
<1> DEFINE reason == IF ins.status = "deployment_failed" THEN "deployment_failed" ELSE "manual"
           e == [key |-> <<"manual", plans + 1>>, after |-> now + Grace]
<1>1. /\ ins' = Planned(reason, now + Grace, Restored) /\ NewPlan
      /\ todo' = todo \cup {e} /\ ins.status \in {"running", "stopped", "deployment_failed"}
      /\ UNCHANGED <<now, order, container, data, late, row, lock, handler, cancelling, expiring, clearing, faults, asked>>
  BY DEF scheduleManualDestroy, node, pass, history
<1>2. plans + 1 \in Plans
  BY <1>1, LifecycleAssumption DEF NewPlan, LifecycleAssumption, PlansT, Plans
<1>3. ins' \in InstanceRow /\ ins'.plan = plans + 1 /\ ins'.expiresAt = ins.expiresAt
  <2>1. reason \in Reasons /\ now + Grace \in Time /\ Restored \in Runtime
    BY TimeT, RestoredT DEF Reasons, Runtime
  <2> HIDE DEF reason
  <2> QED
    BY <1>1, <1>2, <2>1, PlannedRow
<1>4. e \in [key : Keys, after : Time] /\ \A p \in Plans : e.key # DestroyKey(p)
  BY <1>2, TimeT DEF Keys, DestroyKey
<1> HIDE DEF e
<1>5. Types'
  BY <1>1, <1>2, <1>3, <1>4 DEF InsT, Scheduled, RowT, TodoT, PlansT, OrderT, NodeT, PassT, HistoryT, HandlerT, NewPlan
<1>6. \A p \in Plans : Known(p)' => Known(p)
  BY <1>1, <1>4 DEF Known
<1> QED
  BY <1>1, <1>3, <1>5, <1>6, PlanStep DEF Scheduled

LEMMA ChecksStep == ASSUME Inv, CancelChecks PROVE Inv'
<1> USE DEF Inv, Types
<1>1. UNCHANGED <<now, ins, order, plans, container, data, late, row, todo, lock, handler, expiring, faults, asked>>
  BY DEF CancelChecks, node, queue, history
<1>2. PassT'
  BY RestoredT DEF CancelChecks, PassT
<1>3. Types'
  BY <1>1, <1>2 DEF InsT, Scheduled, RowT, TodoT, PlansT, OrderT, NodeT, PassT, HistoryT, HandlerT
<1> QED
  BY <1>1, <1>3, Frame DEF Known, Scheduled

LEMMA CancelStep == ASSUME Inv, cancelManualDestroy PROVE Inv'
<1> USE DEF Inv, Types
<1>1. /\ cancelling \in {"running", "stopped"} /\ cancelling' = "no"
      /\ UNCHANGED <<now, order, plans, container, data, late, todo, lock, expiring, clearing, faults>>
  BY DEF cancelManualDestroy, node, PassT
<1>2. CASE UNCHANGED <<ins, row, handler, asked>>
  <2>1. Types'
    BY <1>1, <1>2 DEF InsT, Scheduled, RowT, TodoT, PlansT, OrderT, NodeT, PassT, HistoryT, HandlerT
  <2> QED
    BY <1>1, <1>2, <2>1, Frame DEF Known, Scheduled
<1>3. CASE /\ Scheduled /\ ins' = Withdrawn(cancelling)
           /\ row' = [k \in Keys |-> IF k \in Deferred THEN [row[k] EXCEPT !.status = "cancelled"] ELSE row[k]]
           /\ handler' = [k \in Keys |-> [handler[k] EXCEPT !.raced = @ \/ DestroyUnderWay(k)]]
           /\ asked' = FALSE
  <2>1. /\ ins' \in InstanceRow /\ ins'.status \in {"running", "stopped"} /\ ins'.plan = 0
        /\ ins'.expiresAt = ins.expiresAt
    BY <1>1, <1>3, WithdrawnRow
  <2>2. RowT' /\ \A k \in Keys : row'[k].status # "none" <=> row[k].status # "none"
    BY <1>3 DEF RowT, TaskRow, Deferred
  <2>3. \A k \in Keys : row[k].status = "running" => row'[k] = row[k]
    BY <1>3 DEF Deferred
  <2>4. \A k \in Keys : /\ handler'[k] \in HandlerRow /\ handler'[k].pc = handler[k].pc
                        /\ handler'[k].seen = handler[k].seen
                        /\ DestroyUnderWay(k) => handler'[k].raced
    BY <1>3 DEF HandlerT, HandlerRow
  <2>5. HandlerT'
    BY <1>1, <1>3, <2>3, <2>4 DEF HandlerT
  <2>6. Types'
    BY <1>1, <1>3, <2>1, <2>2, <2>5 DEF InsT, Scheduled, TodoT, PlansT, OrderT, NodeT, PassT, HistoryT
  <2>7. \A p \in Plans : Known(p)' => Known(p)
    BY <1>1, <2>2, DestroyKeyT DEF Known
  <2>8. ~ PurgeEligible
    BY <1>3 DEF PurgeEligible, PurgeDue, Scheduled
  <2>9. Starting'
    BY <2>4 DEF Starting
  <2> QED
    BY <1>1, <2>1, <2>4, <2>6, <2>7, <2>8, <2>9, PurgeKeyT, WithdrawStep DEF DestroyUnderWay
<1> QED
  BY <1>2, <1>3 DEF cancelManualDestroy

LEMMA ImmediateStep == ASSUME Inv, queueImmediateDestroy PROVE Inv'
<1> USE DEF Inv, Types
<1> DEFINE e == [key |-> DestroyKey(ins.plan), after |-> 0]
           r == [ins EXCEPT !.reason = IF ins.reason = "manual" THEN "user_no_refund" ELSE ins.reason]
<1>1. /\ Scheduled /\ ins' = r /\ todo' = todo \cup {e} /\ asked' = TRUE
      /\ UNCHANGED <<now, order, plans, container, data, late, row, lock, handler, cancelling, expiring, clearing, faults>>
  BY DEF queueImmediateDestroy, node, pass, DestroyKey
<1>2. ins.plan \in Plans
  BY <1>1 DEF InsT
<1>3. /\ r \in InstanceRow /\ r.status = ins.status /\ r.plan = ins.plan /\ r.destroyAt = ins.destroyAt
      /\ r.purgeAt = ins.purgeAt /\ r.expiresAt = ins.expiresAt
  BY DEF InsT, InstanceRow, Reasons
<1>4. e \in [key : Keys, after : Time] /\ e.key = DestroyKey(ins.plan)
  BY <1>2, TimeT, DestroyKeyT
<1> HIDE DEF e, r
<1>5. Types'
  BY <1>1, <1>3, <1>4 DEF InsT, Scheduled, RowT, TodoT, PlansT, OrderT, NodeT, PassT, HistoryT, HandlerT
<1>6. \A p \in Plans : Known(p)' => Known(p) \/ p = ins.plan
  BY <1>1, <1>4 DEF Known, DestroyKey
<1>7. Fresh'
  BY <1>1, <1>3, <1>6 DEF Fresh
<1>8. Timely'
  BY <1>1 DEF Timely, Due
<1>9. Starting' /\ Destroying' /\ Purging'
  BY <1>1, <1>3 DEF Starting, Destroying, InForce, Purging, Scheduled, PurgeEligible, PurgeDue, OrderInForce
<1> QED
  BY <1>5, <1>7, <1>8, <1>9

LEMMA ArchiveStep == ASSUME Inv, archiveDestroyedInstance PROVE Inv'
<1> USE DEF Inv, Types
<1> DEFINE r == [ins EXCEPT !.archived = TRUE]
<1>1. /\ ins' = r
      /\ UNCHANGED <<now, order, plans, container, data, late, row, todo, lock, handler, cancelling, expiring, clearing, faults, asked>>
  BY DEF archiveDestroyedInstance, node, queue, pass, history
<1>2. /\ r \in InstanceRow /\ r.status = ins.status /\ r.plan = ins.plan /\ r.destroyAt = ins.destroyAt
      /\ r.purgeAt = ins.purgeAt /\ r.expiresAt = ins.expiresAt
  BY DEF InsT, InstanceRow
<1> HIDE DEF r
<1>3. Types'
  BY <1>1, <1>2 DEF InsT, Scheduled, RowT, TodoT, PlansT, OrderT, NodeT, PassT, HistoryT, HandlerT
<1> QED
  BY <1>1, <1>2, <1>3, Frame DEF Known, Scheduled

LEMMA NewRowT == \A t \in Time : [status |-> "pending", attempts |-> 0, after |-> t] \in TaskRow
  BY LifecycleAssumption DEF LifecycleAssumption, TaskRow

LEMMA RenewStep == ASSUME Inv, renewWithWallet PROVE Inv'
<1> USE DEF Inv, Types
<1> DEFINE base == IF ins.expiresAt > now THEN ins.expiresAt ELSE now
           x == Withdrawn(Restored)
           startKey == <<"start", ins.plan>>
           new == [status |-> "pending", attempts |-> 0, after |-> 0]
<1>1. /\ lock = NoKey /\ ins.expiresAt <= MaxNow /\ (InUse \/ ExpiredPlan)
      /\ ins' = [x EXCEPT !.expiresAt = base + Term] /\ order' = "active" /\ asked' = FALSE
      /\ UNCHANGED <<now, plans, container, data, late, todo, lock, handler, cancelling, expiring, clearing, faults>>
  BY DEF renewWithWallet, NoLifecycleTask, node, pass
<1>2. base \in 0..MaxNow
  BY <1>1, TimeT, LifecycleAssumption DEF InsT, Service, LifecycleAssumption
<1>3. base + Term \in Time /\ base + Term \in Service
  BY <1>2, TimeT
<1>4. x \in InstanceRow /\ x.status \in {"running", "stopped"} /\ x.plan = 0
  BY RestoredT, WithdrawnRow
<1> HIDE DEF x, base
<1>5. /\ ins' \in InstanceRow /\ ins'.status \in {"running", "stopped"} /\ ins'.plan = 0
      /\ ins'.expiresAt \in Service
  BY <1>1, <1>3, <1>4 DEF InstanceRow
<1>6. /\ RowT' /\ \A p \in Plans : row'[DestroyKey(p)] = row[DestroyKey(p)]
      /\ \A k \in Keys : handler[k].pc # "idle" => row'[k].status = "running"
  <2>1. CASE row' = row
    BY <2>1 DEF RowT, HandlerT
  <2>2. CASE ExpiredPlan /\ row' = [row EXCEPT ![startKey] = new]
    <3>1. startKey \in Keys /\ Action(startKey) = "start" /\ \A p \in Plans : startKey # DestroyKey(p)
      BY <2>2 DEF ExpiredPlan, InsT, Keys, DestroyKey, Action
    <3>2. new \in TaskRow
      BY NewRowT, TimeT
    <3>3. handler[startKey].pc = "idle"
      BY <3>1 DEF renewWithWallet, NoLifecycleTask, Live, HandlerT
    <3> HIDE DEF startKey, new
    <3> QED
      BY <2>2, <3>1, <3>2, <3>3, DestroyKeyT DEF RowT, HandlerT
  <2> QED
    BY <2>1, <2>2 DEF renewWithWallet
<1>7. Types'
  BY <1>1, <1>5, <1>6 DEF InsT, Scheduled, TodoT, PlansT, OrderT, NodeT, PassT, HistoryT, HandlerT
<1>8. \A p \in Plans : Known(p)' => Known(p)
  BY <1>1, <1>6 DEF Known
<1>9. ~ PurgeEligible
  BY <1>1 DEF InUse, ExpiredPlan, Scheduled, PurgeEligible, PurgeDue
<1>10. \A k \in Keys : lock' # k
  BY <1>1, NoKeyT
<1>11. Starting'
  BY <1>1 DEF Starting
<1> QED
  BY <1>1, <1>5, <1>7, <1>8, <1>9, <1>10, <1>11, WithdrawStep

LEMMA RefundStep == ASSUME Inv, refundOrder PROVE Inv'
<1> USE DEF Inv, Types
<1>1. /\ order' = "refunded"
      /\ UNCHANGED <<now, container, data, late, row, todo, lock, handler, cancelling, expiring, clearing, faults, asked>>
  BY DEF refundOrder, node, queue, pass, history
<1>2. CASE UNCHANGED <<ins, plans>>
  <2>1. Types'
    BY <1>1, <1>2 DEF InsT, Scheduled, RowT, TodoT, PlansT, OrderT, NodeT, PassT, HistoryT, HandlerT
  <2> QED
    BY <1>1, <1>2, <2>1, Frame DEF Known, Scheduled
<1>3. CASE InUse /\ NewPlan /\ ins' = [Planned("refund", now + Prepaid, Restored) EXCEPT !.expiresAt = now + Prepaid]
  <2> DEFINE x == Planned("refund", now + Prepaid, Restored)
  <2>1. plans + 1 \in Plans
    BY <1>3, LifecycleAssumption DEF NewPlan, LifecycleAssumption, PlansT, Plans
  <2>2. now + Prepaid \in Time /\ Restored \in Runtime /\ "refund" \in Reasons
    BY TimeT, RestoredT DEF Runtime, Reasons
  <2>6. now + Prepaid \in Service
    BY TimeT
  <2>3. x \in InstanceRow /\ x.plan = plans + 1
    BY <2>1, <2>2, PlannedRow
  <2> HIDE DEF x
  <2>4. ins' \in InstanceRow /\ ins'.plan = plans + 1 /\ ins'.expiresAt \in Service
    BY <1>3, <2>2, <2>3, <2>6 DEF InstanceRow, x
  <2>5. Types'
    BY <1>1, <1>3, <2>1, <2>4 DEF InsT, Scheduled, RowT, TodoT, PlansT, OrderT, NodeT, PassT, HistoryT, HandlerT, NewPlan
  <2> QED
    BY <1>1, <1>3, <2>4, <2>5, PlanStep DEF Scheduled, InUse, Known
<1> QED
  BY <1>2, <1>3 DEF refundOrder

LEMMA RequestCrashesStep == ASSUME Inv, NEW e \in todo, RequestCrashes(e) PROVE Inv'
<1> USE DEF Inv, Types
<1>1. /\ todo' = todo \ {e} /\ faults' \in 0..MaxEvents
      /\ UNCHANGED <<now, ins, order, plans, container, data, late, row, lock, handler, cancelling, expiring, clearing, asked>>
  BY FaultT DEF RequestCrashes, node, pass
<1>2. Types'
  BY <1>1 DEF InsT, Scheduled, RowT, TodoT, PlansT, OrderT, NodeT, PassT, HistoryT, HandlerT
<1> QED
  BY <1>1, <1>2, Frame DEF Known, Scheduled
-----------------------------------------------------------------------------
(* The control loop.                                                       *)

LEMMA ExpireStep == ASSUME Inv, ExpireInstance PROVE Inv'
<1> USE DEF Inv, Types
<1>1. /\ InUse /\ NewPlan /\ expiring \in {"running", "stopped"} /\ expiring' = "orders"
      /\ ins' = Planned("expired", ins.expiresAt + Grace, expiring)
      /\ UNCHANGED <<now, order, container, data, late, row, todo, lock, handler, cancelling, clearing, faults, asked>>
  BY DEF ExpireInstance, node, queue, history
<1>2. plans + 1 \in Plans
  BY <1>1, LifecycleAssumption DEF NewPlan, LifecycleAssumption, PlansT, Plans
<1>3. ins.expiresAt + Grace \in Time /\ "expired" \in Reasons /\ expiring \in Runtime
  BY <1>1, TimeT DEF InsT, Reasons, Runtime
<1>4. ins' \in InstanceRow /\ ins'.plan = plans + 1 /\ ins'.expiresAt = ins.expiresAt
  BY <1>1, <1>2, <1>3, PlannedRow
<1>5. Types'
  BY <1>1, <1>2, <1>4 DEF InsT, Scheduled, RowT, TodoT, PlansT, OrderT, NodeT, PassT, HistoryT, HandlerT, NewPlan
<1> QED
  BY <1>1, <1>4, <1>5, PlanStep DEF Scheduled, InUse, Known

LEMMA OrdersStep == ASSUME Inv, ExpiredSeen \/ ExpirySkipped \/ ExpireOrders \/ LoopCrashes PROVE Inv'
<1> USE DEF Inv, Types
<1>1. /\ expiring' \in {"no", "running", "stopped", "orders"}
      /\ order' \in {order, "expired"} /\ faults' \in 0..MaxEvents
      /\ UNCHANGED <<now, ins, plans, container, data, late, row, todo, lock, handler, cancelling, clearing, asked>>
  BY FaultT DEF ExpiredSeen, ExpirySkipped, ExpireOrders, LoopCrashes, InUse, node, queue, history, HistoryT
<1>2. Types'
  BY <1>1 DEF InsT, Scheduled, RowT, TodoT, PlansT, OrderT, NodeT, PassT, HistoryT, HandlerT
<1> QED
  BY <1>1, <1>2, Frame DEF Known, Scheduled

\* A row that is inserted for a key, or was there.
LEMMA Inserted ==
  ASSUME Types, NEW k \in Keys, NEW t \in Time, row' = InsertIgnore(k, t), UNCHANGED <<handler, lock>>
  PROVE  RowT' /\ HandlerT' /\ \A j \in Keys : j # k => row'[j] = row[j]
<1>1. CASE row' = row
  BY <1>1 DEF Types, RowT, HandlerT
<1>2. CASE row[k].status = "none" /\ row' = [row EXCEPT ![k] = [status |-> "pending", attempts |-> 0, after |-> t]]
  <2> DEFINE new == [status |-> "pending", attempts |-> 0, after |-> t]
  <2>1. new \in TaskRow /\ new.status # "none" /\ handler[k].pc = "idle"
    BY <1>2, NewRowT DEF Types, HandlerT
  <2> HIDE DEF new
  <2>2. row' = [row EXCEPT ![k] = new]
    BY <1>2 DEF new
  <2> QED
    BY <2>1, <2>2, RowSet DEF Types, RowT
<1> QED
  BY <1>1, <1>2 DEF InsertIgnore

LEMMA ScheduleStep == ASSUME Inv, scheduleLifecycleTask PROVE Inv'
<1> USE DEF Inv, Types
<1>1. UNCHANGED <<now, ins, order, plans, container, data, late, todo, lock, handler, cancelling, expiring, clearing, faults, asked>>
  BY DEF scheduleLifecycleTask, node, pass, history
<1>2. CASE PurgeDue /\ row' = InsertIgnore(PurgeKey, 0)
  <2>1. PurgeKey \in Keys /\ \A p \in Plans : DestroyKey(p) # PurgeKey
    BY PurgeKeyT
  <2>2. RowT' /\ HandlerT' /\ \A j \in Keys : j # PurgeKey => row'[j] = row[j]
    BY <1>1, <1>2, <2>1, Inserted, TimeT
  <2>3. Types'
    BY <1>1, <2>2 DEF InsT, Scheduled, TodoT, PlansT, OrderT, NodeT, PassT, HistoryT
  <2>4. \A p \in Plans : Known(p)' => Known(p)
    BY <1>1, <2>1, <2>2, DestroyKeyT DEF Known
  <2> QED
    BY <1>1, <2>3, <2>4, Frame DEF Scheduled
<1>3. CASE DestroyDue /\ row' = InsertIgnore(<<"destroy", ins.plan>>, 0)
  <2>1. ins.plan \in Plans
    BY <1>3 DEF DestroyDue, InsT
  <2>2. DestroyKey(ins.plan) \in Keys /\ row' = InsertIgnore(DestroyKey(ins.plan), 0)
    BY <1>3, <2>1, DestroyKeyT DEF DestroyKey
  <2>3. RowT' /\ HandlerT' /\ \A j \in Keys : j # DestroyKey(ins.plan) => row'[j] = row[j]
    BY <1>1, <2>2, Inserted, TimeT
  <2>4. Types'
    BY <1>1, <2>3 DEF InsT, Scheduled, TodoT, PlansT, OrderT, NodeT, PassT, HistoryT
  <2>5. \A p \in Plans : Known(p)' => Known(p) \/ p = ins.plan
    <3>1. \A p \in Plans : p # ins.plan => DestroyKey(p) # DestroyKey(ins.plan)
      BY DEF DestroyKey
    <3> QED
      BY <1>1, <2>3, <3>1, DestroyKeyT DEF Known
  <2>6. Due /\ Due'
    BY <1>1, <1>3 DEF Due, DestroyDue
  <2>7. Fresh' /\ Timely'
    BY <1>1, <2>5, <2>6 DEF Fresh, Timely
  <2>8. Starting' /\ Destroying' /\ Purging'
    BY <1>1 DEF Starting, Destroying, InForce, Purging, Scheduled, PurgeEligible, PurgeDue, OrderInForce
  <2> QED
    BY <2>4, <2>7, <2>8
<1> QED
  BY <1>2, <1>3 DEF scheduleLifecycleTask

LEMMA InsertStep == ASSUME Inv, NEW e \in todo, InsertTask(e) PROVE Inv'
<1> USE DEF Inv, Types
<1>1. /\ todo' = todo \ {e} /\ row' = InsertIgnore(e.key, e.after)
      /\ UNCHANGED <<now, ins, order, plans, container, data, late, lock, handler, cancelling, expiring, clearing, faults, asked>>
  BY DEF InsertTask, node, pass, history
<1>2. e.key \in Keys /\ e.after \in Time
  BY DEF TodoT
<1>3. RowT' /\ HandlerT' /\ \A j \in Keys : j # e.key => row'[j] = row[j]
  BY <1>1, <1>2, Inserted
<1>4. Types'
  BY <1>1, <1>3 DEF InsT, Scheduled, TodoT, PlansT, OrderT, NodeT, PassT, HistoryT
<1>5. \A p \in Plans : Known(p)' => Known(p)
  BY <1>1, <1>3, DestroyKeyT DEF Known
<1> QED
  BY <1>1, <1>4, <1>5, Frame DEF Scheduled

LEMMA SyncStep == ASSUME Inv, syncInstanceStates PROVE Inv'
<1> USE DEF Inv, Types
<1> DEFINE y == [ins EXCEPT !.runtime = container]
           z == [y EXCEPT !.status = IF Scheduled THEN ins.status ELSE container]
<1>1. /\ InUse \/ Scheduled
      /\ UNCHANGED <<now, order, plans, container, data, late, row, todo, lock, handler, cancelling, expiring, clearing, faults, asked>>
  BY DEF syncInstanceStates, node, queue, pass, history
<1>2. CASE ins' = [ins EXCEPT !.runtime = "missing"]
  <2>1. /\ ins' \in InstanceRow /\ ins'.status = ins.status /\ ins'.plan = ins.plan
        /\ ins'.destroyAt = ins.destroyAt /\ ins'.purgeAt = ins.purgeAt /\ ins'.expiresAt = ins.expiresAt
    BY <1>2 DEF InsT, InstanceRow, Runtime
  <2>2. Types'
    BY <1>1, <2>1 DEF InsT, Scheduled, RowT, TodoT, PlansT, OrderT, NodeT, PassT, HistoryT, HandlerT
  <2> QED
    BY <1>1, <2>1, <2>2, Frame DEF Known, Scheduled
<1>3. CASE ins' = z /\ container \in {"running", "stopped"}
  <2>1. y \in InstanceRow /\ y.status = ins.status /\ y.plan = ins.plan
        /\ y.destroyAt = ins.destroyAt /\ y.purgeAt = ins.purgeAt /\ y.expiresAt = ins.expiresAt
    BY <1>3 DEF InsT, InstanceRow, Runtime
  <2> HIDE DEF y
  <2>2. /\ ins' \in InstanceRow /\ ins'.status = (IF Scheduled THEN ins.status ELSE container)
        /\ ins'.plan = ins.plan
        /\ ins'.destroyAt = ins.destroyAt /\ ins'.purgeAt = ins.purgeAt /\ ins'.expiresAt = ins.expiresAt
    BY <1>3, <2>1 DEF InsT, InstanceRow, InstanceStatus
  <2>3. Scheduled' <=> Scheduled
    BY <1>3, <2>2 DEF Scheduled
  <2>4. Types'
    BY <1>1, <2>2, <2>3 DEF InsT, RowT, TodoT, PlansT, OrderT, NodeT, PassT, HistoryT, HandlerT
  <2>5. ins.status # "destroyed"
    BY <1>1 DEF InUse, Scheduled
  <2> QED
    BY <1>1, <2>2, <2>3, <2>4, <2>5, Frame DEF Known
<1>4. [ins EXCEPT !.runtime = container, !.status = IF Scheduled THEN ins.status ELSE container] = z
  OBVIOUS
<1> HIDE DEF z
<1> QED
  BY <1>2, <1>3, <1>4 DEF syncInstanceStates, NodeT
-----------------------------------------------------------------------------
(* The handler of a task.                                                  *)

LEMMA ClaimStep == ASSUME Inv, NEW k \in Keys, claimTask(k) PROVE Inv'
<1> USE DEF Inv, Types
<1> DEFINE n == IF row[k].attempts < MaxAttempts THEN row[k].attempts + 1 ELSE row[k].attempts
           r == [[row[k] EXCEPT !.status = "running"] EXCEPT !.attempts = n]
           h == [IdleHandler EXCEPT !.pc = "claimed"]
<1>1. /\ row[k].status = "pending" /\ row' = [row EXCEPT ![k] = r] /\ lock' = k
      /\ handler' = [handler EXCEPT ![k] = h]
      /\ UNCHANGED <<now, ins, order, plans, container, data, late, todo, cancelling, expiring, clearing, faults, asked>>
  BY DEF claimTask, node, pass, history
<1>2. n \in 0..MaxAttempts
  BY LifecycleAssumption DEF LifecycleAssumption, RowT, TaskRow
<1>3. r \in TaskRow /\ r.status = "running"
  BY <1>2 DEF RowT, TaskRow
<1>4. h \in HandlerRow /\ h.pc = "claimed"
  BY DEF IdleHandler, HandlerRow, InstanceStatus
<1> HIDE DEF r, h
<1>5. RowT' /\ row'[k].status = "running" /\ \A j \in Keys : j # k => row'[j] = row[j]
  BY <1>1, <1>3 DEF RowT
<1>6. HandlerT' /\ handler'[k].pc = "claimed" /\ \A j \in Keys : j # k => handler'[j] = handler[j]
  BY <1>1, <1>4, <1>5 DEF HandlerT
<1>7. Types'
  BY <1>1, <1>5, <1>6 DEF InsT, Scheduled, TodoT, PlansT, OrderT, NodeT, PassT, HistoryT
<1>8. \A p \in Plans : row'[DestroyKey(p)].status # "none" => row[DestroyKey(p)].status # "none"
  BY <1>1, <1>5, DestroyKeyT
<1> QED
  BY <1>1, <1>6, <1>7, <1>8, HandlerStep

\* A handler that goes on with its task.
LEMMA HandlerMoves ==
  ASSUME Types, NEW k \in Keys, NEW pc \in {"claimed", "ready", "called", "done", "ok", "error"}, Reach(k, pc),
         handler[k].pc # "idle", UNCHANGED <<row, lock>>
  PROVE  /\ HandlerT' /\ handler'[k].pc = pc
         /\ handler'[k].raced = handler[k].raced /\ handler'[k].seen = handler[k].seen
         /\ \A j \in Keys : j # k => handler'[j] = handler[j]
<1> DEFINE h == [handler[k] EXCEPT !.pc = pc]
<1>1. h \in HandlerRow /\ h.pc = pc /\ h.raced = handler[k].raced /\ h.seen = handler[k].seen
  BY DEF Types, HandlerT, HandlerRow
<1>2. handler' = [handler EXCEPT ![k] = h]
  BY DEF Reach
<1> HIDE DEF h
<1> QED
  BY <1>1, <1>2 DEF Types, HandlerT

LEMMA ExecuteStep == ASSUME Inv, NEW k \in Keys, executeTask(k) PROVE Inv'
<1> USE DEF Inv, Types
<1> DEFINE seen == IF Action(k) = "start" THEN ins.status ELSE "none"
           pc == IF ~ Fenced(k) THEN "error"
                 ELSE IF ~ ToDo(k) THEN "ok"
                 ELSE IF Action(k) = "start" THEN "called" ELSE "ready"
           h == [[handler[k] EXCEPT !.seen = seen] EXCEPT !.pc = pc]
<1>1. /\ handler[k].pc = "claimed" /\ handler' = [handler EXCEPT ![k] = h]
      /\ UNCHANGED <<now, ins, order, plans, container, data, late, row, todo, lock, cancelling, expiring, clearing, faults, asked>>
  <2>1. handler' = [[handler EXCEPT ![k] = [handler[k] EXCEPT !.seen = seen]] EXCEPT ![k] = [@ EXCEPT !.pc = pc]]
    BY DEF executeTask
  <2> HIDE DEF seen, pc
  <2>2. handler' = [handler EXCEPT ![k] = [[handler[k] EXCEPT !.seen = seen] EXCEPT !.pc = pc]]
    BY <2>1 DEF HandlerT
  <2> QED
    BY <2>2 DEF executeTask, node, pass, history
<1>2. row[k].status # "none"
  BY <1>1 DEF HandlerT
<1>3. seen \in InstanceStatus /\ pc \in {"error", "ok", "called", "ready"}
  BY DEF InsT, InstanceRow, InstanceStatus
<1>4. h \in HandlerRow /\ h.pc = pc /\ h.seen = seen
  <2> HIDE DEF seen, pc
  <2>1. handler[k] \in HandlerRow
    BY DEF HandlerT
  <2> QED
    BY <1>3, <2>1 DEF HandlerRow
<1> HIDE DEF h
<1>5. HandlerT' /\ handler'[k] = h /\ \A j \in Keys : j # k => handler'[j] = handler[j]
  BY <1>1, <1>4 DEF HandlerT
<1>6. Types'
  BY <1>1, <1>5 DEF InsT, Scheduled, RowT, TodoT, PlansT, OrderT, NodeT, PassT, HistoryT
<1>7. ASSUME pc \in {"ready", "called"}, Action(k) = "destroy"
      PROVE  InForce(k)
  <2>1. Fenced(k) /\ ToDo(k)
    BY <1>7
  <2>2. KeyMatches(k)
    BY <1>7, <2>1 DEF ToDo
  <2>3. Scheduled
    BY <1>7, <2>1 DEF Fenced, ExpectedStates, Scheduled
  <2>4. k[2] \in Plans /\ k = DestroyKey(k[2]) /\ ins.plan = k[2]
    BY <2>2, KeyActions DEF KeyMatches
  <2>5. Known(k[2])
    BY <1>2, <2>4 DEF Known
  <2> QED
    BY <2>3, <2>4, <2>5 DEF Timely, Due, InForce
<1>8. ASSUME pc \in {"ready", "called", "done"}, Action(k) = "purge"
      PROVE  PurgeEligible
  BY <1>8 DEF ToDo
<1>9. ASSUME pc \in {"ready", "called", "done"}, Action(k) = "start"
      PROVE  seen # "destroyed"
  BY <1>9 DEF Fenced, ExpectedStates
<1>10. pc # "done"
  BY <1>3
<1> HIDE DEF pc, seen
<1> QED
  BY <1>1, <1>4, <1>5, <1>6, <1>7, <1>8, <1>9, <1>10, PurgeKeyT, HandlerStep

LEMMA FenceStep == ASSUME Inv, NEW k \in Keys, taskMayCallAgent(k) PROVE Inv'
<1> USE DEF Inv, Types
<1>1. /\ handler[k].pc = "ready"
      /\ UNCHANGED <<now, ins, order, plans, container, data, late, row, todo, lock, cancelling, expiring, clearing, faults, asked>>
  BY DEF taskMayCallAgent, node, pass, history
<1>2. PICK pc \in {"called", "error"} : Reach(k, pc) /\ (pc = "called" => Fenced(k))
  BY DEF taskMayCallAgent
<1>3. /\ HandlerT' /\ handler'[k].pc = pc
      /\ handler'[k].raced = handler[k].raced /\ handler'[k].seen = handler[k].seen
      /\ \A j \in Keys : j # k => handler'[j] = handler[j]
  BY <1>1, <1>2, HandlerMoves
<1>4. Types'
  BY <1>1, <1>3 DEF InsT, Scheduled, RowT, TodoT, PlansT, OrderT, NodeT, PassT, HistoryT
<1>5. Action(k) = "start" /\ pc = "called" => handler[k].seen # "destroyed"
  BY <1>1 DEF Starting
<1>6. k = PurgeKey => PurgeEligible
  BY <1>1 DEF Purging
<1>7. Action(k) = "destroy" /\ lock = k => handler[k].raced \/ InForce(k)
  BY <1>1 DEF Destroying
<1> QED
  BY <1>1, <1>3, <1>4, <1>5, <1>6, <1>7, HandlerStep

LEMMA EffectT ==
  ASSUME Types, NEW k \in Keys, Effect(k)
  PROVE  /\ container' \in {"running", "stopped", "absent"} /\ data' \in BOOLEAN /\ (data' => data)
         /\ k = PurgeKey => ~ data'
  BY PurgeKeyT DEF Effect, Types, NodeT

LEMMA AgentStep == ASSUME Inv, NEW k \in Keys, Agent(k) PROVE Inv'
<1> USE DEF Inv, Types
<1>1. /\ handler[k].pc = "called" /\ faults' \in 0..MaxEvents
      /\ UNCHANGED <<now, ins, order, plans, row, todo, lock, cancelling, expiring, clearing, asked>>
  BY FaultT DEF Agent, AgentDoes, AgentFails, pass, history, HistoryT
<1>2. PICK pc \in {"done", "error"} : Reach(k, pc) /\ (pc = "done" => Effect(k))
  BY DEF Agent, AgentDoes, AgentFails
<1>3. (Effect(k) /\ late' = late) \/ Abandoned(k)
  BY DEF Agent, AgentDoes, AgentFails
<1>4. NodeT' /\ (data' => data) /\ (pc = "done" /\ k = PurgeKey => ~ data') /\ late' \subseteq late \cup {k}
  BY <1>2, <1>3, EffectT DEF Abandoned, NodeT
<1>5. /\ HandlerT' /\ handler'[k].pc = pc
      /\ handler'[k].raced = handler[k].raced /\ handler'[k].seen = handler[k].seen
      /\ \A j \in Keys : j # k => handler'[j] = handler[j]
  BY <1>1, <1>2, HandlerMoves
<1>6. Types'
  BY <1>1, <1>4, <1>5 DEF InsT, Scheduled, RowT, TodoT, PlansT, OrderT, PassT, HistoryT
<1>7. (Action(k) = "start" => handler[k].seen # "destroyed") /\ (k = PurgeKey => PurgeEligible)
  BY <1>1 DEF Starting, Purging
<1> QED
  BY <1>1, <1>4, <1>5, <1>6, <1>7, HandlerStep

LEMMA LateStep == ASSUME Inv, NEW k \in Keys, LateEffect(k) PROVE Inv'
<1> USE DEF Inv, Types
<1>1. /\ late' \subseteq late /\ Effect(k)
      /\ UNCHANGED <<now, ins, order, plans, row, todo, lock, handler, cancelling, expiring, clearing, faults, asked>>
  BY DEF LateEffect, queue, pass, history
<1>2. NodeT' /\ (data' => data)
  BY <1>1, EffectT DEF NodeT
<1>3. Types'
  BY <1>1, <1>2 DEF InsT, Scheduled, RowT, TodoT, PlansT, OrderT, PassT, HistoryT, HandlerT
<1> QED
  BY <1>1, <1>2, <1>3, Frame DEF Known, Scheduled

LEMMA CommitDestroyStep ==
  ASSUME Inv, NEW k \in Keys, handler[k].pc = "done", CommitDestroy(k),
         UNCHANGED <<now, order, plans, container, data, late, row, todo, lock, cancelling, expiring, clearing, faults>>
  PROVE  Inv'
<1> USE DEF Inv, Types
<1> DEFINE r == [[[ins EXCEPT !.status = "destroyed"] EXCEPT !.runtime = "stopped"] EXCEPT !.purgeAt = now + Retention]
<1>2. PICK pc \in {"ok", "error"} : Reach(k, pc)
  BY DEF CommitDestroy
<1>3. /\ HandlerT' /\ handler'[k].pc = pc /\ \A j \in Keys : j # k => handler'[j] = handler[j]
  BY <1>2, HandlerMoves
<1>4. CASE UNCHANGED <<ins, asked>>
  <2>1. Types'
    BY <1>3, <1>4 DEF InsT, Scheduled, RowT, TodoT, PlansT, OrderT, NodeT, PassT, HistoryT
  <2> QED
    BY <1>3, <1>4, <2>1, HandlerStep
<1>5. CASE Scheduled /\ lock = k /\ ins' = r /\ asked' = FALSE
  <2>1. r \in InstanceRow /\ r.status = "destroyed" /\ r.plan = ins.plan /\ r.expiresAt = ins.expiresAt
    BY TimeT DEF InsT, InstanceRow, InstanceStatus, Runtime
  <2> HIDE DEF r
  <2>2. Types'
    BY <1>3, <1>5, <2>1 DEF InsT, Scheduled, RowT, TodoT, PlansT, OrderT, NodeT, PassT, HistoryT
  <2>3. Fresh' /\ Timely'
    BY <1>5, <2>1 DEF Fresh, Timely, Known, Scheduled
  <2>4. Starting' /\ Destroying'
    BY <1>3, <1>5 DEF Starting, Destroying
  <2>5. ~ PurgeEligible
    BY <1>5 DEF PurgeEligible, PurgeDue, Scheduled
  <2>6. Purging'
    BY <1>3, <2>5, PurgeKeyT DEF Purging
  <2> QED
    BY <2>2, <2>3, <2>4, <2>6
<1>6. [ins EXCEPT !.status = "destroyed", !.runtime = "stopped", !.purgeAt = now + Retention] = r
  OBVIOUS
<1> HIDE DEF r
<1> QED
  BY <1>4, <1>5, <1>6 DEF CommitDestroy

LEMMA CommitPurgeStep ==
  ASSUME Inv, NEW k \in Keys, Action(k) = "purge", handler[k].pc = "done", CommitPurge(k),
         UNCHANGED <<now, order, plans, container, data, late, row, todo, lock, cancelling, expiring, clearing, faults>>
  PROVE  Inv'
<1> USE DEF Inv, Types
<1> DEFINE r == [[ins EXCEPT !.status = "purged"] EXCEPT !.archived = TRUE]
<1>1. k = PurgeKey /\ ~ data
  BY KeyActions DEF Purging
<1>2. PICK pc \in {"ok", "error"} : Reach(k, pc)
  BY DEF CommitPurge
<1>3. /\ HandlerT' /\ handler'[k].pc = pc /\ \A j \in Keys : j # k => handler'[j] = handler[j]
  BY <1>2, HandlerMoves
<1>4. CASE UNCHANGED <<ins, asked>>
  <2>1. Types'
    BY <1>3, <1>4 DEF InsT, Scheduled, RowT, TodoT, PlansT, OrderT, NodeT, PassT, HistoryT
  <2> QED
    BY <1>3, <1>4, <2>1, HandlerStep
<1>5. CASE PurgeEligible /\ lock = k /\ ins' = r /\ asked' = asked
  <2>1. r \in InstanceRow /\ r.status = "purged" /\ r.plan = ins.plan /\ r.expiresAt = ins.expiresAt
    BY DEF InsT, InstanceRow, InstanceStatus
  <2> HIDE DEF r
  <2>2. Types'
    BY <1>3, <1>5, <2>1 DEF InsT, Scheduled, RowT, TodoT, PlansT, OrderT, NodeT, PassT, HistoryT
  <2>3. Fresh' /\ Timely'
    BY <1>5, <2>1 DEF Fresh, Timely, Known, Scheduled
  <2>4. Starting' /\ Destroying'
    BY <1>1, <1>3, <1>5, PurgeKeyT DEF Starting, Destroying
  <2>5. Purging'
    BY <1>1, <1>3 DEF Purging
  <2> QED
    BY <2>2, <2>3, <2>4, <2>5
<1> QED
  BY <1>4, <1>5 DEF CommitPurge

LEMMA CommitStartStep ==
  ASSUME Inv, NEW k \in Keys, Action(k) = "start", handler[k].pc = "done", CommitStart(k),
         UNCHANGED <<now, order, plans, container, data, late, row, todo, lock, cancelling, expiring, clearing, faults>>
  PROVE  Inv'
<1> USE DEF Inv, Types
<1> DEFINE status == IF Scheduled THEN ins.status ELSE "running"
           r == [[ins EXCEPT !.runtime = "running"] EXCEPT !.status = status]
<1>1. asked' = asked /\ k # PurgeKey
  BY PurgeKeyT DEF CommitStart
<1>2. PICK pc \in {"ok", "error"} : Reach(k, pc)
  BY DEF CommitStart
<1>3. /\ HandlerT' /\ handler'[k].pc = pc /\ \A j \in Keys : j # k => handler'[j] = handler[j]
  BY <1>2, HandlerMoves
<1>4. CASE ins' = ins
  <2>1. Types'
    BY <1>1, <1>3, <1>4 DEF InsT, Scheduled, RowT, TodoT, PlansT, OrderT, NodeT, PassT, HistoryT
  <2> QED
    BY <1>1, <1>3, <1>4, <2>1, HandlerStep
<1>5. CASE ins.status = handler[k].seen /\ ins' = r
  <2>1. status \in InstanceStatus
    BY DEF InsT, InstanceRow, InstanceStatus
  <2>2. /\ r \in InstanceRow /\ r.status = status /\ r.plan = ins.plan /\ r.destroyAt = ins.destroyAt
        /\ r.expiresAt = ins.expiresAt
    BY <2>1 DEF InsT, InstanceRow, Runtime
  <2> HIDE DEF r
  <2>3. Scheduled' <=> Scheduled
    BY <1>5, <2>2 DEF Scheduled
  <2>4. Types'
    BY <1>1, <1>3, <1>5, <2>2, <2>3 DEF InsT, RowT, TodoT, PlansT, OrderT, NodeT, PassT, HistoryT
  <2>5. Fresh' /\ Timely'
    BY <1>1, <1>5, <2>2, <2>3 DEF Fresh, Timely, Known, Due
  <2>6. Starting'
    BY <1>3 DEF Starting
  <2>7. \A j \in Keys : InForce(j) => InForce(j)'
    BY <1>1, <1>5, <2>2, <2>3 DEF InForce
  <2>8. Destroying'
    BY <1>3, <2>7 DEF Destroying
  <2>9. ~ PurgeEligible
    BY <1>5 DEF PurgeEligible, PurgeDue, Starting
  <2>10. Purging'
    BY <1>1, <1>3, <2>9, PurgeKeyT DEF Purging
  <2> QED
    BY <2>4, <2>5, <2>6, <2>8, <2>10
<1>6. [ins EXCEPT !.runtime = "running", !.status = status] = r
  OBVIOUS
<1> HIDE DEF r
<1> QED
  BY <1>4, <1>5, <1>6 DEF CommitStart

LEMMA CommitStep == ASSUME Inv, NEW k \in Keys, CommitResult(k) PROVE Inv'
<1>1. /\ handler[k].pc = "done"
      /\ UNCHANGED <<now, order, plans, container, data, late, row, todo, lock, cancelling, expiring, clearing, faults>>
  BY DEF CommitResult, node, pass
<1>2. Action(k) \in {"destroy", "purge", "start"}
  BY KeyActions
<1>3. \/ CommitDestroy(k)
      \/ Action(k) = "purge" /\ CommitPurge(k)
      \/ Action(k) = "start" /\ CommitStart(k)
  BY <1>2 DEF CommitResult
<1> QED
  BY <1>1, <1>3, CommitDestroyStep, CommitPurgeStep, CommitStartStep

LEMMA IdleT == IdleHandler \in HandlerRow /\ IdleHandler.pc = "idle"
  BY DEF IdleHandler, HandlerRow, InstanceStatus

\* A row of a task that exists gets another status.
LEMMA StatusSet ==
  ASSUME RowT, NEW k \in Keys, NEW r \in TaskRow, row[k].status # "none", row' = [row EXCEPT ![k] = r]
  PROVE  /\ RowT' /\ \A j \in Keys : j # k => row'[j] = row[j]
         /\ row'[k] = r
         /\ \A p \in Plans : row'[DestroyKey(p)].status # "none" => row[DestroyKey(p)].status # "none"
  BY DestroyKeyT DEF RowT

LEMMA FinishStep == ASSUME Inv, NEW k \in Keys, finishTask(k) PROVE Inv'
<1> USE DEF Inv, Types
<1> DEFINE r == [row[k] EXCEPT !.status = FinishStatus(k)]
<1>1. /\ handler[k].pc \in {"ok", "error"} /\ row' = [row EXCEPT ![k] = r]
      /\ lock' \in {lock, NoKey} /\ handler' = [handler EXCEPT ![k] = IdleHandler]
      /\ UNCHANGED <<now, ins, order, plans, container, data, late, todo, cancelling, expiring, clearing, faults, asked>>
  BY DEF finishTask, node, pass, history
<1>2. row[k].status # "none"
  BY <1>1 DEF HandlerT
<1>3. r \in TaskRow
  BY <1>2 DEF FinishStatus, RowT, TaskRow
<1> HIDE DEF r
<1>4. /\ RowT' /\ \A j \in Keys : j # k => row'[j] = row[j]
      /\ \A p \in Plans : row'[DestroyKey(p)].status # "none" => row[DestroyKey(p)].status # "none"
  BY <1>1, <1>2, <1>3, StatusSet
<1>5. /\ HandlerT' /\ handler'[k].pc = "idle" /\ \A j \in Keys : j # k => handler'[j] = handler[j]
  BY <1>1, <1>4, IdleT DEF HandlerT
<1>6. Types'
  BY <1>1, <1>4, <1>5 DEF InsT, Scheduled, TodoT, PlansT, OrderT, NodeT, PassT, HistoryT
<1> QED
  BY <1>1, <1>4, <1>5, <1>6, NoKeyT, HandlerStep

LEMMA CrashStep == ASSUME Inv, NEW k \in Keys, HandlerCrashes(k) PROVE Inv'
<1> USE DEF Inv, Types
<1>1. /\ handler' = [handler EXCEPT ![k] = IdleHandler] /\ faults' \in 0..MaxEvents
      /\ UNCHANGED <<now, ins, order, plans, container, data, row, todo, lock, cancelling, expiring, clearing, asked>>
      /\ late' = late \/ (handler[k].pc = "called" /\ late' = late \cup {k})
  BY FaultT DEF HandlerCrashes, Abandoned, node, pass, HistoryT
<1>2. HandlerT' /\ handler'[k].pc = "idle" /\ \A j \in Keys : j # k => handler'[j] = handler[j]
  BY <1>1, IdleT DEF HandlerT
<1>3. Types'
  BY <1>1, <1>2 DEF InsT, Scheduled, RowT, TodoT, PlansT, OrderT, NodeT, PassT, HistoryT
<1>4. PurgeKey \in late' => PurgeKey \in late \/ PurgeEligible
  BY <1>1 DEF Purging
<1> QED
  BY <1>1, <1>2, <1>3, <1>4, HandlerStep

\* The lease runs out, or an administrator clears the lock of a live handler.
LEMMA LockStep == ASSUME Inv, LeaseExpires \/ \E k \in Keys : ClearLock(k) PROVE Inv'
<1> USE DEF Inv, Types
<1>1. /\ lock' \in {lock, NoKey} /\ clearing' \in {clearing, NoKey}
      /\ UNCHANGED <<now, ins, order, plans, container, data, late, row, todo, handler, cancelling, expiring, faults, asked>>
  BY DEF LeaseExpires, ClearLock, node, pass, history
<1>2. Types'
  BY <1>1 DEF InsT, Scheduled, RowT, TodoT, PlansT, OrderT, NodeT, PassT, HistoryT, HandlerT
<1> QED
  BY <1>1, <1>2, Frame DEF Known, Scheduled

\* The loop and the administrators change the status of a row.
LEMMA RowStep ==
  ASSUME Inv, NEW k \in Keys, NEW r \in TaskRow, row[k].status # "none", r.status # "none",
         handler[k].pc = "idle", row' = [row EXCEPT ![k] = r], clearing' \in Keys \cup {NoKey},
         UNCHANGED <<now, ins, order, plans, container, data, late, todo, lock, handler, cancelling, expiring, faults, asked>>
  PROVE  Inv'
<1> USE DEF Inv, Types
<1>1. RowT' /\ HandlerT'
  BY RowSet
<1>2. \A p \in Plans : Known(p)' => Known(p)
  BY StatusSet DEF Known
<1>3. Types'
  BY <1>1 DEF InsT, Scheduled, TodoT, PlansT, OrderT, NodeT, PassT, HistoryT
<1> QED
  BY <1>2, <1>3, Frame DEF Scheduled

LEMMA RowStatusT ==
  ASSUME RowT, NEW k \in Keys,
         NEW s \in {"pending", "running", "succeeded", "failed", "needs_review", "cancelled", "discarded"}
  PROVE  /\ [row[k] EXCEPT !.status = s] \in TaskRow /\ [row[k] EXCEPT !.status = s].status # "none"
  BY DEF RowT, TaskRow

LEMMA RecoverStep == ASSUME Inv, NEW k \in Keys, RecoverLease(k) \/ Quarantine(k) PROVE Inv'
<1>1. /\ row[k].status # "none" /\ handler[k].pc = "idle"
      /\ UNCHANGED <<now, ins, order, plans, container, data, late, todo, lock, handler, cancelling, expiring, clearing, faults, asked>>
  BY DEF RecoverLease, Quarantine, node, pass, history, Inv, Types, HandlerT
<1>2. PICK s \in {"pending", "needs_review"} : row' = [row EXCEPT ![k] = [row[k] EXCEPT !.status = s]]
  BY DEF RecoverLease, Quarantine
<1> QED
  BY <1>1, <1>2, RowStatusT, RowStep DEF Inv, Types, PassT

LEMMA AdministratorStep == ASSUME Inv, NEW k \in Keys, Administrator(k) PROVE Inv'
<1>1. PICK r : /\ row[k].status \in {"failed", "needs_review"} /\ row' = [row EXCEPT ![k] = r]
               /\ clearing' \in {clearing, k}
               /\ UNCHANGED <<now, ins, order, plans, container, data, late, todo, lock, handler, cancelling, expiring, faults, asked>>
               /\ \/ r = [[row[k] EXCEPT !.status = "pending"] EXCEPT !.after = 0]
                  \/ r = [status |-> "pending", attempts |-> 0, after |-> 0]
                  \/ r = [row[k] EXCEPT !.status = "discarded"]
                  \/ r = [row[k] EXCEPT !.status = "failed"]
  BY DEF Administrator, resumeReviewTask, retryTask, discardReviewTask, discardAllAdminTasks, Administer, node, history
<1>2. r \in TaskRow /\ r.status # "none"
  <2>1. row[k] \in TaskRow /\ 0 \in Time
    BY TimeT DEF Inv, Types, RowT
  <2>2. CASE r = [[row[k] EXCEPT !.status = "pending"] EXCEPT !.after = 0]
    BY <2>1, <2>2 DEF TaskRow
  <2>3. CASE r = [status |-> "pending", attempts |-> 0, after |-> 0]
    BY <2>1, <2>3, NewRowT
  <2>4. CASE r = [row[k] EXCEPT !.status = "discarded"] \/ r = [row[k] EXCEPT !.status = "failed"]
    BY <2>4, RowStatusT DEF Inv, Types
  <2> QED
    BY <1>1, <2>2, <2>3, <2>4
<1>3. handler[k].pc = "idle" /\ clearing' \in Keys \cup {NoKey}
  BY <1>1 DEF Inv, Types, HandlerT, PassT
<1> QED
  BY <1>1, <1>2, <1>3, RowStep

LEMMA TickStep == ASSUME Inv, Tick PROVE Inv'
<1> USE DEF Inv, Types
<1>1. /\ now' = now + 1 /\ now < MaxNow /\ late' = {} /\ \A k \in Keys : handler[k].pc = "idle"
      /\ UNCHANGED <<ins, order, plans, container, data, row, todo, lock, handler, cancelling, expiring, clearing, faults, asked>>
  BY DEF Tick, queue, pass, history
<1>2. now' \in 0..MaxNow /\ now <= now'
  BY <1>1, LifecycleAssumption DEF LifecycleAssumption
<1>3. Types'
  BY <1>1, <1>2 DEF InsT, Scheduled, RowT, TodoT, PlansT, OrderT, NodeT, PassT, HistoryT, HandlerT
<1>4. Due => Due'
  <2>1. ins.destroyAt \in Nat /\ now \in Nat /\ now' \in Nat
    BY <1>2, TimeT, LifecycleAssumption DEF LifecycleAssumption, InsT, InstanceRow
  <2> QED
    BY <1>1, <1>2, <2>1 DEF Due
<1>5. Fresh' /\ Timely'
  BY <1>1, <1>4 DEF Fresh, Timely, Known, Scheduled
<1>6. Starting' /\ Destroying' /\ Purging'
  BY <1>1, PurgeKeyT DEF Starting, Destroying, Purging
<1> QED
  BY <1>3, <1>5, <1>6

-----------------------------------------------------------------------------
LEMMA NextInv == Inv /\ [Next]_vars => Inv'
<1> SUFFICES ASSUME Inv, [Next]_vars PROVE Inv'
  OBVIOUS
<1>1. CASE UNCHANGED vars
  <2>1. UNCHANGED <<now, ins, order, plans, container, data, late, row, todo, lock, handler, cancelling, expiring, clearing, faults, asked>>
    BY <1>1 DEF vars, node, queue, pass, history
  <2>2. Types'
    BY <2>1 DEF Inv, Types, InsT, Scheduled, RowT, TodoT, PlansT, OrderT, NodeT, PassT, HistoryT, HandlerT
  <2> QED
    BY <2>1, <2>2, Frame DEF Known, Scheduled
<1>2. CASE Request \/ cancelManualDestroy
  BY <1>2, ManualStep, ChecksStep, ImmediateStep, ArchiveStep, RenewStep, RefundStep,
     RequestCrashesStep, CancelStep DEF Request
<1>3. CASE Loop \/ Inserts
  BY <1>3, ExpireStep, OrdersStep, ScheduleStep, SyncStep, LockStep, RecoverStep, InsertStep
     DEF Loop, Expiry, Inserts
<1>4. CASE \E k \in Keys : claimTask(k) \/ Handler(k) \/ Agent(k) \/ LateEffect(k) \/ HandlerCrashes(k)
  BY <1>4, ClaimStep, ExecuteStep, FenceStep, AgentStep, LateStep, CommitStep, FinishStep, CrashStep
     DEF Handler
<1>5. CASE (\E k \in Keys : Administrator(k) \/ ClearLock(k)) \/ Tick
  BY <1>5, AdministratorStep, LockStep, TickStep
<1> QED
  BY <1>1, <1>2, <1>3, <1>4, <1>5 DEF Next

\* Every reachable state is well typed.
THEOREM TypeCorrect == Spec => []TypeOK
<1> QED
  BY InitInv, NextInv, InvTypes, PTL DEF Spec

\* Only an Agent changes the container and the data: while the handler of the
\* task waits for it, or late.
LEMMA NodeChanges ==
  [Next]_vars =>
    \/ UNCHANGED <<container, data>>
    \/ \E k \in Keys : (handler[k].pc = "called" \/ k \in late) /\ Effect(k)
<1> SUFFICES ASSUME [Next]_vars, ~ UNCHANGED <<container, data>>
             PROVE  \E k \in Keys : (handler[k].pc = "called" \/ k \in late) /\ Effect(k)
  OBVIOUS
<1>1. \E k \in Keys : Agent(k) \/ LateEffect(k)
  BY DEF Next, vars, node, Request, Loop, Expiry, Inserts, Handler, HandlerCrashes, Abandoned, Administrator, Tick,
     scheduleManualDestroy, CancelChecks, queueImmediateDestroy, archiveDestroyedInstance, renewWithWallet,
     refundOrder, RequestCrashes, cancelManualDestroy, ExpiredSeen, ExpireInstance, ExpirySkipped, ExpireOrders,
     LoopCrashes, scheduleLifecycleTask, syncInstanceStates, LeaseExpires, RecoverLease, Quarantine, InsertTask,
     claimTask, executeTask, taskMayCallAgent, CommitResult, finishTask, Administer, resumeReviewTask,
     discardReviewTask, retryTask, discardAllAdminTasks, ClearLock
<1> QED
  BY <1>1 DEF Agent, AgentDoes, AgentFails, Abandoned, LateEffect

\* A request leaves the control plane at the fence of its own handler.
LEMMA SendStep ==
  ASSUME Inv, [Next]_vars, NEW k \in Keys, Action(k) = "destroy", Sends(k)
  PROVE  taskMayCallAgent(k)
<1> USE DEF Inv, Types
<1>1. handler[k].pc = "ready" /\ handler'[k].pc = "called"
  BY DEF Sends
<1>2. handler' # handler
  BY <1>1
<1>3. ASSUME cancelManualDestroy PROVE FALSE
  BY <1>1, <1>3 DEF cancelManualDestroy, HandlerT, HandlerRow
<1>4. PICK j \in Keys : claimTask(j) \/ Handler(j) \/ Agent(j) \/ HandlerCrashes(j)
  BY <1>2, <1>3 DEF Next, vars, queue, Request, Loop, Expiry, Inserts, LateEffect, Administrator, Tick,
     scheduleManualDestroy, CancelChecks, queueImmediateDestroy, archiveDestroyedInstance, renewWithWallet,
     refundOrder, RequestCrashes, ExpiredSeen, ExpireInstance, ExpirySkipped, ExpireOrders,
     LoopCrashes, scheduleLifecycleTask, syncInstanceStates, LeaseExpires, RecoverLease, Quarantine, InsertTask,
     Administer, resumeReviewTask, discardReviewTask, retryTask, discardAllAdminTasks, ClearLock
<1>5. \A i \in Keys : i # j => handler'[i] = handler[i]
  <2>1. CASE claimTask(j) \/ finishTask(j) \/ HandlerCrashes(j)
    BY <2>1 DEF claimTask, finishTask, HandlerCrashes, HandlerT
  <2>2. CASE executeTask(j)
    BY <2>2 DEF executeTask, HandlerT
  <2>3. CASE taskMayCallAgent(j) \/ Agent(j) \/ CommitResult(j)
    <3>1. \E pc \in {"called", "done", "ok", "error"} : Reach(j, pc)
      BY <2>3, KeyActions DEF taskMayCallAgent, Agent, AgentDoes, AgentFails, CommitResult, CommitDestroy,
         CommitPurge, CommitStart
    <3> QED
      BY <3>1 DEF Reach, HandlerT
  <2> QED
    BY <1>4, <2>1, <2>2, <2>3 DEF Handler
<1>6. j = k
  BY <1>1, <1>5
<1>7. ASSUME claimTask(k) \/ finishTask(k) \/ HandlerCrashes(k) PROVE FALSE
  BY <1>1, <1>7, IdleT DEF claimTask, finishTask, HandlerCrashes, HandlerT, HandlerRow
<1> QED
  BY <1>1, <1>4, <1>6, <1>7 DEF Handler, executeTask, CommitResult, Agent, AgentDoes, AgentFails

\* executeDestroyTask, taskMayCallAgent, renewWithWallet: an Agent is asked for a
\* destroy only for the plan in force, after its grace or at the user's wish, and
\* while the task has the lock no renewal withdraws the plan before the answer.
\* What remains open: a cancellation that was checked before a destroy and is
\* committed beside it, a lock that an administrator clears after the request
\* was sent, and a request that is carried out when nobody waits for it.
THEOREM DestroyCorrect == Spec => DestroyJustified
<1>1. ASSUME Inv, [Next]_vars, NEW k \in Keys, Action(k) = "destroy", ~ handler[k].raced
      PROVE  /\ Sends(k) => InForce(k)
             /\ Answered(k) /\ container # "absent" /\ container' = "absent" => InForce(k) \/ lock # k
  <2>1. handler[k].pc \in {"ready", "called"} /\ lock = k => InForce(k)
    BY <1>1 DEF Inv, Destroying
  <2>2. ASSUME Sends(k) PROVE lock = k
    <3>1. taskMayCallAgent(k)
      BY <1>1, <2>2, SendStep
    <3> QED
      BY <2>2, <3>1 DEF taskMayCallAgent, Sends, Reach, Fenced, Inv, Types, HandlerT
  <2> QED
    BY <2>1, <2>2 DEF Sends, Answered
<1>2. Inv /\ [Next]_vars =>
        [\A k \in Keys : Action(k) = "destroy" /\ ~ handler[k].raced =>
           /\ Sends(k) => InForce(k)
           /\ Answered(k) /\ container # "absent" /\ container' = "absent" => InForce(k) \/ lock # k]_vars
  BY <1>1
<1> QED
  BY <1>2, InitInv, NextInv, PTL DEF Spec, DestroyJustified

\* executePurgeTask: data is deleted only on a destroyed instance, after its
\* retention, while no order of it is in force.
THEOREM DataCorrect == Spec => DataKept
<1>1. ASSUME Inv, [Next]_vars, data, ~ data'
      PROVE  ins.status = "destroyed" /\ ins.purgeAt <= now /\ ~ OrderInForce
  <2>1. PICK k \in Keys : (handler[k].pc = "called" \/ k \in late) /\ Effect(k)
    BY <1>1, NodeChanges
  <2>2. k = PurgeKey
    BY <1>1, <2>1, KeyActions DEF Effect
  <2> QED
    BY <1>1, <2>1, <2>2 DEF Inv, Purging, PurgeEligible, PurgeDue
<1>2. Inv /\ [Next]_vars =>
        [(data /\ ~ data') =>
           /\ ins.status = "destroyed" /\ ins.purgeAt <= now
           /\ ~ OrderInForce]_vars
  BY <1>1
<1> QED
  BY <1>2, InitInv, NextInv, PTL DEF Spec, DataKept
=============================================================================
