----------------------------- MODULE MCTaskQueue -----------------------------
(***************************************************************************)
(* Instances of TaskQueue for TLC: a few tasks of one instance, and what   *)
(* they do.                                                                *)
(***************************************************************************)
EXTENDS TaskQueue, TLC

CONSTANTS t1, t2, t3, t4, i1, w1, w2

OneTask    == {t1}
TwoTasks   == {t1, t2}
ThreeTasks == {t1, t2, t3}
FourTasks  == {t1, t2, t3, t4}
OneInstance == {i1}
OfOne      == [t \in Tasks |-> i1]

Stop          == t1 :> "stop"
StopRestart   == t1 :> "stop" @@ t2 :> "restart"
Changing      == t1 :> "update" @@ t2 :> "host-access"
                    @@ t3 :> "resize" @@ t4 :> "compensate-resize"
WholeLife     == t1 :> "create" @@ t2 :> "retry-deploy" @@ t3 :> "destroy"

\* Handlers are interchangeable.
Handlers == Permutations(Workers)
=============================================================================
