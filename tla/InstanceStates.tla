--------------------------- MODULE InstanceStates ---------------------------
(***************************************************************************)
(* The constant tables of the control plane: the lifecycle states of an    *)
(* instance with the edges canTransitionInstance accepts, the task         *)
(* actions, and the classes of actions the task queue treats differently.  *)
(***************************************************************************)

\* xcloud_instances.status; "none" stands for a row not inserted yet.
InstanceStatus ==
    {"none", "deploying", "deployment_failed", "running", "stopped",
     "destroy_scheduled", "destroyed", "purged"}

\* The edges of the `allowed` table of canTransitionInstance.
Edges ==
    {<<"deploying", "running">>, <<"deploying", "deployment_failed">>,
     <<"deployment_failed", "deploying">>,
     <<"deployment_failed", "destroy_scheduled">>,
     <<"running", "stopped">>, <<"running", "destroy_scheduled">>,
     <<"stopped", "running">>, <<"stopped", "destroy_scheduled">>,
     <<"destroy_scheduled", "running">>, <<"destroy_scheduled", "stopped">>,
     <<"destroy_scheduled", "destroyed">>, <<"destroyed", "purged">>}

canTransitionInstance(from, to) == from = to \/ <<from, to>> \in Edges

\* Every action lifecycleTask accepts; a task of such an action needs the
\* instance lock.  Legacy actions (the retired "bandwidth") are not created.
LifecycleActions ==
    {"create", "retry-deploy", "start", "stop", "update", "restart",
     "reinstall", "destroy", "purge", "resize", "compensate-resize",
     "host-access"}

\* expectedStates of executeTask: where the instance must be for the action.
ExpectedStates(action) ==
    CASE action \in {"create", "retry-deploy"} -> {"deploying"}
      [] action = "start"                      -> {"stopped", "destroy_scheduled"}
      [] action \in {"stop", "restart"}        -> {"running", "destroy_scheduled"}
      [] action = "update"                     -> {"running"}
      [] action \in {"resize", "compensate-resize", "reinstall"}
                                               -> {"running", "stopped"}
      [] action = "host-access"                -> {"running", "stopped", "destroy_scheduled"}
      [] action = "destroy"                    -> {"destroy_scheduled"}
      [] action = "purge"                      -> {"destroyed"}

\* Actions whose interrupted execution is never replayed automatically.
dangerousRecoveredTask(action) ==
    action \in {"stop", "update", "restart", "reinstall", "destroy", "purge",
                "retry-deploy", "resize", "host-access"}

\* The action list of quarantineDangerousFailedTasks (without "resize").
QuarantinedActions ==
    {"stop", "update", "restart", "reinstall", "destroy", "purge",
     "retry-deploy", "host-access"}

userCancelableTaskAction(action) ==
    action \in {"start", "stop", "update", "restart", "reinstall", "retry-deploy"}

\* safeRecoveryState: a create or start whose instance still waits for it.
safeRecoveryState(action, status) ==
    \/ action = "create" /\ status = "deploying"
    \/ action = "start"  /\ status \in {"stopped", "destroy_scheduled"}

\* Number of Agent requests an execution makes that replace the container:
\* retry-deploy and update destroy it first and re-check the fence between.
AgentLegs(action) == IF action \in {"retry-deploy", "update"} THEN 2 ELSE 1
=============================================================================
