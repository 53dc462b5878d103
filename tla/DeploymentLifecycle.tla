------------------------ MODULE DeploymentLifecycle ------------------------
(***************************************************************************)
(* The pure domain of a deployment: its states, the transitions the domain *)
(* allows, the two boundaries that decide what an interrupted or failed    *)
(* deployment leaves behind, and the plan's lifecycle operations.          *)
(*                                                                         *)
(* Translated from src/domain/deployment.rs and src/domain/plan.rs.        *)
(***************************************************************************)
EXTENDS Naturals

(* DeploymentState. *)
DeploymentState ==
    {"created", "prechecking", "staging_artifact", "backing_up", "installing",
     "restarting", "verifying", "succeeded", "failed", "rolling_back",
     "rolled_back", "rollback_failed"}

(* DeploymentState::is_terminal. *)
Terminal == {"succeeded", "failed", "rolled_back", "rollback_failed"}

(* The states the partial index idx_deployments_active_environment covers. *)
NonTerminal == DeploymentState \ Terminal

(* Variant: the boundary starts where the live artifact is replaced.       *)
HasLiveMutationStartedLate ==
    {"installing", "restarting", "verifying", "rolling_back", "rolled_back",
     "rollback_failed"}

(* DeploymentState::has_live_mutation_started: a remote side effect may    *)
(* have begun.  The boundary starts at artifact staging.                   *)
HasLiveMutationStarted ==
    {"staging_artifact", "backing_up", "installing", "restarting",
     "verifying", "rolling_back", "rolled_back", "rollback_failed"}

(* DeploymentState::has_live_artifact_replacement_started. *)
HasLiveArtifactReplacementStarted ==
    HasLiveMutationStarted \ {"staging_artifact", "backing_up"}

(* DeploymentState::can_transition_to, as the set of allowed pairs. *)
CanTransition ==
    {<<"created", "prechecking">>}
    \cup {"prechecking"} \X {"staging_artifact", "failed"}
    \cup {"staging_artifact"} \X {"backing_up", "failed"}
    \cup {"backing_up"} \X {"installing", "failed"}
    \cup {"installing"} \X {"restarting", "rolling_back", "failed"}
    \cup {"restarting"} \X {"verifying", "rolling_back", "failed"}
    \cup {"verifying"} \X {"succeeded", "rolling_back", "failed"}
    \cup {"rolling_back"} \X {"rolled_back", "rollback_failed"}

(* States a deployment can be explicitly rolled back from. *)
RollbackEligible == {"succeeded", "rollback_failed"}

-----------------------------------------------------------------------------
(* DeploymentStep: the durable names of step attempts. *)
Step == {"precheck", "stage_artifact", "backup_current", "install",
         "restart", "verify"}

(* DeploymentStep::lifecycle_operation followed by lifecycle_order. *)
LifecycleOrder ==
    [s \in Step |-> CASE s = "precheck"       -> 1
                      [] s = "stage_artifact" -> 2
                      [] s = "backup_current" -> 3
                      [] s = "install"        -> 4
                      [] s = "restart"        -> 5
                      [] s = "verify"         -> 6]

(* RollbackBoundary::generic: Apply, the first live mutation. *)
FirstLiveMutation == LifecycleOrder["install"]

(* Variant: strictly after the first live mutation. *)
RequiresRollbackAfterInstall(failedStep, rollbackAvailable) ==
    rollbackAvailable /\ LifecycleOrder[failedStep] > FirstLiveMutation

(* DeploymentPlan::requires_rollback_after_failure. *)
RequiresRollbackAfterFailure(failedStep, rollbackAvailable) ==
    rollbackAvailable /\ LifecycleOrder[failedStep] >= FirstLiveMutation
=============================================================================
