------------------------ MODULE JarSystemdMechanism ------------------------
(***************************************************************************)
(* How the JAR/systemd mechanism turns lifecycle intent into calls of a    *)
(* remote host: which task a step of a deployment or a rollback runs, with *)
(* which paths, which tasks the preflight asks for, and which part of the  *)
(* configuration a rollback reference snapshots.                           *)
(*                                                                         *)
(* A contract is the configuration of one environment.  Targets, paths and *)
(* task names are opaque values.                                           *)
(***************************************************************************)
EXTENDS Naturals

CONSTANTS
    Contracts,      \* the configurations an environment may be given
    NotConfigured   \* an optional task that is absent

NoPath == "no path"

(* Config::validate, for one environment.  It asks for values that are     *)
(* there; it does not ask for paths that differ.                           *)
ValidEnvironment(c) ==
    /\ DOMAIN c = {"target", "staging_path", "install_path", "backup_path",
                   "tasks"}
    /\ DOMAIN c.tasks = {"precheck", "backup", "install", "restart",
                         "health_check", "rollback"}
    /\ \A t \in DOMAIN c.tasks \ {"precheck", "rollback"} :
           c.tasks[t] # NotConfigured

ASSUME ContractsValid == \A c \in Contracts : ValidEnvironment(c)
-----------------------------------------------------------------------------
(* rollback_snapshot: what an explicit rollback needs of the contract. *)
Snapshot(c) ==
    [backup_path  |-> c.backup_path,   install_path      |-> c.install_path,
     rollback_task |-> c.tasks.rollback, restart_task    |-> c.tasks.restart,
     health_check_task |-> c.tasks.health_check]

(* Variant: the health check is not hashed. *)
FingerprintWithoutCheck(target, s) ==
    <<target, s.backup_path, s.install_path, s.rollback_task, s.restart_task>>

(* MechanismContractFingerprint::jar_systemd.  Every field is hashed with  *)
(* its length, so that equal fingerprints mean equal fields.               *)
Fingerprint(target, s) ==
    <<target, s.backup_path, s.install_path, s.rollback_task, s.restart_task,
      s.health_check_task>>

(* build_rollback_reference. *)
ReferenceFor(c) ==
    [target |-> c.target, snapshot |-> Snapshot(c),
     contract_fingerprint |-> Fingerprint(c.target, Snapshot(c))]

(* rollback_contract_matches. *)
ContractMatches(c, reference) ==
    /\ c.tasks.rollback # NotConfigured
    /\ c.target = reference.target
    /\ Fingerprint(c.target, Snapshot(c)) = reference.contract_fingerprint
-----------------------------------------------------------------------------
(* Variant: the optional rollback task is not asked for. *)
MandatoryTasks(c) ==
    {c.tasks[t] : t \in DOMAIN c.tasks \ {"precheck", "rollback"}}

(* required_tasks. *)
RequiredTasks(c) ==
    {c.tasks[t] : t \in DOMAIN c.tasks} \ {NotConfigured}

(* preflight_remote_capabilities, on a target that is reachable. *)
PreflightPasses(c, available) == RequiredTasks(c) \subseteq available

(* preflight_rollback, on a target that is reachable. *)
RollbackPreflightPasses(reference, available) ==
    {reference.snapshot.rollback_task, reference.snapshot.restart_task,
     reference.snapshot.health_check_task} \subseteq available

TaskCall(task, from, to) == [task |-> task, from |-> from, to |-> to]

(* prepare: no task, but an upload that overwrites the staging path.       *)
Upload(c) == TaskCall("upload", NoPath, c.staging_path)

(* Variant: the backup is taken of the staged file. *)
LifecycleCallBackingUpStaged(c, act) ==
    CASE act = "precheck" -> TaskCall(c.tasks.precheck, NoPath, NoPath)
      [] act = "backup"   -> TaskCall(c.tasks.backup, c.staging_path,
                                      c.backup_path)
      [] act = "install"  -> TaskCall(c.tasks.install, c.staging_path,
                                      c.install_path)
      [] act = "restart"  -> TaskCall(c.tasks.restart, NoPath, NoPath)
      [] act = "verify"   -> TaskCall(c.tasks.health_check, NoPath, NoPath)

(* execute. *)
LifecycleCall(c, act) ==
    CASE act = "precheck" -> TaskCall(c.tasks.precheck, NoPath, NoPath)
      [] act = "backup"   -> TaskCall(c.tasks.backup, c.install_path,
                                      c.backup_path)
      [] act = "install"  -> TaskCall(c.tasks.install, c.staging_path,
                                      c.install_path)
      [] act = "restart"  -> TaskCall(c.tasks.restart, NoPath, NoPath)
      [] act = "verify"   -> TaskCall(c.tasks.health_check, NoPath, NoPath)

(* execute_current_rollback: within a failed deployment, from the contract *)
(* in force.                                                               *)
CurrentRollbackCall(c, act) ==
    CASE act = "restore"    -> TaskCall(c.tasks.rollback, c.backup_path,
                                        c.install_path)
      [] act = "reactivate" -> TaskCall(c.tasks.restart, NoPath, NoPath)
      [] act = "reverify"   -> TaskCall(c.tasks.health_check, NoPath, NoPath)

(* Variant: the running release is not restarted from the restored file.   *)
RollbackCallOfHealth(reference, act) ==
    LET s == reference.snapshot IN
    CASE act = "restore"    -> TaskCall(s.rollback_task, s.backup_path,
                                        s.install_path)
      [] act = "reactivate" -> TaskCall(s.health_check_task, NoPath, NoPath)
      [] act = "reverify"   -> TaskCall(s.health_check_task, NoPath, NoPath)

(* execute_rollback: an explicit rollback, from the snapshot alone.        *)
RollbackCall(reference, act) ==
    LET s == reference.snapshot IN
    CASE act = "restore"    -> TaskCall(s.rollback_task, s.backup_path,
                                        s.install_path)
      [] act = "reactivate" -> TaskCall(s.restart_task, NoPath, NoPath)
      [] act = "reverify"   -> TaskCall(s.health_check_task, NoPath, NoPath)
=============================================================================
