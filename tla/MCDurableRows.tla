---------------------------- MODULE MCDurableRows ----------------------------
(* Instances of DurableRows for TLC. *)
EXTENDS DurableRows

CONSTANTS a1, a2, i1

Tasks(rollback, health) ==
    [precheck |-> NotConfigured, backup |-> "t-backup", install |-> "t-install",
     restart |-> "t-restart", health_check |-> health, rollback |-> rollback]

Contract(target, staging, tasks) ==
    [target |-> target, staging_path |-> staging, install_path |-> "live",
     backup_path |-> "backup", tasks |-> tasks]

(* A contract, one that differs in what a rollback does not use, one that  *)
(* differs in a task it does use, one on another host, one without         *)
(* rollback.                                                               *)
FiveContracts ==
    {Contract("host", "staged", Tasks("t-rollback", "t-health")),
     Contract("host", "elsewhere", Tasks("t-rollback", "t-health")),
     Contract("host", "staged", Tasks("t-rollback", "t-smoke")),
     Contract("other", "staged", Tasks("t-rollback", "t-health")),
     Contract("host", "staged", Tasks(NotConfigured, "t-health"))}
=============================================================================
