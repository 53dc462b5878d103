--------------------------- MODULE MCHostedService ---------------------------
(* Instances of HostedService for TLC. *)
EXTENDS HostedService, TLC

CONSTANTS e1, v1, b1, b2, b3, k1, p1, p2, w1, w2

SoleHome == w1 :> p1
OwnHome == (w1 :> p1) @@ (w2 :> p2)

(* Two artifacts of one size.                                              *)
Sizes == (b1 :> 1) @@ (b2 :> 2) @@ (b3 :> 1)

Tasks == [precheck |-> "t-precheck", backup |-> "t-backup",
          install |-> "t-install", restart |-> "t-restart",
          health_check |-> "t-health", rollback |-> "t-rollback"]

Contract(backup) ==
    [target |-> "host", staging_path |-> "staged", install_path |-> "live",
     backup_path |-> backup, tasks |-> Tasks]

(* The operator moves the backup between two starts, or removes the        *)
(* optional tasks: p2 is a start without them.                             *)
TwoContracts == {Contract("backup"), Contract("elsewhere")}
WithoutOptional ==
    [Contract("backup") EXCEPT !.tasks.precheck = NotConfigured,
                               !.tasks.rollback = NotConfigured]
ThreeContracts == TwoContracts \cup {WithoutOptional}

AllConfigured == [p \in Processes |-> Environments]
ConfiguredForP1 == [p \in Processes |-> IF p = p1 THEN Environments ELSE {}]

AllTasks == {Tasks[t] : t \in DOMAIN Tasks}
WithOrWithoutRollback == {AllTasks, AllTasks \ {"t-rollback"}}

Deploy(v, b, k) ==
    [env |-> e1, release |-> [version |-> v, digest |-> b], key |-> k]

OneRelease == {Deploy(v1, b1, NoKey)}
Keyed == {Deploy(v1, b1, k1)}
=============================================================================
