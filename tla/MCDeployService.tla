-------------------------- MODULE MCDeployService --------------------------
(* Instances of DeployService for TLC. *)
EXTENDS DeployService, TLC

CONSTANTS e1, e2, v1, b1, k1, p1, p2, w1, w2

(* One process serves both requests; or each is served by a process of     *)
(* its own.                                                                *)
OneHome == (w1 :> p1) @@ (w2 :> p1)
TwoHomes == (w1 :> p1) @@ (w2 :> p2)

Deploy(v, b, k) ==
    [env |-> e1, release |-> [version |-> v, digest |-> b], key |-> k]

(* Every process has the optional task everywhere; or for e1 only. *)
AllConfigured == [p \in Processes |-> Environments]
ConfiguredForE1 == [p \in Processes |-> {e1}]

OneRequest == {Deploy(v1, b1, NoKey)}

(* With a retry in the environment that has a rollback task, and without   *)
(* a key in the one that has none.                                         *)
EitherEnvironment ==
    {Deploy(v1, b1, k1), [Deploy(v1, b1, NoKey) EXCEPT !.env = e2]}
=============================================================================
