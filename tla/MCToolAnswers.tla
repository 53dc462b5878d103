---------------------------- MODULE MCToolAnswers ----------------------------
(* Instances of ToolAnswers for TLC. *)
EXTENDS ToolAnswers, TLC

CONSTANTS e1, v1, b1, b2, k1, p1, p2, w1, w2

OneHome == (w1 :> p1) @@ (w2 :> p1)
TwoHomes == (w1 :> p1) @@ (w2 :> p2)

AllConfigured == [p \in Processes |-> Environments]

Deploy(b, k) ==
    [env |-> e1, release |-> [version |-> v1, digest |-> b], key |-> k]

Unkeyed == {Deploy(b1, NoKey)}
OneKey == {Deploy(b1, NoKey), Deploy(b1, k1)}

(* Two requests of one process differ in nothing else. *)
AnyWorker == Permutations({w1, w2})

(* Nor do two processes, each with the request it serves. *)
AnyProcess ==
    {f \in Permutations({w1, w2, p1, p2}) :
         \A w \in {w1, w2} : f[w] \in {w1, w2} /\ TwoHomes[f[w]] = f[TwoHomes[w]]}

(* Other bytes under the same version, with and without the same key.      *)
Conflicting == OneKey \cup {Deploy(b2, k1)}
=============================================================================
