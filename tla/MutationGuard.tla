--------------------------- MODULE MutationGuard ---------------------------
(***************************************************************************)
(* What the durable store promises about mutations of an environment.      *)
(*                                                                         *)
(* A mutation is a deployment or an explicit rollback.  It holds its       *)
(* environment from the moment it is recorded until its outcome is known.  *)
(* An outcome is known when the orchestration decides it, when it is       *)
(* interrupted before any remote side effect, or, after an interruption    *)
(* that may have left a side effect behind, when an operator reconciles    *)
(* the environment.  No environment is ever held by two mutations, and an  *)
(* ambiguous mutation never frees its environment by itself.               *)
(***************************************************************************)
CONSTANTS Environments, Mutations, NoEnvironment

VARIABLES
    home,   \* home[m]: the environment mutation m was recorded for
    fate    \* fate[m]: how far mutation m has come

guardVars == <<home, fate>>

(* "preparing": recorded, no side effect can have begun.                   *)
(* "mutating":  a remote side effect may have begun.                       *)
(* "decided":   the orchestration recorded the outcome itself.             *)
(* "discarded": interrupted while preparing.                               *)
(* "quarantined", "reconciled": interrupted while mutating; then reviewed. *)
Fate == {"unused", "preparing", "mutating", "decided", "discarded",
         "quarantined", "reconciled"}

Holding == {"preparing", "mutating", "quarantined"}

Held(e) == \E m \in Mutations : home[m] = e /\ fate[m] \in Holding

Init ==
    /\ home = [m \in Mutations |-> NoEnvironment]
    /\ fate = [m \in Mutations |-> "unused"]

Begin(m, e, phase) ==
    /\ fate[m] = "unused"
    /\ ~Held(e)
    /\ home' = [home EXCEPT ![m] = e]
    /\ fate' = [fate EXCEPT ![m] = phase]

Advance(m, from, to) ==
    /\ fate[m] = from
    /\ fate' = [fate EXCEPT ![m] = to]
    /\ UNCHANGED home

Next ==
    \E m \in Mutations :
        \/ \E e \in Environments, phase \in {"preparing", "mutating"} :
               Begin(m, e, phase)
        \/ Advance(m, "preparing", "mutating")
        \/ Advance(m, "preparing", "decided")
        \/ Advance(m, "preparing", "discarded")
        \/ Advance(m, "mutating", "decided")
        \/ Advance(m, "mutating", "quarantined")
        \/ Advance(m, "quarantined", "reconciled")

Spec == Init /\ [][Next]_guardVars

(* An environment is held by at most one mutation. *)
OneHolder ==
    \A m, n \in Mutations :
        /\ fate[m] \in Holding /\ fate[n] \in Holding
        /\ home[m] = home[n]
        => m = n
=============================================================================
