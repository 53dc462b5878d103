----------------------------- MODULE ToolAnswers -----------------------------
(***************************************************************************)
(* DeployService with what its clients are told.  The tools of DeployMcp   *)
(* turn the result of DeploymentApplication into an answer: an outcome     *)
(* that names a record and its state, or an error code.  The client keeps  *)
(* the answer; the processes, which remember nothing, and the store go on. *)
(***************************************************************************)
EXTENDS DeployService

VARIABLES
    held,   \* held[w]: the outcome deploy returned, while the reference of
            \* its deployment is recorded
    told    \* the outcomes that clients were told

answerVars == <<vars, held, told>>

NothingHeld == [state |-> "none", replay |-> FALSE]

(* execution_result_json. *)
DeployOutcome(d, state, replay, reference) ==
    [tool |-> "deploy_application", id |-> d, state |-> state,
     idempotent_replay |-> replay, rollback_reference_available |-> reference]

(* rollback_outcome_json; and the error of an expired rollback, whose text *)
(* says that the operation remains STARTED.                                *)
RollbackOutcome(o, state) ==
    [tool |-> "rollback_deployment", id |-> o, state |-> state,
     idempotent_replay |-> FALSE, rollback_reference_available |-> FALSE]
-----------------------------------------------------------------------------
(* The steps that end a request.  Where deploy returns a deployment that   *)
(* may be rolled back, deploy_application first records its reference.     *)

Tells(w, outcome) ==
    IF worker'[w] = Idle
    THEN /\ told' = told \cup {outcome}
         /\ held' = [held EXCEPT ![w] = NothingHeld]
    ELSE /\ held' = [held EXCEPT ![w] =
                        IF worker'[w].pc = "record"
                        THEN [state |-> outcome.state,
                              replay |-> outcome.idempotent_replay]
                        ELSE NothingHeld]
         /\ UNCHANGED told

ReuseTold(w) ==
    /\ Reuse(w)
    /\ \E d \in Store!BoundTo(worker[w].req.key) :
           Tells(w, DeployOutcome(d, deployments[d].state, TRUE, FALSE))

(* Variant: the state aimed at is reported, whatever the repository says.  *)
AdvanceToldAnyway(w) ==
    /\ worker[w].pc = "transition"
    /\ \/ Store!Transition(worker[w].id, worker[w].mem, worker[w].goal)
       \/ Refused(w) /\ UNCHANGED storeVars
    /\ GoTo(w, AfterTransition(Home[w], worker[w]))
    /\ UNCHANGED inflight /\ Local
    /\ Tells(w, DeployOutcome(worker[w].id, worker[w].goal, FALSE, FALSE))

AdvanceTold(w) ==
    /\ Advance(w)
    /\ Tells(w, DeployOutcome(worker[w].id, worker[w].goal, FALSE, FALSE))

(* A timeout in a state past the first side effect: the outcome has the    *)
(* state the deployment is left in.                                        *)
FinishAttemptTold(w) ==
    /\ FinishAttempt(w)
    /\ Tells(w, DeployOutcome(worker[w].id, StateDuring[worker[w].act],
                              FALSE, FALSE))

RecordTold(w) ==
    /\ Record(w)
    /\ Tells(w, DeployOutcome(worker[w].id, held[w].state, held[w].replay,
                              TRUE))

(* The timeout of a call of a deployment ends no request. *)
TimeOutTold(w) ==
    /\ TimeOut(w)
    /\ Tells(w, RollbackOutcome(worker[w].id, "started"))

(* load_operation reads the finished operation back, and may fail. *)
SettleTold(w) ==
    /\ Settle(w)
    /\ \/ Tells(w, RollbackOutcome(worker[w].id,
                                   operations'[worker[w].id].state))
       \/ StorageFaults /\ UNCHANGED <<held, told>>

(* An error code is told; but a reference that could not be recorded does  *)
(* not turn the outcome of its deployment into an error.                   *)
GiveUpTold(w) ==
    /\ GiveUp(w)
    /\ IF worker[w].pc = "record"
       THEN Tells(w, DeployOutcome(worker[w].id, held[w].state, held[w].replay,
                                   FALSE))
       ELSE UNCHANGED <<held, told>>

(* A client of a process that stops is told nothing. *)
CrashTold(p) ==
    /\ Crash(p)
    /\ held' = [w \in Workers |-> IF Home[w] = p THEN NothingHeld ELSE held[w]]
    /\ UNCHANGED told

SilentStep ==
    /\ \/ \E w \in Workers :
              \/ \E req \in Requests : Submit(w, req)
              \/ \E d \in Store!DeploymentIds : RequestRollback(w, d)
              \/ CheckConflict(w) \/ Reserve(w) \/ StartCall(w)
              \/ FindReference(w) \/ AcquireForRollback(w) \/ Begin(w)
              \/ \E result \in {"ok", "failed"} : Reply(w, result)
              \/ LoseReply(w)
       \/ \E p \in Processes : Start(p) \/ Recover(p)
       \/ \E c \in inflight : RemoteEnds(c)
       \/ \E i \in incidents : Acknowledge(i)
    /\ UNCHANGED <<held, told>>
-----------------------------------------------------------------------------
AnswerInit ==
    /\ Init
    /\ held = [w \in Workers |-> NothingHeld]
    /\ told = {}

AnswerNext ==
    \/ \E w \in Workers :
           \/ ReuseTold(w) \/ AdvanceTold(w) \/ FinishAttemptTold(w)
           \/ RecordTold(w) \/ TimeOutTold(w) \/ SettleTold(w)
           \/ GiveUpTold(w)
    \/ \E p \in Processes : CrashTold(p)
    \/ SilentStep

AnswerSpec == AnswerInit /\ [][AnswerNext]_answerVars
-----------------------------------------------------------------------------
(* Type invariant: the services' own, an outcome is held exactly while its *)
(* reference is being recorded, and an answer names a record.              *)
AnswersTypeOK ==
    /\ TypeOK
    /\ \A w \in Workers :
           IF worker[w].pc = "record" THEN held[w].state \in RollbackEligible
           ELSE held[w] = NothingHeld
    /\ \A a \in told :
           \/ a.tool = "deploy_application" /\ a.id \in Store!DeploymentIds
              /\ a.state \in DeploymentState
           \/ a.tool = "rollback_deployment" /\ a.id \in Store!OperationIds
              /\ a.state \in Store!OperationState

(* Clients may rely on what they are told, whatever recovery, other        *)
(* processes, lost replies and later requests do: a final state stays what *)
(* the store says of that record.                                          *)
AnswersStand ==
    \A a \in told :
        /\ a.tool = "deploy_application" /\ a.state \in Terminal =>
               deployments[a.id].state = a.state
        /\ a.tool = "rollback_deployment" /\ a.state # "started" =>
               operations[a.id].state = a.state

(* The request ended and left its record open.  A replay only reports how  *)
(* far another request has come.                                           *)
Unfinished(a) ==
    \/ /\ a.tool = "deploy_application"
       /\ a.state \in NonTerminal
       /\ ~a.idempotent_replay
    \/ a.tool = "rollback_deployment" /\ a.state = "started"

KindOf(a) ==
    IF a.tool = "deploy_application" THEN "deployment"
    ELSE "rollback_operation"

EnvOf(a) ==
    IF a.tool = "deploy_application" THEN deployments[a.id].env
    ELSE operations[a.id].env

(* An answer that leaves the outcome open is a promise: until an operator  *)
(* acknowledged what became of it, nothing else changes its environment.   *)
OpenAnswerHoldsEnvironment ==
    \A a \in told :
        \/ ~Unfinished(a)
        \/ \E i \in incidents : /\ i.kind = KindOf(a) /\ i.subject = a.id
                                /\ i.status = "acknowledged"
        \/ /\ \A d \in Store!DeploymentIds :
                  /\ deployments[d].env = EnvOf(a)
                  /\ KindOf(a) = "deployment" => d # a.id
                  => deployments[d].state \in Terminal
           /\ \A o \in Store!OperationIds :
                  /\ operations[o].env = EnvOf(a)
                  /\ KindOf(a) = "rollback_operation" => o # a.id
                  => operations[o].state # "started"

(* A client that was told of a rollback reference can use it for as long   *)
(* as its deployment is the latest of the environment and was not rolled   *)
(* back: failed and interrupted rollbacks, restarts and retention leave    *)
(* it.                                                                     *)
ReferenceToldIsKept ==
    \A a \in told :
        /\ a.rollback_reference_available
        /\ Store!EligibleSource(a.id)
        /\ \A o \in Store!OperationIds :
               operations[o].source = a.id => operations[o].state # "succeeded"
        => references[a.id] = "active" /\ Store!ReferenceVisible(a.id)
=============================================================================
