--------------------------- MODULE DeployService ---------------------------
(***************************************************************************)
(* Processes of deploy-mcp over one durable store: DeployService,          *)
(* RollbackService, StartupRecoveryService, the process-local leases, the  *)
(* remote calls they make and the operator who acknowledges incidents.     *)
(*                                                                         *)
(* A worker is one request a process serves.  Requests interleave wherever *)
(* the code awaits or gives up the mutex of a repository; each step below  *)
(* makes at most one repository call.  A process may stop at any moment: its *)
(* workers and leases vanish, the store and the remote hosts do not.       *)
(*                                                                         *)
(* inflight is the ghost of the remote hosts: the side-effecting calls     *)
(* that may still be running there.  A call whose reply was not awaited    *)
(* (timeout, crash) or was lost stays until it ends by itself.             *)
(***************************************************************************)
EXTENDS DeploymentLifecycle, Sequences, FiniteSets

CONSTANTS
    Environments, Versions, Digests, Keys, NoKey, CleanupBatch,
    MaxDeployments, MaxOperations,        \* as in MutationStore
    Processes,                \* processes that open the database
    Workers,                  \* bound: requests served at the same time
    Home,                     \* Home[w]: the process that serves w
    Requests,                 \* the deploy requests clients make
    RollbackConfigured,       \* [p]: the environments with a rollback task,
    PrecheckConfigured,       \* [p]: those with a precheck task, in the
                              \* configuration that process p loads
    MaxVerificationAttempts,  \* runtime.verification_max_attempts
    MaxCrashes,               \* bound: how often processes stop
    SingleInstance,           \* one process at a time opens the database
    StorageFaults,            \* repository calls may fail
    TransportLoss             \* an error may hide a call that still runs

(* What Config::validate admits.  The loops that verify rely on it: with   *)
(* no attempt at all they would reach unreachable!.                        *)
ASSUME ValidRuntime ==
    /\ MaxVerificationAttempts \in 1 .. 10
    /\ CleanupBatch \in 1 .. 5000

VARIABLES
    deployments, openAttempts, references, pruned, operations, incidents,
    worker,     \* worker[w]: where the request stands
    leases,     \* leases[p]: DeploymentLockManager::active of process p
    proc,       \* proc[p]: startup phase and what recovery still has to do
    inflight,   \* side-effecting remote calls that may still run
    crashes     \* how often a process stopped

Store == INSTANCE MutationStore

(* Requests name what is configured, each is served by one process, and    *)
(* the bounds are numbers.                                                 *)
ASSUME ServiceAssumption ==
    /\ Store!ConstantsAssumption
    /\ Requests \subseteq Store!Request
    /\ Home \in [Workers -> Processes]
    /\ RollbackConfigured \in [Processes -> SUBSET Environments]
    /\ PrecheckConfigured \in [Processes -> SUBSET Environments]
    /\ MaxCrashes \in Nat

storeVars == <<deployments, openAttempts, references, pruned, operations,
               incidents>>
vars == <<storeVars, worker, leases, proc, inflight, crashes>>
-----------------------------------------------------------------------------
(* The remote activities of a deployment and of an explicit rollback.      *)

(* The state a deployment is in while the activity runs. *)
StateDuring ==
    [preflight  |-> "prechecking",      precheck |-> "prechecking",
     stage      |-> "staging_artifact", backup   |-> "backing_up",
     install    |-> "installing",       restart  |-> "restarting",
     verify     |-> "verifying",        restore  |-> "rolling_back",
     reactivate |-> "rolling_back",     reverify |-> "rolling_back"]

(* The step its attempts are recorded under. *)
StepOf ==
    [preflight  |-> "precheck",       precheck |-> "precheck",
     stage      |-> "stage_artifact", backup   |-> "backup_current",
     install    |-> "install",        restart  |-> "restart",
     verify     |-> "verify",         restore  |-> "install",
     reactivate |-> "restart",        reverify |-> "verify"]

(* Activities that change the target; the others only read from it. *)
Mutating == {"stage", "backup", "install", "restart", "restore", "reactivate"}

Verification == {"verify", "reverify"}
Recovering == {"restore", "reactivate", "reverify"}

(* The activity deploy starts when a transition has been persisted. *)
FirstActivity ==
    [prechecking |-> "preflight", staging_artifact |-> "stage",
     backing_up  |-> "backup",    installing       |-> "install",
     restarting  |-> "restart",   verifying        |-> "verify",
     rolling_back |-> "restore"]

(* The state deploy moves to when the last activity of a state succeeded.  *)
StateAfter ==
    [prechecking |-> "staging_artifact", staging_artifact |-> "backing_up",
     backing_up  |-> "installing",       installing       |-> "restarting",
     restarting  |-> "verifying",        verifying        |-> "succeeded",
     rolling_back |-> "rolled_back"]

(* Variant: the restored artifact is verified without being activated.     *)
VerifiesUnactivated(p, e, a) ==
    CASE a = "preflight" /\ e \in PrecheckConfigured[p] -> "precheck"
      [] a = "restore" -> "reverify"
      [] OTHER         -> "none"

(* The activity that follows a within the same state, if there is one.     *)
FollowsWithin(p, e, a) ==
    CASE a = "preflight" /\ e \in PrecheckConfigured[p] -> "precheck"
      [] a = "restore"    -> "reactivate"
      [] a = "reactivate" -> "reverify"
      [] OTHER            -> "none"

(* The activity that follows a in an explicit rollback, if there is one.   *)
FollowsInRollback(a) ==
    CASE a = "preflight"  -> "restore"
      [] a = "restore"    -> "reactivate"
      [] a = "reactivate" -> "reverify"
      [] OTHER            -> "none"
-----------------------------------------------------------------------------
(* Where a worker stands.  A record per stage of the two services.         *)
Idle == [pc |-> "idle"]

(* deploy, before a deployment is reserved. *)
Accepted(pc, req) == [pc |-> pc, env |-> req.env, req |-> req]

(* deploy, about to move its deployment from state mem to goal. *)
Moving(env, d, mem, goal) ==
    [pc |-> "transition", env |-> env, id |-> d, mem |-> mem, goal |-> goal]

(* Either service, in the tries-th attempt of a remote activity.  kind and *)
(* id name the deployment or the rollback operation.                       *)
Doing(pc, env, kind, id, act, tries) ==
    [pc |-> pc, env |-> env, kind |-> kind, id |-> id, act |-> act,
     tries |-> tries]

(* deploy, with a result to write to the attempt. *)
Finishing(t, result) ==
    [pc |-> "finish", env |-> t.env, id |-> t.id, act |-> t.act,
     tries |-> t.tries, result |-> result]

(* DeploymentApplication, after deploy returned and dropped the lease. *)
Recording(env, d) == [pc |-> "record", env |-> env, id |-> d]

(* rollback of deployment d, before its operation is recorded. *)
Considering(pc, env, d) == [pc |-> pc, env |-> env, id |-> d]

(* rollback, with an outcome to write to the operation. *)
Settling(env, o, outcome) ==
    [pc |-> "settle", env |-> env, id |-> o, outcome |-> outcome]

Up(p) == proc[p].phase = "up"
HoldsLease(t) == t.pc \notin {"idle", "record", "reference", "acquire"}

(* w goes on at t; the lease is dropped when t is past the service call.   *)
GoTo(w, t) ==
    /\ worker' = [worker EXCEPT ![w] = t]
    /\ leases' = IF HoldsLease(worker[w]) /\ ~HoldsLease(t)
                 THEN [leases EXCEPT ![Home[w]] = @ \ {worker[w].env}]
                 ELSE leases

(* Variant: the insertion into the active set is not checked. *)
TryAcquireUnchecked(w, t) ==
    /\ leases' = [leases EXCEPT ![Home[w]] = @ \cup {t.env}]
    /\ worker' = [worker EXCEPT ![w] = t]

(* DeploymentLockManager::try_acquire, when it succeeds. *)
TryAcquire(w, t) ==
    /\ t.env \notin leases[Home[w]]
    /\ leases' = [leases EXCEPT ![Home[w]] = @ \cup {t.env}]
    /\ worker' = [worker EXCEPT ![w] = t]

Local == UNCHANGED <<proc, crashes>>
-----------------------------------------------------------------------------
(* DeployService::deploy, up to the reservation.                           *)

(* A request that is refused at once (unknown environment, bad version,    *)
(* lease taken) changes nothing and is not modelled as a step.             *)
Submit(w, req) ==
    /\ Up(Home[w])
    /\ worker[w] = Idle
    /\ TryAcquire(w, Accepted("conflict", req))
    /\ UNCHANGED <<storeVars, inflight>> /\ Local

(* reject_durable_conflict; then the artifact is resolved and hashed.      *)
CheckConflict(w) ==
    /\ worker[w].pc = "conflict"
    /\ ~Store!DeploymentActive(worker[w].env)
    /\ GoTo(w, Accepted("reserve", worker[w].req))
    /\ UNCHANGED <<storeVars, inflight>> /\ Local

Reserve(w) ==
    /\ worker[w].pc = "reserve"
    /\ Store!Reserve(worker[w].req)
    /\ GoTo(w, Moving(worker[w].env, Len(deployments) + 1,
                      "created", "prechecking"))
    /\ UNCHANGED inflight /\ Local

(* What follows in p a deployment whose final state is known to it.        *)
Returned(p, env, d, state) ==
    IF state \in RollbackEligible /\ env \in RollbackConfigured[p]
    THEN Recording(env, d) ELSE Idle

Reuse(w) ==
    /\ worker[w].pc = "reserve"
    /\ \E d \in Store!BoundTo(worker[w].req.key) :
           /\ Store!Replays(worker[w].req, d)
           /\ GoTo(w, Returned(Home[w], worker[w].env, d, deployments[d].state))
    /\ UNCHANGED <<storeVars, inflight>> /\ Local

(* record_rollback_reference, without the lease. *)
Record(w) ==
    /\ worker[w].pc = "record"
    /\ Store!RecordReference(worker[w].id)
    /\ GoTo(w, Idle)
    /\ UNCHANGED inflight /\ Local
-----------------------------------------------------------------------------
(* DeployService: the transitions and the remote activities.               *)

(* transition, and what deploy or finish_primary_failure does next.        *)
AfterTransition(p, t) ==
    IF t.goal \in Terminal THEN Returned(p, t.env, t.id, t.goal)
    ELSE Doing("start", t.env, "deployment", t.id, FirstActivity[t.goal], 1)

(* Variant: the new state is kept in memory only. *)
AdvanceInMemory(w) ==
    /\ worker[w].pc = "transition"
    /\ GoTo(w, AfterTransition(Home[w], worker[w]))
    /\ UNCHANGED <<storeVars, inflight>> /\ Local

Advance(w) ==
    /\ worker[w].pc = "transition"
    /\ Store!Transition(worker[w].id, worker[w].mem, worker[w].goal)
    /\ GoTo(w, AfterTransition(Home[w], worker[w]))
    /\ UNCHANGED inflight /\ Local

CallOf(t) == [kind |-> t.kind, id |-> t.id, env |-> t.env, act |-> t.act]

Issue(t) ==
    inflight' = inflight \cup (IF t.act \in Mutating THEN {CallOf(t)} ELSE {})

(* start_attempt of a deployment, and the remote call it covers.  The      *)
(* calls of an explicit rollback have no attempts.                         *)
StartCall(w) ==
    /\ worker[w].pc = "start"
    /\ IF worker[w].kind = "deployment" THEN Store!StartStep(worker[w].id)
       ELSE UNCHANGED storeVars
    /\ Issue(worker[w])
    /\ GoTo(w, [worker[w] EXCEPT !.pc = "call"])
    /\ Local

(* run_verification_with_retry and its two siblings in DeployService: only *)
(* a completed verification that failed is tried again.                    *)
RetriesVerification(t, result) ==
    /\ t.act \in Verification
    /\ result = "failed"
    /\ t.tries < MaxVerificationAttempts

RollbackAfterReply(t, result) ==
    CASE result = "ok" /\ FollowsInRollback(t.act) # "none" ->
            Doing("start", t.env, t.kind, t.id, FollowsInRollback(t.act), 1)
      [] result = "ok" /\ FollowsInRollback(t.act) = "none" ->
            Settling(t.env, t.id, "succeeded")
      [] RetriesVerification(t, result) ->
            [t EXCEPT !.pc = "start", !.tries = @ + 1]
      [] OTHER -> Settling(t.env, t.id, "failed")

AfterReply(t, result) ==
    IF t.kind = "deployment" THEN Finishing(t, result)
    ELSE RollbackAfterReply(t, result)

(* The remote reports success or failure: the call has ended there. *)
Reply(w, result) ==
    /\ worker[w].pc = "call"
    /\ inflight' = inflight \ {CallOf(worker[w])}
    /\ GoTo(w, AfterReply(worker[w], result))
    /\ UNCHANGED storeVars /\ Local

(* RemoteExecutionError::Transport or InvalidResponse: an error to the     *)
(* caller, while the call may still run.                                   *)
LoseReply(w) ==
    /\ TransportLoss
    /\ worker[w].pc = "call"
    /\ GoTo(w, AfterReply(worker[w], "failed"))
    /\ UNCHANGED <<storeVars, inflight>> /\ Local

(* Variant: the timeout of an explicit rollback is an ordinary failure.    *)
TimeOutFails(w) ==
    /\ worker[w].pc = "call"
    /\ GoTo(w, IF worker[w].kind = "deployment"
               THEN Finishing(worker[w], "timeout")
               ELSE Settling(worker[w].env, worker[w].id, "failed"))
    /\ UNCHANGED <<storeVars, inflight>> /\ Local

(* Variant: an explicit rollback waits for the remote without a timeout.   *)
TimeOutOfDeploymentsOnly(w) ==
    /\ worker[w].pc = "call" /\ worker[w].kind = "deployment"
    /\ GoTo(w, Finishing(worker[w], "timeout"))
    /\ UNCHANGED <<storeVars, inflight>> /\ Local

(* tokio::time::timeout around each call of a deployment, and around the   *)
(* whole sequence of an explicit rollback, which leaves it STARTED.        *)
TimeOut(w) ==
    /\ \/ /\ worker[w].pc = "call" /\ worker[w].kind = "deployment"
          /\ GoTo(w, Finishing(worker[w], "timeout"))
       \/ /\ worker[w].pc \in {"start", "call"}
          /\ worker[w].kind = "rollback_operation"
          /\ GoTo(w, Idle)
    /\ UNCHANGED <<storeVars, inflight>> /\ Local

(* What follows a finished attempt: the rest of deploy, or                 *)
(* finish_primary_failure, or execute_rollback and its result.             *)
AfterAttempt(p, t) ==
    LET state == StateDuring[t.act]
        next  == FollowsWithin(p, t.env, t.act)
    IN  CASE t.result = "ok" /\ next # "none" ->
                Doing("start", t.env, "deployment", t.id, next, 1)
          [] t.result = "ok" /\ next = "none" ->
                Moving(t.env, t.id, state, StateAfter[state])
          [] RetriesVerification(t, t.result) ->
                Doing("start", t.env, "deployment", t.id, t.act, t.tries + 1)
          [] t.result = "timeout" /\ state \in HasLiveMutationStarted -> Idle
          [] OTHER ->
                Moving(t.env, t.id, state,
                    CASE t.act \in Recovering -> "rollback_failed"
                      [] t.act \notin Recovering
                         /\ RequiresRollbackAfterFailure(StepOf[t.act],
                                t.env \in RollbackConfigured[p]) -> "rolling_back"
                      [] OTHER -> "failed")

(* finish_from_failure. *)
FinishAttempt(w) ==
    /\ worker[w].pc = "finish"
    /\ Store!FinishStep(worker[w].id)
    /\ GoTo(w, AfterAttempt(Home[w], worker[w]))
    /\ UNCHANGED inflight /\ Local
-----------------------------------------------------------------------------
(* RollbackService::rollback.                                              *)

(* get: the deployment exists and is in an eligible state. *)
RequestRollback(w, d) ==
    /\ Up(Home[w])
    /\ worker[w] = Idle
    /\ d \in Store!DeploymentIds
    /\ deployments[d].state \in RollbackEligible
    /\ GoTo(w, Considering("reference", deployments[d].env, d))
    /\ UNCHANGED <<storeVars, inflight>> /\ Local

(* get_reference: its snapshot exists and matches the configuration. *)
FindReference(w) ==
    /\ worker[w].pc = "reference"
    /\ Store!ReferenceVisible(worker[w].id)
    /\ worker[w].env \in RollbackConfigured[Home[w]]
    /\ GoTo(w, [worker[w] EXCEPT !.pc = "acquire"])
    /\ UNCHANGED <<storeVars, inflight>> /\ Local

AcquireForRollback(w) ==
    /\ worker[w].pc = "acquire"
    /\ TryAcquire(w, [worker[w] EXCEPT !.pc = "begin"])
    /\ UNCHANGED <<storeVars, inflight>> /\ Local

Begin(w) ==
    /\ worker[w].pc = "begin"
    /\ Store!BeginOperation(worker[w].id)
    /\ GoTo(w, Doing("start", worker[w].env, "rollback_operation",
                     Len(operations) + 1, "preflight", 1))
    /\ UNCHANGED inflight /\ Local

(* finish_operation, on success or in finish_failed. *)
Settle(w) ==
    /\ worker[w].pc = "settle"
    /\ Store!FinishOperation(worker[w].id, worker[w].outcome)
    /\ GoTo(w, Idle)
    /\ UNCHANGED inflight /\ Local
-----------------------------------------------------------------------------
(* Every error ends the request: nothing is retried and nothing undone.    *)

(* The call w is about to make returns an error.  Whether the contract of  *)
(* a reference that exists still matches depends on the configuration, so  *)
(* that here a rollback that considers one may always be refused.          *)
Refused(w) ==
    LET t == worker[w] IN
    CASE t.pc = "conflict"   -> Store!DeploymentActive(t.env)
      [] t.pc = "reserve"    -> /\ \A d \in Store!DeploymentIds :
                                       ~Store!Replays(t.req, d)
                                /\ \/ ~Store!MayReserve(t.req)
                                   \/ Len(deployments) = MaxDeployments
      [] t.pc = "transition" -> ~Store!StateIs(t.id, t.mem)
      [] t.pc = "finish"     -> t.id \notin openAttempts
      [] t.pc = "record"     -> \/ ~Store!EligibleSource(t.id)
                                \/ references[t.id] \notin {"none", "active"}
      [] t.pc = "reference"  -> TRUE
      [] t.pc = "acquire"    -> t.env \in leases[Home[w]]
      [] t.pc = "begin"      -> \/ ~Store!EligibleSource(t.id)
                                \/ references[t.id] # "active"
                                \/ ~Store!MayInsertOperation(t.env)
                                \/ Len(operations) = MaxOperations
      [] t.pc = "settle"     -> \/ operations[t.id].state # "started"
                                \/ /\ t.outcome = "succeeded"
                                   /\ references[operations[t.id].source]
                                          # "active"
      [] OTHER               -> FALSE

(* The call w is about to make goes to the repository. *)
CallsRepository(t) ==
    \/ t.pc \in {"conflict", "reserve", "transition", "finish", "record",
                 "reference", "begin", "settle"}
    \/ t.pc = "start" /\ t.kind = "deployment"

GiveUp(w) ==
    /\ \/ Refused(w)
       \/ StorageFaults /\ CallsRepository(worker[w])
    /\ GoTo(w, Idle)
    /\ UNCHANGED <<storeVars, inflight>> /\ Local
-----------------------------------------------------------------------------
(* main: startup recovery, retention, then service; and the end of it.     *)

Stopped == [phase |-> "down", todo |-> {}]

(* Variant: only deployments past the side-effect boundary are read.       *)
StartWithMutatingOnly(p) ==
    /\ proc[p] = Stopped
    /\ SingleInstance => \A q \in Processes : proc[q] = Stopped
    /\ proc' = [proc EXCEPT ![p] =
                   [phase |-> "deployments",
                    todo |-> {<<d, deployments[d].state>> :
                        d \in {d \in Store!DeploymentIds :
                                   deployments[d].state \in
                                       NonTerminal \cap HasLiveMutationStarted}}]]
    /\ UNCHANGED <<storeVars, worker, leases, inflight, crashes>>

(* interrupted_deployments. *)
Start(p) ==
    /\ proc[p] = Stopped
    /\ SingleInstance => \A q \in Processes : proc[q] = Stopped
    /\ proc' = [proc EXCEPT ![p] =
                   [phase |-> "deployments",
                    todo |-> {<<d, deployments[d].state>> :
                        d \in {d \in Store!DeploymentIds :
                                   deployments[d].state \in NonTerminal}}]]
    /\ UNCHANGED <<storeVars, worker, leases, inflight, crashes>>

(* Variant: the loop does not move past a record it has handled.           *)
RecoverWithoutMovingOn(p) ==
    /\ proc[p].phase = "deployments"
    /\ \E r \in proc[p].todo :
           \/ Store!RecoverDeployment(r[1], r[2])
           \/ ~Store!StateIs(r[1], r[2]) /\ UNCHANGED storeVars
    /\ UNCHANGED <<worker, leases, proc, inflight, crashes>>

(* recover, one deployment: skipped when its state is no longer the one    *)
(* that was read.                                                          *)
RecoverDeployment(p) ==
    /\ proc[p].phase = "deployments"
    /\ \E r \in proc[p].todo :
           /\ \/ Store!RecoverDeployment(r[1], r[2])
              \/ ~Store!StateIs(r[1], r[2]) /\ UNCHANGED storeVars
           /\ proc' = [proc EXCEPT ![p].todo = @ \ {r}]
    /\ UNCHANGED <<worker, leases, inflight, crashes>>

(* started_rollback_operations. *)
ReadOperations(p) ==
    /\ proc[p].phase = "deployments" /\ proc[p].todo = {}
    /\ proc' = [proc EXCEPT ![p] =
                   [phase |-> "operations",
                    todo |-> {o \in Store!OperationIds :
                                  operations[o].state = "started"}]]
    /\ UNCHANGED <<storeVars, worker, leases, inflight, crashes>>

RecoverOperation(p) ==
    /\ proc[p].phase = "operations"
    /\ \E o \in proc[p].todo :
           /\ \/ Store!RecoverOperation(o)
              \/ operations[o].state # "started" /\ UNCHANGED storeVars
           /\ proc' = [proc EXCEPT ![p].todo = @ \ {o}]
    /\ UNCHANGED <<worker, leases, inflight, crashes>>

(* Retention, and only then are the services created. *)
Serve(p) ==
    /\ proc[p].phase = "operations" /\ proc[p].todo = {}
    /\ \E batch \in SUBSET Store!Prunable : Store!Prune(batch)
    /\ proc' = [proc EXCEPT ![p] = [phase |-> "up", todo |-> {}]]
    /\ UNCHANGED <<worker, leases, inflight, crashes>>

(* A process stops at any point, a failed startup included. *)
Crash(p) ==
    /\ proc[p] # Stopped
    /\ crashes < MaxCrashes
    /\ crashes' = crashes + 1
    /\ proc' = [proc EXCEPT ![p] = Stopped]
    /\ worker' = [w \in Workers |-> IF Home[w] = p THEN Idle ELSE worker[w]]
    /\ leases' = [leases EXCEPT ![p] = {}]
    /\ UNCHANGED <<storeVars, inflight>>
-----------------------------------------------------------------------------
(* The environment of the processes.                                       *)

Awaited(c) ==
    \E w \in Workers : worker[w].pc = "call" /\ CallOf(worker[w]) = c

(* A call nobody waits for any more comes to its end on the remote host.   *)
RemoteEnds(c) ==
    /\ ~Awaited(c)
    /\ inflight' = inflight \ {c}
    /\ UNCHANGED <<storeVars, worker, leases>> /\ Local

(* The operator inspects the remote host, finds nothing running for the    *)
(* environment, and acknowledges.                                          *)
Acknowledge(i) ==
    /\ \A c \in inflight : c.env # i.env
    /\ Store!Acknowledge(i)
    /\ UNCHANGED <<worker, leases, inflight>> /\ Local
-----------------------------------------------------------------------------
Init ==
    /\ Store!Init
    /\ worker = [w \in Workers |-> Idle]
    /\ leases = [p \in Processes |-> {}]
    /\ proc = [p \in Processes |-> Stopped]
    /\ inflight = {}
    /\ crashes = 0

(* A request goes on by the process's own work; while it waits for the     *)
(* remote, that work is the timer.                                         *)
Progress(w) ==
    \/ CheckConflict(w) \/ Reserve(w) \/ Reuse(w) \/ Record(w)
    \/ Advance(w) \/ StartCall(w) \/ TimeOut(w) \/ FinishAttempt(w)
    \/ FindReference(w) \/ AcquireForRollback(w) \/ Begin(w) \/ Settle(w)
    \/ GiveUp(w)

Recover(p) ==
    \/ RecoverDeployment(p) \/ ReadOperations(p) \/ RecoverOperation(p)
    \/ Serve(p)

Next ==
    \/ \E w \in Workers :
           \/ \E req \in Requests : Submit(w, req)
           \/ \E d \in Store!DeploymentIds : RequestRollback(w, d)
           \/ Progress(w)
           \/ \E result \in {"ok", "failed"} : Reply(w, result)
           \/ LoseReply(w)
    \/ \E p \in Processes : Start(p) \/ Recover(p) \/ Crash(p)
    \/ \E c \in inflight : RemoteEnds(c)
    \/ \E i \in incidents : Acknowledge(i)

Spec == Init /\ [][Next]_vars

(* tokio keeps polling the tasks and timers of a live process, and every   *)
(* repository call returns; main runs its startup sequence to the end.     *)
(* Nothing is assumed of clients, of the remote hosts (no call need ever   *)
(* be answered), of the operator or of whoever restarts a process.         *)
Fairness ==
    /\ \A w \in Workers : WF_vars(Progress(w))
    /\ \A p \in Processes : WF_vars(Recover(p))

FairSpec == Spec /\ Fairness
-----------------------------------------------------------------------------
(* Type invariant. *)
TypeOK ==
    /\ Store!TypeOK
    /\ \A w \in Workers :
           LET t == worker[w] IN
           \/ t = Idle
           \/ t.pc \in {"conflict", "reserve"} /\ t.req \in Requests
           \/ /\ t.pc \in {"transition", "start", "call", "finish", "record",
                            "reference", "acquire", "begin", "settle"}
              /\ t.env \in Environments
              /\ t.id \in Store!DeploymentIds \cup Store!OperationIds
    /\ leases \in [Processes -> SUBSET Environments]
    /\ \A p \in Processes :
           proc[p].phase \in {"down", "deployments", "operations", "up"}
    /\ inflight \subseteq [kind: {"deployment", "rollback_operation"}, id: Nat,
                           env: Environments, act: Mutating]
    /\ crashes \in 0 .. MaxCrashes

(* A lease is held by exactly one request of its process, and is returned  *)
(* on every path out of the services, errors and timeouts included.        *)
LeaseHeldOnce ==
    \A p \in Processes, e \in Environments :
        LET holders == {w \in Workers : /\ Home[w] = p
                                        /\ HoldsLease(worker[w])
                                        /\ worker[w].env = e}
        IN  IF e \in leases[p] THEN Cardinality(holders) = 1 ELSE holders = {}

(* The request orchestrating a deployment knows its durable state, and the *)
(* operation a rollback drives is still started: nobody else closes the    *)
(* record of a request that is running.                                    *)
RunsOnItsRecord ==
    \A w \in Workers :
        LET t == worker[w] IN
        /\ t.pc = "transition" => deployments[t.id].state = t.mem
        /\ t.pc = "finish" => deployments[t.id].state = StateDuring[t.act]
        /\ t.pc \in {"start", "call"} =>
               IF t.kind = "deployment"
               THEN deployments[t.id].state = StateDuring[t.act]
               ELSE operations[t.id].state = "started"
        /\ t.pc = "settle" => operations[t.id].state = "started"

(* An attempt is open only while its deployment is active: no path decides *)
(* a deployment and forgets an attempt.                                    *)
AttemptsClosed ==
    \A d \in openAttempts : deployments[d].state \in NonTerminal

(* While a side-effecting call may still run, the environment is held by   *)
(* the record that made it: the record is still active, or it was closed   *)
(* by recovery and its incident is unresolved.                             *)
CallsGuarded ==
    \A c \in inflight :
        \/ c.kind = "deployment" /\ deployments[c.id].state \in NonTerminal
        \/ c.kind = "rollback_operation" /\ operations[c.id].state = "started"
        \/ \E i \in incidents : /\ i.kind = c.kind /\ i.subject = c.id
                                /\ i.status = "unresolved"

(* A deployment that recovery closed without quarantine never changes the  *)
(* target, not even when the process that ran it is still alive: every     *)
(* path to its first side effect passes a compare-and-swap.                *)
DiscardedNeverMutates ==
    \A c \in inflight, i \in incidents :
        i.status = "auto_resolved" => ~(i.kind = c.kind /\ i.subject = c.id)

(* An environment is never changed by two remote calls at the same time.   *)
OneMutationAtATime ==
    \A b, c \in inflight : b.env = c.env => b = c

(* A deployment that a request closes as failed after the live artifact    *)
(* may have been replaced had no rollback task to run: the configuration   *)
(* of the process that serves the request names none.                      *)
RollbackIsTried ==
    [][ \A d \in DOMAIN deployments :
            /\ deployments[d].state \in HasLiveArtifactReplacementStarted
            /\ deployments'[d].state = "failed"
            /\ deployments[d].state # "failed"
            /\ incidents' = incidents
            => \E w \in Workers :
                   /\ worker[w].pc = "transition" /\ worker[w].id = d
                   /\ deployments[d].env \notin RollbackConfigured[Home[w]]
      ]_vars

(* When a process begins to serve, no record of an earlier process is      *)
(* active any more, though starts before it stopped amid their recovery.   *)
ServesRecovered ==
    [][ \A p \in Processes :
            proc[p].phase # "up" /\ proc'[p].phase = "up" =>
                /\ \A d \in DOMAIN deployments :
                       deployments[d].state \in Terminal
                /\ \A o \in DOMAIN operations :
                       operations[o].state # "started"
      ]_vars

(* The services and recovery use the store only through its transactions,  *)
(* so that what is proved of the store's most general client holds of them *)
(* too.  Not a check of the code: each action above calls one of them.     *)
UsesStore == Store!Spec

(* Whatever requests race, a version of an environment always names the    *)
(* same bytes, and an idempotency key names one deployment.                *)
IdentityStable == Store!IdentityStable

(* deploy() has dropped the lease when a reference is recorded: whatever   *)
(* this or another process deploys and records in between, references      *)
(* follow the order of their deployments.                                  *)
ReferencesInOrder == Store!ReferencesInOrder

(* Every request comes to an end, whatever fails. *)
RequestEnds ==
    \A w \in Workers : worker[w] # Idle ~> worker[w] = Idle

(* Startup recovery comes to an end. *)
StartupEnds ==
    \A p \in Processes :
        proc[p].phase \in {"deployments", "operations"}
            ~> proc[p].phase \in {"up", "down"}
=============================================================================
