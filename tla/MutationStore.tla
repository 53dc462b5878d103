--------------------------- MODULE MutationStore ---------------------------
(***************************************************************************)
(* The durable SQLite store: deployments, step attempts, rollback          *)
(* references, rollback operations, recovery incidents and idempotency     *)
(* keys.  One action per repository transaction, with the constraints      *)
(* that the schema adds (unique partial indexes and BEFORE INSERT          *)
(* triggers) as guards.  Every action is the transaction that commits; a   *)
(* transaction that errors changes nothing and is a stuttering step here,  *)
(* and the module that calls it models what the caller does then.          *)
(*                                                                         *)
(* Next is the most general client: any sequence of the calls that the     *)
(* services in src/application make.  DeployService refines it.            *)
(*                                                                         *)
(* A deployment is identified by its row number: identifiers are fresh     *)
(* UUIDs, so id and rowid are one to one, and "a newer deployment" is a    *)
(* larger index.  The same holds of rollback operations.                   *)
(***************************************************************************)
EXTENDS DeploymentLifecycle, Sequences, FiniteSets

CONSTANTS
    Environments,    \* the configured (application, environment) pairs
    Versions,        \* requested artifact versions
    Digests,         \* (sha256, size) of the artifact bytes
    Keys,            \* idempotency keys
    NoKey,           \* a request without an idempotency key
    CleanupBatch,    \* runtime.rollback_reference_cleanup_batch_size
    MaxDeployments,  \* bound: rows of the deployments table
    MaxOperations    \* bound: rows of the rollback_operations table

(* What a module that instantiates this one has to see to.  The proofs     *)
(* about the store do without it.                                          *)
ConstantsAssumption ==
    /\ NoKey \notin Keys
    /\ CleanupBatch \in Nat
    /\ MaxDeployments \in Nat
    /\ MaxOperations \in Nat

VARIABLES
    deployments,   \* deployments joined with deployment_idempotency and
                   \*   deployment_model_metadata, in rowid order
    openAttempts,  \* deployments with a 'started' deployment_step_attempts row
    references,    \* references[d]: rollback_references.state, or "none"
    pruned,        \* rollback_reference_retention: references without snapshot
    operations,    \* rollback_operations, in rowid order
    incidents      \* recovery_incidents joined with recovery_acknowledgements

storeVars == <<deployments, openAttempts, references, pruned, operations,
               incidents>>

Release == [version: Versions, digest: Digests]
DeploymentRow == [env: Environments, release: Release, key: Keys \cup {NoKey},
                  state: DeploymentState]
ReferenceState == {"none", "active", "superseded", "consumed"}
OperationState == {"started", "succeeded", "failed"}
OperationRow == [source: Nat \ {0}, env: Environments, state: OperationState]

(* status joins disposition and resolved_at: an auto_resolved incident is  *)
(* resolved when it is written, a manual one is unresolved until its       *)
(* acknowledgement row exists.                                             *)
IncidentRow == [kind: {"deployment", "rollback_operation"},
                subject: Nat \ {0}, env: Environments,
                status: {"auto_resolved", "unresolved", "acknowledged"}]

DeploymentIds == 1 .. Len(deployments)
OperationIds == 1 .. Len(operations)

Init ==
    /\ deployments = <<>>
    /\ openAttempts = {}
    /\ references = <<>>
    /\ pruned = {}
    /\ operations = <<>>
    /\ incidents = {}
-----------------------------------------------------------------------------
(* The conditions the schema's indexes and triggers test.                  *)

(* idx_deployments_active_environment, trg_rollback_blocked_by_deployment  *)
DeploymentActive(e) ==
    \E d \in DeploymentIds :
        deployments[d].env = e /\ deployments[d].state \in NonTerminal

(* idx_rollback_operation_active_environment,                              *)
(* trg_deployment_blocked_by_rollback                                      *)
RollbackStarted(e) ==
    \E o \in OperationIds :
        operations[o].env = e /\ operations[o].state = "started"

(* idx_recovery_incident_unresolved_environment, trg_*_blocked_by_recovery *)
Quarantined(e) == \E i \in incidents : i.env = e /\ i.status = "unresolved"

(* Variant: trg_deployment_blocked_by_rollback is missing. *)
MayInsertDuringRollback(e) == ~DeploymentActive(e) /\ ~Quarantined(e)

(* Variant: trg_deployment_blocked_by_recovery is missing. *)
MayInsertInQuarantine(e) == ~DeploymentActive(e) /\ ~RollbackStarted(e)

(* A row may be inserted into deployments. *)
MayInsertDeployment(e) ==
    ~DeploymentActive(e) /\ ~RollbackStarted(e) /\ ~Quarantined(e)

(* A row may be inserted into rollback_operations. *)
MayInsertOperation(e) ==
    ~RollbackStarted(e) /\ ~DeploymentActive(e) /\ ~Quarantined(e)

(* ensure_source_is_latest *)
IsLatest(d) ==
    \A n \in DeploymentIds : deployments[n].env = deployments[d].env => n <= d
-----------------------------------------------------------------------------
(* DeploymentRepository                                                    *)

(* same_request_identity *)
SameRequestIdentity(d, req) ==
    deployments[d].env = req.env /\ deployments[d].release = req.release

BoundTo(key) == {d \in DeploymentIds : key # NoKey /\ deployments[d].key = key}

(* Variant: only rows with the same idempotency key are compared.          *)
VersionConflictPerKey(req) ==
    \E d \in DeploymentIds :
        /\ deployments[d].env = req.env
        /\ deployments[d].key = req.key
        /\ deployments[d].release.version = req.release.version
        /\ deployments[d].release.digest # req.release.digest

VersionConflict(req) ==
    \E d \in DeploymentIds :
        /\ deployments[d].env = req.env
        /\ deployments[d].release.version = req.release.version
        /\ deployments[d].release.digest # req.release.digest

Request == [env: Environments, release: Release, key: Keys \cup {NoKey}]

(* reserve, first query: the key is bound and the bound deployment has the *)
(* same identity, so that deployment is returned.                          *)
Replays(req, d) == d \in BoundTo(req.key) /\ SameRequestIdentity(d, req)

(* reserve, past its early returns, when the INSERT is accepted. *)
MayReserve(req) ==
    /\ BoundTo(req.key) = {}
    /\ ~VersionConflict(req)
    /\ MayInsertDeployment(req.env)

Reserve(req) ==
    /\ MayReserve(req)
    /\ Len(deployments) < MaxDeployments
    /\ deployments' = Append(deployments,
           [env |-> req.env, release |-> req.release, key |-> req.key,
            state |-> "created"])
    /\ references' = Append(references, "none")
    /\ UNCHANGED <<openAttempts, pruned, operations, incidents>>

(* Variant: an UPDATE by id alone. *)
RowExists(d, from) == d \in DeploymentIds

(* The compare-and-swap UPDATE of persist_transition. *)
StateIs(d, from) == d \in DeploymentIds /\ deployments[d].state = from

(* DeployService::transition: the domain check, then persist_transition.   *)
Transition(d, from, to) ==
    /\ <<from, to>> \in CanTransition
    /\ StateIs(d, from)
    /\ deployments' = [deployments EXCEPT ![d].state = to]
    /\ UNCHANGED <<openAttempts, references, pruned, operations, incidents>>

(* start_step: the foreign key is its only check.  The orchestration of a  *)
(* deployment is sequential, so at most one of its attempts is open.       *)
StartStep(d) ==
    /\ d \in DeploymentIds \ openAttempts
    /\ openAttempts' = openAttempts \cup {d}
    /\ UNCHANGED <<deployments, references, pruned, operations, incidents>>

(* finish_step: UPDATE ... WHERE status = 'started'. *)
FinishStep(d) ==
    /\ d \in openAttempts
    /\ openAttempts' = openAttempts \ {d}
    /\ UNCHANGED <<deployments, references, pruned, operations, incidents>>
-----------------------------------------------------------------------------
(* RollbackRepository                                                      *)

(* Variant: ensure_source_is_latest is left out. *)
EligibleInState(d) ==
    d \in DeploymentIds /\ deployments[d].state \in RollbackEligible

EligibleSource(d) ==
    /\ d \in DeploymentIds
    /\ deployments[d].state \in RollbackEligible
    /\ IsLatest(d)

(* Variant: the previous reference stays active. *)
RecordWithoutSuperseding(d) ==
    /\ EligibleSource(d)
    /\ references[d] \in {"none", "active"}
    /\ references' = [references EXCEPT ![d] = "active"]
    /\ UNCHANGED <<deployments, openAttempts, pruned, operations, incidents>>

(* record_reference: an existing active reference is left as it is; an     *)
(* inactive one is an error; otherwise the environment's active reference  *)
(* is superseded by the new one.                                           *)
RecordReference(d) ==
    /\ EligibleSource(d)
    /\ references[d] \in {"none", "active"}
    /\ references' =
         IF references[d] = "active" THEN references
         ELSE [r \in DOMAIN references |->
                 CASE r = d -> "active"
                   [] r # d /\ references[r] = "active"
                            /\ deployments[r].env = deployments[d].env
                        -> "superseded"
                   [] OTHER -> references[r]]
    /\ UNCHANGED <<deployments, openAttempts, pruned, operations, incidents>>

(* get_reference hides a pruned snapshot. *)
ReferenceVisible(d) == references[d] # "none" /\ d \notin pruned

BeginOperation(d) ==
    /\ EligibleSource(d)
    /\ references[d] = "active"
    /\ MayInsertOperation(deployments[d].env)
    /\ Len(operations) < MaxOperations
    /\ operations' = Append(operations,
           [source |-> d, env |-> deployments[d].env, state |-> "started"])
    /\ UNCHANGED <<deployments, openAttempts, references, pruned, incidents>>

(* Variant: the reference is left active for another use. *)
FinishWithoutConsuming(o, outcome) ==
    /\ o \in OperationIds
    /\ operations[o].state = "started"
    /\ operations' = [operations EXCEPT ![o].state = outcome]
    /\ UNCHANGED <<deployments, openAttempts, references, pruned, incidents>>

(* finish_operation: success consumes the active reference in the same     *)
(* transaction, which aborts when there is none.                           *)
FinishOperation(o, outcome) ==
    /\ o \in OperationIds
    /\ operations[o].state = "started"
    /\ operations' = [operations EXCEPT ![o].state = outcome]
    /\ \/ /\ outcome = "succeeded"
          /\ references[operations[o].source] = "active"
          /\ references' =
                 [references EXCEPT ![operations[o].source] = "consumed"]
       \/ outcome = "failed" /\ UNCHANGED references
    /\ UNCHANGED <<deployments, openAttempts, pruned, incidents>>

(* Variant: every reference past the cutoff is pruned. *)
PrunableAnyState == {d \in DeploymentIds : references[d] # "none"} \ pruned

(* prune_inactive_reference_snapshots: one batch of inactive references    *)
(* not pruned before.  Which of them are past the cutoff is left open.     *)
Prunable ==
    {d \in DeploymentIds : references[d] \in {"superseded", "consumed"}} \ pruned

Prune(batch) ==
    /\ batch \subseteq Prunable
    /\ Cardinality(batch) <= CleanupBatch
    /\ pruned' = pruned \cup batch
    /\ UNCHANGED <<deployments, openAttempts, references, operations, incidents>>
-----------------------------------------------------------------------------
(* RecoveryRepository                                                      *)

(* insert_incident, under the two unique indexes of recovery_incidents.    *)
InsertIncident(kind, subject, e, status) ==
    /\ \A i \in incidents : ~(i.kind = kind /\ i.subject = subject)
    /\ status = "unresolved" => ~Quarantined(e)
    /\ incidents' = incidents \cup
           {[kind |-> kind, subject |-> subject, env |-> e, status |-> status]}

(* Variant: only a replaced artifact calls for reconciliation.             *)
DispositionLate(from) ==
    IF from \in HasLiveArtifactReplacementStarted
    THEN "unresolved" ELSE "auto_resolved"

(* StartupRecoveryService::recover chooses the disposition. *)
Disposition(from) ==
    IF from \in HasLiveMutationStarted THEN "unresolved" ELSE "auto_resolved"

(* Variant: a state of its own, outside the states the table admits.       *)
RecoverAsInterrupted(d, from) ==
    /\ from \in NonTerminal
    /\ StateIs(d, from)
    /\ deployments' = [deployments EXCEPT ![d].state = "interrupted"]
    /\ openAttempts' = openAttempts \ {d}
    /\ InsertIncident("deployment", d, deployments[d].env, Disposition(from))
    /\ UNCHANGED <<references, pruned, operations>>

(* Variant: the open attempts of the deployment are forgotten.             *)
RecoverLeavingAttempts(d, from) ==
    /\ from \in NonTerminal
    /\ StateIs(d, from)
    /\ deployments' = [deployments EXCEPT ![d].state = "failed"]
    /\ InsertIncident("deployment", d, deployments[d].env, Disposition(from))
    /\ UNCHANGED <<openAttempts, references, pruned, operations>>

(* recover_deployment: compare-and-swap on the state the caller read. *)
RecoverDeployment(d, from) ==
    /\ from \in NonTerminal
    /\ StateIs(d, from)
    /\ deployments' = [deployments EXCEPT ![d].state = "failed"]
    /\ openAttempts' = openAttempts \ {d}
    /\ InsertIncident("deployment", d, deployments[d].env, Disposition(from))
    /\ UNCHANGED <<references, pruned, operations>>

RecoverOperation(o) ==
    /\ o \in OperationIds
    /\ operations[o].state = "started"
    /\ operations' = [operations EXCEPT ![o].state = "failed"]
    /\ InsertIncident("rollback_operation", o, operations[o].env, "unresolved")
    /\ UNCHANGED <<deployments, openAttempts, references, pruned>>

(* acknowledge_incident, for the exact identity of an unresolved manual    *)
(* incident.                                                               *)
Acknowledge(i) ==
    /\ i \in incidents
    /\ i.status = "unresolved"
    /\ incidents' = (incidents \ {i}) \cup {[i EXCEPT !.status = "acknowledged"]}
    /\ UNCHANGED <<deployments, openAttempts, references, pruned, operations>>
-----------------------------------------------------------------------------
Next ==
    \/ \E req \in Request : Reserve(req)
    \/ \E d \in DeploymentIds, from, to \in DeploymentState :
           Transition(d, from, to)
    \/ \E d \in DeploymentIds : StartStep(d) \/ FinishStep(d)
    \/ \E d \in DeploymentIds : RecordReference(d) \/ BeginOperation(d)
    \/ \E o \in OperationIds, outcome \in {"succeeded", "failed"} :
           FinishOperation(o, outcome)
    \/ \E batch \in SUBSET Prunable : Prune(batch)
    \/ \E d \in DeploymentIds, from \in DeploymentState :
           RecoverDeployment(d, from)
    \/ \E o \in OperationIds : RecoverOperation(o)
    \/ \E i \in incidents : Acknowledge(i)

Spec == Init /\ [][Next]_storeVars
-----------------------------------------------------------------------------
(* Type invariant: every table holds well-formed rows. *)
TypeOK ==
    /\ deployments \in Seq(DeploymentRow)
    /\ openAttempts \subseteq DeploymentIds
    /\ references \in Seq(ReferenceState)
    /\ Len(references) = Len(deployments)
    /\ pruned \subseteq DeploymentIds
    /\ operations \in Seq(OperationRow)
    /\ incidents \subseteq IncidentRow

OneActiveDeployment ==
    \A c, d \in DeploymentIds :
        /\ deployments[c].state \in NonTerminal
        /\ deployments[d].state \in NonTerminal
        /\ deployments[c].env = deployments[d].env
        => c = d

OneStartedRollback ==
    \A o, p \in OperationIds :
        /\ operations[o].state = "started" /\ operations[p].state = "started"
        /\ operations[o].env = operations[p].env
        => o = p

OneQuarantine ==
    \A i, j \in incidents :
        i.status = "unresolved" /\ j.status = "unresolved" /\ i.env = j.env
            => i = j

HoldersExclude ==
    \A e \in Environments :
        /\ ~(DeploymentActive(e) /\ RollbackStarted(e))
        /\ ~(DeploymentActive(e) /\ Quarantined(e))
        /\ ~(RollbackStarted(e) /\ Quarantined(e))

(* At most one thing holds an environment: an active deployment, a started *)
(* explicit rollback, or an unresolved incident.  No single constraint     *)
(* says so: it follows from three unique indexes, four triggers and the    *)
(* compare-and-swap updates together.                                      *)
GuardExclusive ==
    /\ OneActiveDeployment
    /\ OneStartedRollback
    /\ OneQuarantine
    /\ HoldersExclude

(* An incident's subject is a record of its environment that recovery      *)
(* failed and nothing has touched since, and no subject has two incidents. *)
IncidentSubjectFailed ==
    /\ \A i \in incidents :
           \/ /\ i.kind = "deployment"
              /\ i.subject \in DeploymentIds
              /\ deployments[i.subject].state = "failed"
              /\ deployments[i.subject].env = i.env
           \/ /\ i.kind = "rollback_operation"
              /\ i.subject \in OperationIds
              /\ operations[i.subject].state = "failed"
              /\ operations[i.subject].env = i.env
    /\ \A i, j \in incidents :
           i.kind = j.kind /\ i.subject = j.subject => i = j

(* Startup recovery cannot fail on a constraint: for everything it finds   *)
(* interrupted, the transaction that closes the record can also write its  *)
(* incident.  (main.rs refuses to start when recovery returns an error.)   *)
RecoveryNeverBlocked ==
    /\ \A d \in DeploymentIds :
           deployments[d].state \in NonTerminal =>
               /\ ~\E i \in incidents : i.kind = "deployment" /\ i.subject = d
               /\ ~Quarantined(deployments[d].env)
    /\ \A o \in OperationIds :
           operations[o].state = "started" =>
               /\ ~\E i \in incidents :
                      i.kind = "rollback_operation" /\ i.subject = o
               /\ ~Quarantined(operations[o].env)

(* While an explicit rollback is started, its source is still the latest   *)
(* deployment of the environment, still eligible, and its reference still  *)
(* active with its snapshot: nothing that runs meanwhile may supersede,    *)
(* consume or prune it, so finish_operation finds the reference to consume.*)
StartedRollbackHoldsReference ==
    \A o \in OperationIds :
        operations[o].state = "started" =>
            /\ EligibleSource(operations[o].source)
            /\ deployments[operations[o].source].env = operations[o].env
            /\ references[operations[o].source] = "active"
            /\ ReferenceVisible(operations[o].source)

(* Retention only ever hides snapshots that can no longer be used. *)
PrunedInactive ==
    \A d \in pruned : references[d] \in {"superseded", "consumed"}

(* At most one rollback reference of an environment is active, as          *)
(* idx_rollback_reference_active_environment requires.                     *)
OneActiveReference ==
    \A c, d \in DeploymentIds :
        /\ references[c] = "active" /\ references[d] = "active"
        /\ deployments[c].env = deployments[d].env
        => c = d

(* References follow the order of their deployments, however late each is  *)
(* recorded after its deployment returned: the active one is that of the   *)
(* newest deployment that has any, and one is superseded only by that of a *)
(* newer deployment.                                                       *)
ReferencesInOrder ==
    \A d \in DeploymentIds :
        LET newer == {n \in DeploymentIds :
                          /\ deployments[n].env = deployments[d].env
                          /\ d < n /\ references[n] # "none"}
        IN  /\ references[d] = "active" => newer = {}
            /\ references[d] = "superseded" => newer # {}

(* A reference is spent exactly by one successful explicit rollback of its *)
(* deployment: a deployment is never rolled back twice.                    *)
ConsumedByOneRollback ==
    /\ \A d \in DeploymentIds :
           references[d] = "consumed" <=>
               \E o \in OperationIds :
                   operations[o].source = d /\ operations[o].state = "succeeded"
    /\ \A o, p \in OperationIds :
           /\ operations[o].state = "succeeded"
           /\ operations[p].state = "succeeded"
           /\ operations[o].source = operations[p].source
           => o = p

(* A version of an environment always names the same bytes, and an         *)
(* idempotency key names one deployment.                                   *)
IdentityStable ==
    \A c, d \in DeploymentIds :
        /\ /\ deployments[c].env = deployments[d].env
           /\ deployments[c].release.version = deployments[d].release.version
           => deployments[c].release.digest = deployments[d].release.digest
        /\ deployments[c].key = deployments[d].key /\ c # d
               => deployments[c].key = NoKey

(* History is final: a terminal deployment, a finished rollback and a      *)
(* resolved incident never change, and a reference that stopped being      *)
(* active is never active again.                                           *)
HistoryKept ==
    /\ \A d \in DeploymentIds :
          /\ deployments[d].state \in Terminal
                 => deployments'[d] = deployments[d]
          /\ references[d] \in {"superseded", "consumed"}
                 => references'[d] = references[d]
          /\ references[d] = "active" => references'[d] # "none"
    /\ \A o \in OperationIds :
          operations[o].state # "started" => operations'[o] = operations[o]
    /\ \A i \in incidents : i.status # "unresolved" => i \in incidents'

(* Every step keeps history. *)
HistoryIsFinal == [][HistoryKept]_storeVars
-----------------------------------------------------------------------------
(* The store implements MutationGuard: a mutation is a deployment or a     *)
(* rollback operation, its fate is read from its row and its incident.     *)
Mutations ==
    ({"deployment"} \X (1 .. MaxDeployments))
    \cup ({"rollback_operation"} \X (1 .. MaxOperations))

NoEnvironment == "none"

IncidentFate(kind, subject) ==
    LET i == CHOOSE i \in incidents : i.kind = kind /\ i.subject = subject
    IN  CASE i.status = "auto_resolved" -> "discarded"
          [] i.status = "unresolved"    -> "quarantined"
          [] i.status = "acknowledged"  -> "reconciled"

HasIncident(kind, subject) ==
    \E i \in incidents : i.kind = kind /\ i.subject = subject

FateOf(m) ==
    CASE m[1] = "deployment" /\ m[2] \in DeploymentIds ->
            CASE HasIncident(m[1], m[2]) -> IncidentFate(m[1], m[2])
              [] ~HasIncident(m[1], m[2])
                 /\ deployments[m[2]].state \in Terminal -> "decided"
              [] ~HasIncident(m[1], m[2])
                 /\ deployments[m[2]].state \in {"created", "prechecking"}
                 -> "preparing"
              [] OTHER -> "mutating"
      [] m[1] = "rollback_operation" /\ m[2] \in OperationIds ->
            CASE HasIncident(m[1], m[2]) -> IncidentFate(m[1], m[2])
              [] ~HasIncident(m[1], m[2])
                 /\ operations[m[2]].state = "started" -> "mutating"
              [] OTHER -> "decided"
      [] OTHER -> "unused"

HomeOf(m) ==
    CASE m[1] = "deployment" /\ m[2] \in DeploymentIds -> deployments[m[2]].env
      [] m[1] = "rollback_operation" /\ m[2] \in OperationIds
            -> operations[m[2]].env
      [] OTHER -> NoEnvironment

Guard == INSTANCE MutationGuard WITH
             home <- [m \in Mutations |-> HomeOf(m)],
             fate <- [m \in Mutations |-> FateOf(m)]

(* Refinement: every step of the store is a step of the abstract guard on  *)
(* one mutation, or none.  In particular an interrupted mutation whose     *)
(* side effects are unknown frees its environment only by acknowledgement. *)
ImplementsGuard == Guard!Spec
=============================================================================
