# Verification of deploy-mcp

deploy-mcp is a Rust program that deploys JAR services to remote hosts on behalf
of MCP clients. A request is reserved in a SQLite database, orchestrated step by
step over a remote-exec child process, and either succeeds, fails, or rolls back;
a finished deployment can be rolled back explicitly later. This directory holds
the TLA+ models of that system, the TLC runs that check them and the TLAPS proofs
about them. Paths below are relative to the repository root.

What is claimed, in a sentence: *an environment is never changed by two mutations
at once, a side effect whose outcome is unknown keeps its environment blocked
until an operator looks, the target runs one whole artifact of the recorded size or
what it ran before, and no request or recovery hangs* -- and the models show exactly
which assumptions (one process at a time, no transport errors on a running call, paths
that differ, a configuration that is not changed under an unfinished request) the
claim needs.

## 1. Inventory

### Components, their state and operations

| Component | Source | State | Operations | Modelled in |
|---|---|---|---|---|
| Deployment domain | `src/domain/deployment.rs`, `plan.rs`, `rollback.rs` | none (pure) | `can_transition_to`, `is_terminal`, `has_live_mutation_started`, `has_live_artifact_replacement_started`, `requires_rollback_after_failure`; contract fingerprints | `DeploymentLifecycle`, `JarSystemdMechanism` |
| Deployment repository | `src/persistence.rs`, `migrations/001`, `004`, `006` | deployments, idempotency keys, step attempts, transition history | `reserve`, `persist_transition`, `start_step`, `finish_step`, queries | `MutationStore` |
| Rollback repository | `src/rollback_persistence.rs`, `migrations/001`, `005`, `006` | references and their retention, rollback operations | `record_reference`, `get_reference`, `begin_operation`, `finish_operation`, `prune_inactive_reference_snapshots` | `MutationStore` |
| Recovery repository | `src/recovery_persistence.rs`, `migrations/002`, `003` | incidents, acknowledgements | `interrupted_deployments`, `started_rollback_operations`, `recover_*`, `acknowledge_incident` | `MutationStore` |
| DeployService | `src/application/deploy.rs` | one in-memory deployment per request | `deploy` and everything it calls | `DeployService` |
| RollbackService | `src/application/rollback.rs` | one operation per request | `rollback` | `DeployService` |
| DeploymentApplication | `src/application/api.rs` | none | `deploy_application` (records the reference after `deploy`), queries | `DeployService`, `ToolAnswers`, `AuditHistory` |
| Startup recovery, retention | `src/application/recovery.rs`, `retention.rs`, `src/main.rs` | the lists it read | `recover`, `prune`, the startup order | `DeployService`; cutoff and batch in `AuditHistory` |
| Leases | `src/application/lock.rs` | set of held environments, per process | `try_acquire`, drop | `DeployService` |
| Mechanism, preflight | `src/application/mechanism.rs`, `preflight.rs` | none | prepare, precheck, stage, backup, install, restart, verify, restore | `JarSystemdMechanism`, composed in `HostedService` |
| remote-exec adapter | `src/adapters.rs` | one remote-exec child process | `call` | replies, timeouts and lost replies: `DeployService`; effects on the host: `HostedService` |
| Operator CLI | `src/bin/deploy-mcp-recovery.rs` | none | `list`, `acknowledge` | acknowledgement: `MutationStore`, `DeployService` |
| Row formats of two releases | `src/persistence.rs`, `rollback_persistence.rs`, `migrations/006` | `deployment_model_metadata`, `rollback_reference_model` | insert, decode, blank | `DurableRows` |
| Audit history | `src/audit_persistence.rs` | none (projection) | history queries | `AuditHistory` |
| Artifact access | `src/application/artifact_access.rs`, `load_artifact` in `deploy.rs` | none | path authorization, hashing, upload | `ArtifactLoading` |
| Configuration | `src/config.rs` | none after startup | load, validate | what validation guarantees: assumptions; a change between two starts: `HostedService` |
| MCP server | `src/mcp.rs`, `src/error.rs` | none | tool schemas, outcomes, error codes | outcomes of the two mutating tools: `ToolAnswers` |

### How they interact

- A client request runs as one tokio task. It takes the process-local lease of its
  environment, makes repository calls (each one SQLite transaction, under the
  mutex of that repository), and awaits remote calls under `tokio::time::timeout`.
  Tasks interleave at every await and between any two repository calls.
- The database is shared by every process that opens it; the leases are not.
- `main` runs startup recovery, then retention, and only then builds the services.
  An error in recovery or retention stops the process.
- The recovery CLI opens the same database from a process of its own, at any time.
- A remote call that is no longer awaited (timeout, crash, transport error) may go
  on running on the remote host.

### What is hard, and what makes each component correct

| Component | Hard behaviour | Correctness |
|---|---|---|
| Store | exclusivity is spread over three unique indexes, four triggers and compare-and-swap updates | `GuardExclusive`, `ImplementsGuard`, `IdentityStable` |
| Rollback references | record, supersede, begin, finish, prune in any order | `StartedRollbackHoldsReference`, `OneActiveReference`, `ReferencesInOrder`, `ConsumedByOneRollback`, `HistoryIsFinal` |
| Recovery | a constraint that fires would keep the binary from ever starting; crash in the middle; records that move meanwhile | `RecoveryNeverBlocked`, `IncidentSubjectFailed`, `ServesRecovered`, `StartupEnds`, `DiscardedNeverMutates` |
| Orchestration | timeouts with a call still running, failures of the repository after a side effect, retries, automatic rollback | `CallsGuarded`, `OneMutationAtATime`, `AttemptsClosed`, `RunsOnItsRecord`, `RollbackIsTried`, `RequestEnds` |
| Leases | early returns | `LeaseHeldOnce` |
| Mechanism on a host | calls that fail half-way, that outlive their deployment, fixed remote paths, optional tasks, a configuration that changes between starts | `LiveOfRecordedSize`, `FailureLosesNothing`, `RollbackRestoresPrevious`, `BackupKept`, `CapabilitiesHeld` |
| Answers | a request ends with its record open, its reference unrecorded, its record closed by somebody else | `AnswersStand`, `OpenAnswerHoldsEnvironment`, `ReferenceToldIsKept` |
| Audit history | rows of five tables merged by milliseconds, updated in place, written by recovery too, read under separate locks | `TimelineFollowsCauses`, `TransitionsLeadToState`, `HistoryAppends`, `PrunedWhenOld`, `DetailsReachState` |
| Rows of two releases | rows that lack columns, rows that were blanked | `DeploymentsReadAsMeant`, `DriftSeenAcrossReleases`, `NoBlankReference` |
| Artifact access | the file or the link changes between authorization, hashing and upload | `RecordedWasThere`, `StagedAsRecorded` |

The hazards, each at its line, are listed in `PROJECT.json`. One has no property:
two remote paths of one environment that are equal (section 7).

## 2. The modules

```
DeploymentLifecycle          states, transitions, boundaries (no variables)
   |  EXTENDS
MutationStore  --refines-->  MutationGuard      (abstract specification)
   |     |  EXTENDS
   |   AuditHistory                             + rows, timestamps, queries
   |  INSTANCE
DeployService  --refines-->  MutationStore
   |     |  EXTENDS
   |   ToolAnswers                              + what clients were told
   |  EXTENDS
HostedService                                   + host contents, configuration
   |  EXTENDS
JarSystemdMechanism          calls, tasks, fingerprints (no variables)
   |  EXTENDS
DurableRows                                     row formats of two releases

ArtifactLoading                                 the file that is deployed
```

The proofs are in modules of their own:

```
MutationStore   <-EXTENDS-   MutationStoreProofs   exclusivity, identity, incidents,
                               |                   history, references, MutationGuard
AuditHistory    <-EXTENDS-   AuditProofs           timestamps, timelines, details

DeployService   <-EXTENDS-   ServiceProofs         the store's theorems carried over
                               |                   (INSTANCE of MutationStoreProofs),
                               |                   leases, discarded records
                               `-- RunningProofs   records, attempts, remote calls
                                      |-- ToolProofs     what clients were told
                                      `-- HostedProofs   contents of the target
ToolAnswers     <-EXTENDS-   ToolProofs
HostedService   <-EXTENDS-   HostedProofs

DurableRows     <-EXTENDS-   RowProofs
ArtifactLoading <-EXTENDS-   FileProofs
```

Each module `M` with variables has an `MCM` that names the instances for TLC.

### DeploymentLifecycle

The enumerations and predicates of `src/domain/deployment.rs` as sets and
relations, and the part of `plan.rs` that decides whether a failed step needs a
rollback: the lifecycle order of a step compared with the first live mutation.

### MutationGuard

The abstract promise. A mutation (deployment or explicit rollback) has a `home`
environment and a `fate`: unused, preparing, mutating, and then decided,
discarded, quarantined or reconciled. It may begin only when nothing holds its
environment, and *mutating* leaves an environment only through a decision or
through *quarantined* then *reconciled*.

### MutationStore

The database. One action per transaction; the guards are the transaction's own
queries and early returns together with the constraints the schema adds.

| Variable | Table |
|---|---|
| `deployments` | `deployments` joined with `deployment_idempotency` and `deployment_model_metadata` |
| `openAttempts` | `deployment_step_attempts` with status `started` |
| `references`, `pruned` | `rollback_references`, `rollback_reference_retention` |
| `operations` | `rollback_operations` |
| `incidents` | `recovery_incidents` joined with `recovery_acknowledgements` |

| Action | Code |
|---|---|
| `Reserve` | `DeploymentRepository::reserve` |
| `Transition` | the domain check and `persist_transition` |
| `StartStep`, `FinishStep` | `start_step`, `finish_step` |
| `RecordReference`, `BeginOperation`, `FinishOperation`, `Prune` | the rollback repository |
| `RecoverDeployment`, `RecoverOperation`, `Acknowledge` | the recovery repository |

`Next` is the most general client: any order of these calls, with any arguments.
It allows more than the services ever do, so what holds of it holds of them: the
lemma `StoreUsed` of `ServiceProofs` shows that the services do nothing else to it.

Simplifications. A row is identified by its position: identifiers are fresh UUIDs
and `ensure_source_is_latest` compares rowids. A transaction that errors is a
stuttering step. Transition history, error texts and timestamps are left out;
which references are past the retention cutoff is therefore open. At most one
attempt of a deployment is open at a time because its orchestration is sequential.
`create` of the repository is called by tests only and is not modelled. The times
and rows that history is made of are in `AuditHistory`, the columns in
`DurableRows`.

### DeployService

Processes, their requests, their leases, startup recovery, the remote hosts and
the operator, over `Store == INSTANCE MutationStore`.

- `worker[w]` is one request: a program counter and the locals that outlive an
  await (`Moving`, `Doing`, `Finishing`, `Recording`, `Considering`, `Settling`).
  Each step makes at most one repository call, so requests interleave exactly
  where the code lets go of a repository mutex or awaits.
- `leases[p]` is `DeploymentLockManager::active`. `GoTo` drops the lease with the
  step that leaves the service call, as the guard's `Drop` does on every path.
- `proc[p]` is the startup phase and the list recovery read and still has to
  handle. `Start`, `RecoverDeployment`, `ReadOperations`, `RecoverOperation` and
  `Serve` are the sequence of `main`; `Crash` may come at any point of it.
- `inflight` is a ghost: the side-effecting remote calls that may still be running.
  `StartCall` adds, `Reply` removes, `TimeOut`, `LoseReply` and `Crash` leave it
  alone, `RemoteEnds` removes what nobody awaits any more.

| Action | Code |
|---|---|
| `Submit`, `CheckConflict`, `Reserve`, `Reuse` | `deploy` up to the reservation; `reject_durable_conflict` |
| `Advance` | `transition`, and which activity `deploy` starts next |
| `StartCall`, `Reply`, `LoseReply`, `TimeOut`, `FinishAttempt` | `start_attempt`, the mechanism call under its timeout, `finish_attempt`, `finish_from_failure`, `finish_primary_failure`, `execute_rollback`, the three verification retry loops |
| `Record` | `record_rollback_reference` in `api.rs` |
| `RequestRollback`, `FindReference`, `AcquireForRollback`, `Begin`, `Settle` | `RollbackService::rollback` |
| `GiveUp` | every `?` on a repository call |
| `RemoteEnds`, `Acknowledge` | the remote host; the recovery CLI |

Simplifications. A request that is refused before it takes a lease changes nothing
and is not a step. The attempt's INSERT and the beginning of the remote call are
one step, so a crash between them is covered by a crash after the call was issued
and answered by nobody. The last repository call of a request and the drop of its
lease are one step; nothing else happens between them. Resolving and hashing the
artifact may fail, which is `GiveUp`-like and has no effect on the store; loading
it for staging is part of the `stage` activity, whose failure is a failed reply.
Recovery handles its list in any order. Configuration does not change here; in
`HostedService` it does. That the verification loops run at least once, and so
never reach their `unreachable!`, rests on the validated number of attempts
(`ValidRuntime`).

### JarSystemdMechanism

Operators only: what `Config::validate` guarantees of an environment, the call
(task, source path, destination path) of each step of a deployment, an automatic
and an explicit rollback, the tasks the two preflights ask for, the snapshot of a
rollback reference and the fingerprint that detects drift. A fingerprint is the
tuple of its fields: every field is hashed with its length.

### HostedService

`DeployService` with the target it deploys to. Added state:

| Variable | Meaning |
|---|---|
| `files`, `running` | what each path of the target holds, and what the unit runs |
| `remote` | the calls in flight with what they asked for and how far they came |
| `granted` | the tasks the target grants |
| `config` | the configuration each process was started with; any one at each start |
| `boundTo` | the snapshot columns of `rollback_references` |
| `madeUnder`, `before` | history: the contract of a deployment, and what was live before it |

| Action | Code |
|---|---|
| `StartUnder`, `ReserveUnder`, `RecordUnder` | `main` loads the configuration; `deploy` and `record_rollback_reference` use it |
| `IssueCall` | the mechanism call of the activity, with the bytes of the artifact as they are now |
| `BeginEffect`, `CompleteEffect` | external: the host carries out a task or an upload; a copy first leaves its destination torn |
| `Answer` | `Reply`: success only of a call that took full effect, failure in any state of it |
| `FindReferenceUnder`, `GiveUpUnder` | `rollback` up to `rollback_contract_matches`: `DeployService` lets a rollback be refused there at any time, here it is refused when the contract differs |

A call that nobody awaits may still take effect, wholly, by half or not at all.
Tasks are modelled from their parameters and from the copying scripts of
`tests/real_systemd_e2e.rs`: precheck and health check change nothing. The health
check may answer as it likes; a successful one is not taken to prove anything.
Only the upload's byte count is compared with the record, as in `execute_upload`, and
artifacts may share a size: a deployment may then stage other bytes than it recorded,
the residual risk that `docs/THREAT_MODEL.md:254` accepts. The precheck and rollback
tasks are optional (`src/config.rs:136`, `:141`). Which of them a process was started
with is a constant of the process (`SuppliedTo`); a process without them stands for a
start after the operator removed them. Four of the properties are about contracts
whose paths differ (`ApartUnder`), which validation does not ask for.

Simplifications. What a target grants does not change. No lost replies
(section 4, item 3). There is one environment, since the code does not relate the
paths of two, and a restart task restarts the unit of one install path and copies
nothing (`TargetAssumption`): what the tasks of a target do is fixed on the target,
and the service only names them.

### ToolAnswers

`DeployService` with `told`, the set of outcomes clients received from
`deploy_application` and `rollback_deployment`, and `held`, the outcome that waits
while its reference is recorded. Each action is the one of `DeployService` together
with what the tool answers when the request ends there (`ReuseTold`, `AdvanceTold`,
`FinishAttemptTold`, `RecordTold`, `TimeOutTold`, `SettleTold`, `GiveUpTold`,
`CrashTold`). A lost reply ends no request by itself. A replay reports how far a
deployment has come and promises nothing (`docs/DEPLOYMENT_IDEMPOTENCY.md`). Error
codes, text, schemas and redaction are left out.

### AuditHistory

`MutationStore` with the rows that history is made of: transition and attempt
rows, the timestamps of every table, the incident rows. Each transaction of the
store is extended with the rows it writes (`ReserveAt` ... `AcknowledgeAt`); `Tick`
advances the clock, so that any number of transactions share a millisecond.
`Events` is the union of the SELECTs of `HISTORY_QUERY` and `SortsBefore` its ORDER
BY. `RowsOf` is what one deployment or operation contributes to each table.
`ReadRows` and `ReadDetails` are the two halves of a listing or a detail query,
which take the repository lock separately. `Expired` and `OldestExpired` are the
cutoff and the batch of retention.

`TimelineFollowsCauses` names the pairs of events that the store's transactions order
and divides them. Where the ranks agree with that order (`PrecedesByRank`), the
timeline always shows it. Where they do not (`PrecedesAgainstRank`: whatever concerns
one rollback comes before the next rollback and before the reference is consumed or
superseded, but has the higher rank or the same), it shows it unless both happened in
one millisecond. The order of an attempt and the transition after it is kept by
`deploy.rs` and not by the store, and their ranks are the wrong way round too.
`docs/STRUCTURED_AUDIT_HISTORY.md:195` says that the tie-break is no causal truth.

Simplifications. The clock never runs backwards and a transaction carries the time
at which it commits; the code reads the clock just before. The attributes of events
are left out.

### DurableRows

How deployments and references become rows and rows become values again. The
first release writes the columns of migration 001 only (external: that program is
not in the tree), the present one both tables. `Upgrade` opens the database with the
new binary; it does not go back. `DecodeDeployment`, `DecodeReference`,
`GetReference` and `ReferenceToUse` are the readers, with their fallbacks. The
ghosts `meant` and `meantRef` hold what the writers meant.

### ArtifactLoading

One request from the path it names to the staged bytes: `Resolve` (authorization),
`OpenFile`, `Stat`, `Read`, `Hashed` (`load_artifact`), `Prepare`, `Transferred`
(the upload), while writers append, publish by rename, overwrite, truncate and
switch the link. An open file keeps its inode. `Read` takes one block at a time.
Canonicalization is that of the file system; the upload is modelled as a second
reading of the path, and checks the byte count only.

### Definitions marked "Variant"

Beside a definition there may be one with a comment that starts with "Variant". It
has the same parameters and a plausible mistake (a missing trigger, an UPDATE
without its state condition, a boundary one step late). No specification uses it:
each is a sensitivity test of a property, which TLC finds violated as soon as the
variant takes the place of the definition that follows it.

## 3. The runs

`tlc -config X.cfg M`; sizes are distinct states.

| Run | Module | Size | Question |
|---|---|---|---|
| `store_guard` | `MCMutationStore` | 146,075 | Does any sequence of store transactions on one environment keep it held by at most one mutation, keep what a started rollback needs, spend each reference once, never block recovery, and refine `MutationGuard`? |
| `service_single` | `MCToolAnswers` | 1,048,145 | One process, two interleaved requests of conflicting bytes, a crash, storage faults: are leases returned, records and calls consistent, versions and keys stable, and does what clients were told of open outcomes and references stay true? |
| `service_two_processes` | `MCToolAnswers` | 1,354,990 | Recovery and late reference recording of one process race requests of another, and replies get lost: does a discarded deployment never reach its target, do final states that clients were told stand, and do references follow the order of their deployments? |
| `service_liveness` | `MCDeployService` | 35,999 | Two environments, one without rollback and precheck tasks: does every request and every recovery end when the remote never answers, replies are lost, calls fail and a process crashes twice, is nothing served before recovery is complete, and is a rollback tried whenever the artifact may have been replaced? |
| `hosted_contents` | `MCHostedService` | 890,110 | Does the target hold and run one whole artifact of the recorded size after a success and what it held before after a rollback, automatic or explicit, does a failure lose nothing of what it replaced, and is the backup of an eligible rollback still what its deployment replaced, while files change unseen to others of equal size, calls tear files and outlive their requests, optional tasks are there or not and the configuration changes? |
| `audit_timeline` | `MCAuditHistory` | 170,102 | Is the timeline of a deployment totally ordered, complete and append-only whatever transactions share a millisecond, and does it depart from their order only in ties, are snapshots pruned by their age, and do details read apart from their row reach its state? |
| `rows_of_two_releases` | `MCDurableRows` | 462,352 | Are rows of both releases, and pruned ones, read as their writers meant, is drift seen on both, and is a blanked snapshot never handed out? |
| `file_being_written` | `MCArtifactLoading` | 1,204,560 | Is what is recorded a file that was there, and what is staged what was recorded, while file and link change? |
| `live_record_recovered`, `overlapping_processes`, `lost_reply` | `MCDeployService` | - | Violations; see section 4 |
| `replayed_under_new_contract` | `MCHostedService` | - | Violation; see section 4 |

### Bounds, and why they are enough

- `store_guard`: three deployments and two operations of one environment. Three is
  the least at which one reference is superseded by a second and the second spent
  while a third deployment is reserved; two operations let a rollback fail and be
  tried again, or a second one begin after the first. The constraints compare rows
  of equal environment only, so one environment exercises them; the proofs are about
  any number.
- `service_*`: two concurrent requests are the least that race for a lease, a
  reservation or a record. Two deployments and one operation let a deployment follow
  one that succeeded, failed, timed out, was recovered or is being rolled back;
  `service_liveness` has one deployment, in either environment: a request waits for
  calls of its own and never for another request. Two verification attempts
  distinguish the retried from the last. One crash leaves any record there can be, and
  the next start recovers it. A crash inside a recovery that has something to do is a
  second one: `service_liveness` has two, and `RecoveredBeforeService` is proved for any
  number.
  `Conflicting` holds a request without a key, one with, and one that reuses key and
  version with other bytes, so that replays and both conflicts happen. The two
  workers of the one process in `service_single` are interchangeable (`AnyWorker`):
  its properties are safety properties, for which that symmetry is sound.
- `service_two_processes` has no crash, since a crashed process leaves less behaviour
  than a slow one; it has one verification attempt, no keys and no storage faults
  (both are in `service_single`) to stay within minutes. The two processes are
  interchangeable (`AnyProcess`).
- `hosted_contents`: a release whose file may change to any of three artifacts, two of
  which have one size, and three contracts: two that differ in the backup path, and one
  without the optional tasks, under which the second process starts. Two deployments,
  one request at a time and one crash. The paths of each contract differ, so that
  `ApartUnder` always holds. Calls of an earlier request still
  overlap a later one, because nobody waits for them. A target grants all tasks, or
  all but the rollback task. There is one verification attempt: a health check has no
  effect on the host.
- `audit_timeline`: the timeline is that of one deployment, with two operations, an
  attempt, any transitions, and two ticks, the least at which events of equal and of
  different rank tie, straddle a tick, a rollback follows one that was recovered and
  acknowledged, and a snapshot ages past `RetentionTime`. A reference superseded by a
  second deployment is not in this run; the reference of a rollback that succeeded is.
  The theorems cover both. One query is made, and `Answered` leaves out what follows
  its answer.
- `rows_of_two_releases`: three rows, one of them active while others were superseded,
  consumed or pruned, in any mixture of releases; a contract and one that differs from
  it in each kind of thing (unused by a rollback, used, another host, no rollback).
- `file_being_written`: two allowed paths, one outside, files of up to two blocks
  and two writes: one before or during hashing and one before or during the upload,
  or both in either.
- A row beyond `MaxDeployments` or `MaxOperations` is treated as an INSERT that
  fails, an outcome the code has anyway; requests end there as the code's do.
- `MaxCrashes`, `MaxDeployments`, `MaxOperations`, `MaxTime`, `MaxAttempts`,
  `MaxReads`, `MaxRows`, `MaxLength` and `MaxWrites` are bounds; `CleanupBatch`,
  `RetentionTime` and `MaxVerificationAttempts` are configuration values of the
  program.

Deadlock is not checked: the system stops when clients send nothing more, and in
the models also when the tables are full.

### Fairness

`FairSpec` assumes weak fairness of each request's own work, `Progress(w)`, and of
each process's startup work, `Recover(p)`. tokio polls the tasks of a live process
and fires their timers, and SQLite calls return (with an error if need be). A
request that awaits a remote call has its timer as own work: `Reply` and
`LoseReply` are not in `Progress`, so no remote call need ever be answered. Nothing
is assumed of clients, the remote hosts, the operator or whoever restarts a process.
Weak fairness suffices: the steps of a request are disabled only by its own process
stopping, which ends the request.

`RequestEnds` then says that the bounded retries, the timeouts and the error paths
together leave no request, and with `LeaseHeldOnce` no lease, behind. `StartupEnds`
says that a started process comes to serve or stops.

## 4. Where the code and its documents disagree

Each of these runs checks one property under stated assumptions and TLC shows a
behaviour of the model that violates it. The first three properties hold in the
passing runs, with one process at a time and without lost replies.

1. **`live_record_recovered`.** `src/application/recovery.rs:26` speaks of "records
   left active by a previous process", and `docs/MCP_ADAPTER.md:141` of several
   process instances that share the database. `recover` reads every non-terminal
   record and cannot tell which process owns it. A second process that starts
   while a first one serves fails the record of a deployment that is running
   (`RunsOnItsRecord`). The first process notices at its next compare-and-swap.
2. **`overlapping_processes`.** `docs/MCP_ADAPTER.md:146`: "SQLite
   constraints/triggers are the durable authority. Process-local locks are an early
   rejection optimization, not the correctness boundary."
   `docs/THREAT_MODEL.md:105` lists several processes that mutate one environment
   as a controlled threat. `start_step` checks no state and an explicit rollback
   looks at its operation only at the end, so a request whose record was recovered
   as in (1) still makes its next call. A plausible course: p1's explicit rollback
   awaits its read-only preflight; p2 starts and recovers the operation; the
   operator finds nothing running on the host and acknowledges; p2 deploys; p1's
   preflight answers and p1 restores the old artifact while p2 is staging
   (`OneMutationAtATime`). TLC reports a shorter one, in the gap between a
   transition and its first attempt.
3. **`lost_reply`.** `docs/THREAT_MODEL.md:241`: "unknown side-effecting
   timeout/crash result -> retain durable guard from STAGING_ARTIFACT onward". Only
   the local timeout is treated as unknown. When the remote-exec child dies or
   answers with something that does not parse (`Transport`, `InvalidResponse`), a
   staging or backup call takes the path of a completed failure: the deployment
   becomes FAILED, the environment is free, and the upload may still be running
   (`CallsGuarded`).
4. **`replayed_under_new_contract`.** `docs/MCP_ADAPTER.md:118`:
   "`RollbackReference` snapshots the capability context created for the source
   deployment", and `docs/MCP_ADAPTER.md:129`: "configuration drift rejects the
   rollback before remote mutation". `record_rollback_reference`
   (`src/application/api.rs:210`) takes the snapshot from the configuration in force
   when it runs. If the process stops after SUCCEEDED and before the reference is
   recorded, and restarts with another configuration, the client's idempotent retry
   records the new contract for a deployment made under the old one
   (`ReferenceOfItsContract`). The drift check then compares the new configuration
   with itself. `ReferencesSnapshotTheirContract` proves that there is no other way
   to such a reference. `BackupKept` and `RollbackRestoresPrevious` hold in
   `hosted_contents`, whose requests have no key and so are never replayed.

## 5. The proofs

The proofs hold for every choice of the constants: any number of environments,
workers, processes, crashes, versions, digests, keys, contracts, files and writers,
and any bounds.

| Theorem | Module | States |
|---|---|---|
| `TypeCorrect` | `MutationStoreProofs` | `Spec => []TypeOK` |
| `GuardCorrect` | `MutationStoreProofs` | `Spec => []GuardExclusive` |
| `IdentityCorrect` | `MutationStoreProofs` | `Spec => []IdentityStable` |
| `IncidentsCorrect` | `MutationStoreProofs` | `Spec => []IncidentSubjectFailed` |
| `RecoveryCorrect` | `MutationStoreProofs` | `Spec => []RecoveryNeverBlocked` |
| `HistoryCorrect` | `MutationStoreProofs` | `Spec => HistoryIsFinal` |
| `GuardImplemented` | `MutationStoreProofs` | `Spec => ImplementsGuard` |
| `ReferenceHeld` | `MutationStoreProofs` | `Spec => []StartedRollbackHoldsReference` |
| `OneActiveCorrect` | `MutationStoreProofs` | `Spec => []OneActiveReference` |
| `ReferencesInOrderCorrect` | `MutationStoreProofs` | `Spec => []ReferencesInOrder` |
| `ConsumedCorrect` | `MutationStoreProofs` | `Spec => []ConsumedByOneRollback` |
| `HolderLatestCorrect` | `MutationStoreProofs` | `Spec => []HolderLatest` |
| `ServiceTypeCorrect` | `ServiceProofs` | `Spec => []TypeOK` |
| `ServiceIdentity` | `ServiceProofs` | `Spec => []IdentityStable` |
| `ServiceReferencesInOrder` | `ServiceProofs` | `Spec => []ReferencesInOrder` |
| `LeaseCorrect` | `ServiceProofs` | `Spec => []LeaseHeldOnce` |
| `DiscardedCorrect` | `ServiceProofs` | `Spec => []DiscardedNeverMutates` |
| `RollbackTried` | `ServiceProofs` | `Spec => RollbackIsTried` |
| `RecoveredBeforeService` | `RunningProofs` | `SingleInstance => (Spec => ServesRecovered)` |
| `RunsOnRecord` | `RunningProofs` | `SingleInstance => (Spec => []RunsOnItsRecord)` |
| `AttemptsCorrect` | `RunningProofs` | `SingleInstance => (Spec => []AttemptsClosed)` |
| `CallsGuardedCorrect` | `RunningProofs` | `SingleInstance /\ ~TransportLoss => (Spec => []CallsGuarded)` |
| `OneMutation` | `RunningProofs` | `SingleInstance /\ ~TransportLoss => (Spec => []OneMutationAtATime)` |
| `AnswersTyped` | `ToolProofs` | `AnswerSpec => []AnswersTypeOK` |
| `AnswersStandCorrect` | `ToolProofs` | `AnswerSpec => []AnswersStand` |
| `ReferenceToldCorrect` | `ToolProofs` | `AnswerSpec => []ReferenceToldIsKept` |
| `OpenAnswersHold` | `ToolProofs` | `SingleInstance => (AnswerSpec => []OpenAnswerHoldsEnvironment)` |
| `HostedImplements` | `HostedProofs` | `HostedSpec => Spec` (that of `DeployService`) |
| `CapabilitiesHeldCorrect` | `HostedProofs` | `HostedSpec => []CapabilitiesHeld` |
| `LiveOfRecordedSizeCorrect` | `HostedProofs` | `SingleInstance => (HostedSpec => []LiveOfRecordedSize)` |
| `FailureLosesNothingCorrect` | `HostedProofs` | `SingleInstance => (HostedSpec => []FailureLosesNothing)` |
| `ReferencesSnapshotTheirContract` | `HostedProofs` | `ContractsAgree => (HostedSpec => []ReferenceOfItsContract)` |
| `BackupKeptCorrect` | `HostedProofs` | `SingleInstance /\ ContractsAgree => (HostedSpec => []BackupKept)` |
| `RollbackRestoresPreviousCorrect` | `HostedProofs` | `SingleInstance /\ ContractsAgree => (HostedSpec => []RollbackRestoresPrevious)` |
| `ChronicleCorrect` | `AuditProofs` | `AuditSpec => [](RowsTyped /\ Chronicle)` |
| `TimelineFollowsCausesCorrect` | `AuditProofs` | `AuditSpec => []TimelineFollowsCauses` |
| `TransitionsLeadToStateCorrect` | `AuditProofs` | `AuditSpec => []TransitionsLeadToState` |
| `ShownWithoutGapCorrect` | `AuditProofs` | `AuditSpec => []ShownWithoutGap` |
| `DetailsReachStateCorrect` | `AuditProofs` | `AuditSpec => []DetailsReachState` |
| `PrunedWhenOldCorrect` | `AuditProofs` | `AuditSpec => []PrunedWhenOld` |
| `HistoryAppendsCorrect` | `AuditProofs` | `AuditSpec => HistoryAppends` |
| `DeploymentsReadCorrect` | `RowProofs` | `Spec => []DeploymentsReadAsMeant` |
| `DriftSeen` | `RowProofs` | `Spec => []DriftSeenAcrossReleases` |
| `NoBlankHandedOut` | `RowProofs` | `Spec => []NoBlankReference` |
| `RecordedCorrect` | `FileProofs` | `FileSpec => []RecordedWasThere` |
| `StagedCorrect` | `FileProofs` | `FileSpec => []StagedAsRecorded` |

`Spec` is that of the module the proofs are about. TLC evaluates the assumptions on
the constants in the runs of these modules:

- the store: its proofs use no assumption. `ConstantsAssumption` says which values
  make sense (natural bounds, `NoKey` is not a key); `MCMutationStore` and
  `DeployService` assume it;
- the services (`ServiceAssumption`, `ValidRuntime`): requests are requests of the
  store, each worker belongs to a process, and the ranges that the configuration
  file allows for attempts and batches;
- the host (`HostAssumption`, `TargetAssumption`): an artifact has a size, not
  necessarily one of its own, and no reply is lost; one environment, and a restart
  task that restarts the unit of one install path and copies nothing. Contracts
  without the optional tasks are included. That the paths of a contract differ is a
  condition in the properties that need it (`ApartUnder`) and no assumption.
  `TargetAssumption` came out of the proofs: without its parts a task name could mean
  two things on one target;
- history (`RetentionAssumption`): the retention time is a number of ticks;
- rows (`ReleasesAssumption`): artifacts and container images differ, and no
  contract has an empty target or backup path. `Config::validate` refuses both, and
  without it a blanked column could pass for a real one;
- files (`FileAssumption`): finitely many paths.

**The store.** An "effect" lemma per action says row by row what the transaction
does to the tables, proved once from the sequence operators; above it everything
reasons about rows.

- *Exclusivity.* `TypeOK` is inductive; `GuardExclusive` is inductive together
  with it. Nothing stronger is needed because each of the three kinds of holder
  is created only by an insertion guarded against all three or, in recovery,
  takes the place of the record that it closes. The interesting cases are
  `GuardTransition`, where no allowed transition leads from a terminal state to an
  active one, and the two recovery actions, where the exclusion of the other
  holders before the step excludes them after it.
- *Incidents.* `FailedStays` shows that no action leads out of `failed`; so an
  incident that was right about its subject stays right, and the unique index on
  (kind, subject) does the rest. With exclusivity it follows that what recovery
  finds active has neither an incident of its own nor one of its environment
  (`RecoveryNeverBlocked`, which is not inductive by itself).
- *History.* An action property: each action is shown to keep each table.
- *References.* `StartedRollbackHoldsReference` is not inductive: a pruned
  reference that is still active would let an operation begin without a snapshot.
  `ReferenceInv` adds `PrunedInactive` and the foreign key (`SourcesExist`). The
  interesting cases are recording, where the source of a started rollback is the
  latest deployment of its environment and so the only one that may be recorded,
  and finishing, where exclusivity keeps two rollbacks from sharing a source.
  `ConsumedByOneRollback` is inductive relative to it: a rollback that succeeds
  finds its reference active, hence spent by nobody. `ReferencesInOrder` rests on
  `ensure_source_is_latest` in the recording transaction: only the latest deployment
  gets a reference, so what it supersedes is older and nothing newer has one.
- *The latest deployment.* `HolderLatest` says that whatever holds an environment is
  about its latest deployment: an active deployment is the latest, an unresolved
  incident is about it or about a rollback of it, and every rollback is of an eligible
  deployment (that the source of a started one is the latest is part of
  `StartedRollbackHoldsReference`). A new
  deployment is reserved only when nothing holds the environment, and a rollback
  begins only from the latest (`ensure_source_is_latest`).
- *The abstract guard.* The refinement mapping computes the fate of a mutation from
  its row and its incident. `FatesOfDeployments` and `FatesOfOperations` say what it
  is in each case; they need that an incident names one failed record
  (`IncidentSubjectFailed`). Each transaction then moves one mutation along an edge
  of the guard and leaves the others (`OthersLeft`), or moves nothing that the guard
  sees. The insertions need that what holds the environment for the guard, a
  preparing or mutating mutation or a quarantine, is what the triggers look at.

**The services.** `ServiceProofs` has the store twice: `Store`, the instance inside
`DeployService`, and `P`, the proof module over the same variables. The `Same...`
lemmas show that the two are one specification, and `StoreUsed` that whatever the
services do is a step of it or leaves it alone: so every theorem about the store
holds of the running system (`StoreOfService` collects those used here).

- *Types.* `ServiceInv` types the tasks and says that a task which names a record
  names one that is there (`RecordOK`); the records stay because no store step
  deletes one. Each action is reduced to how it moves one task (`Moves`), and what a
  task may become is summarised once (`Goes`, with `WorkerGoes`), so that every later
  invariant is proved over a few kinds of move and not over twenty-odd actions.
- *Leases.* `LeaseHeldOnce` is not inductive: a lease must also be in the table
  whenever a request holds it. `LeasesExact` says that the table is exactly what the
  requests of the process hold, each environment by one.
- *Discarded deployments.* `InformedInv`: a request that is about to call a mutating
  activity has seen its record leave the state that recovery discards, and no store
  step brings it back (`Past`, `PastStep`). It needs no assumption about processes:
  this is what makes the race of a slow process with the recovery of another safe.
- *Rollback.* A step property: from the same invariant, a request that gives up
  after the artifact may have been replaced is in an environment without a rollback
  task.
- *One process at a time* (`OneOpen`). `Served` and `RecoveryComplete` say what the
  startup phases have already covered: while deployments are recovered, every open
  one is still on the list, and then every started rollback is. Hence
  `ServesRecovered`, and no request runs while recovery does. Two requests have
  different leases, so none moves another's record (`Alone`, `Undisturbed`) and each
  remembers the state it persisted (`OnRecords`, which is stronger than
  `RunsOnItsRecord` at the points between two steps). `AttemptsInv` adds that
  between two activities there is no open attempt.
- *Remote calls.* `CallsGuarded` needs three facts together (`CallsInv`): a request
  knows of every call of its record (`CallsKnown`: it waits for it, or acts on its
  timeout next), a record has one call at a time (`OneCallOfRecord`), and the record
  of a call is still in the state the call was made in, or recovery closed it and
  its incident is unresolved (`CallsHeld`). The operator's acknowledgement waits for
  calls to end, as the runbook asks. `OneMutationAtATime` follows with exclusivity.

The hypotheses `SingleInstance` and `~TransportLoss` are constants of the model
that the theorems do not assume away: `overlapping_processes`,
`live_record_recovered` and `lost_reply` show what happens without them (section 4).
`SingleInstance` is what one MCP client that spawns the program gives, and nothing in
the program enforces.

**Answers.** `ToldInv` says of each answer that it names a record that is there, that
a final state in it is still the state of that record (`HistoryIsFinal` keeps it so),
and that a reference in it was recorded; `HeldInv` that an outcome held back while its
reference is recorded is what the store says, which another process cannot change
because the state is final. Lost replies are included: they change what the service
does next, and not who decided. `ReferenceToldIsKept` adds to `ReferenceInv` that only
the reference of an older deployment is superseded (`SupersededOlder`). Only
`OpenAnswerHoldsEnvironment` needs one process at a time: a request that ends with its
record open is then the only one that could move it, so the record stays as it was
told until a start recovers it, into an incident unless nothing was mutated.

**History.** The timestamps of all tables together are in causal order: `Chronicle`
relates the stamp of each row, with the stamps written later into the same row, to
those of the rows it was caused by, and all to the clock. `RowsTyped` types the rows
and says which stamps are NULL in which states. With the ranks and row numbers of
ORDER BY it follows that the order of a timeline is strict and total and that causes
come first wherever the ranks agree with them (`TimelineOrdered`, `CausesOrdered`).
`Chained` says that each transition row starts where the row before it of the same
deployment led, and that the last led to the present state; since the order shown
agrees with the row numbers, a prefix of the timeline has no gap. `ViewReached` keeps
the two halves of a query together: the row was read first, so the transitions read
later include the one that led to its state. `HistoryAppends` compares the events of a
deployment before and after a step, table by table; UPDATE in place only fills a stamp
that was NULL.

`TimelineFollowsCauses` needs more for the pairs whose ranks disagree with their order.
`Succession` says that rollbacks of one deployment follow each other in time: when one
begins, the one before it has ended, its recovery was recorded and acknowledged, and
each of these stamps is no later than the beginning (`OverWhenNextBegins`); likewise
for the end of the reference (`OverWhenSuperseded`). It holds because `begin_operation`
and `record_reference` demand that nothing holds the environment, and because
`RowsAwait` says that the recovery of a rollback that nobody acknowledged is an
incident that holds it. "No later" is all that the stamps say,
so the timeline is in order or the two events tie in one millisecond.

**The host.** `HostedImplements` shows step by step that `HostedService` does nothing
`DeployService` does not do, so all theorems above hold of it. The proofs about
contents have three layers.

- *With any number of processes* (`HostedInv`): the columns are typed, a reference
  that is recorded has a snapshot, a task past its preflight has every task granted
  that it may still need (`CapableInv`). `CapabilitiesHeld` follows because every
  task that a contract or a snapshot can ask for is one its preflight asked for. The
  step to watch is the one from a primary failure to the recovering calls: it must
  not need more than the preflight of the deployment compared. `OptionalInv` adds that a
  task that is not configured is never called.
- *Everything is about the latest deployment* (`Settled`). With one process at a
  time `HolderLatest` and `CallsGuarded` together say that the request that runs, the
  calls in flight and the record that is open are about the latest deployment. A
  call that nobody awaits any more keeps the environment held, so it cannot meet a
  later deployment.
- *Contents* (`HostInv`). `Contents(d, s)` is the table of what the target holds
  while the latest deployment `d` is in state `s`, for instance that the backup has
  what `d` replaced from *installing* on, and that a `failed` one without an incident
  left the live artifact alone or, without a rollback task, left what it replaced in the
  backup. *Staged* and *installed* mean a whole artifact of the recorded size. The facts
  that compare two files are claimed of contracts whose paths differ only
  (`ApartUnder`). It is not inductive: the state is written after the
  reply and the reply follows the effect. `KnownInv` says what a request between two
  repository calls knows to be done, `RemoteInv` what the one call in flight will
  have brought about when it is answered with success, `ConfigInv` that a request
  works under the contract its deployment was made under, and `OutcomeInv` what a
  successful explicit rollback left. `EffectOnContents` is the heart of it: a torn or
  late effect changes only a file, or what runs, that the state of the record does not
  rely on; that is what the order of staging, backup and installation is for.

For explicit rollbacks one thing more is needed, that a reference is the snapshot of
the contract its deployment was made under (`ReferenceOfItsContract`). It holds with
any number of processes as long as no request is replayed under its key by a process
with another contract (`ContractsAgree`: no request has a key, or all contracts have
the same snapshot). So the replay of section 4, item 4 is the only way to break it.

**Rows.** `RowsInv` relates columns, metadata and the retention marker of each row:
a reference that was not pruned is the one built from the contract it was recorded
under, and a pruned one is no longer active. `ReferenceDecoded` computes what the
readers make of a row of either release, `MatchesExactly` what
`rollback_contract_matches` compares; `DriftSeen` is the equivalence of the two.

**Files.** `load_local_artifact` compares two byte counts and nothing else. Why that
is enough is the invariant `HashedSoFar`: there is a content `c` that the file held,
as long as was measured, and what was read is a prefix of `c` that the file still
starts with (`Untouched`); or the file was cut and has grown since, and what was read
is shorter than `c` (`Cut`); or it is as long as `c` and equals it (`Complete`). A
reading that ends with the count that was measured is therefore a content that was
there, given that sizes tell the contents apart. `Files` says that an open inode is
that of its path or has been replaced and is written no more. `Transferring` does the
same for the second reading, by the upload. TLC found `HashedSoFar` to hold on an
instance larger than `file_being_written` (files of three blocks, four writes) before
it was proved.

## 6. What is only model-checked

- Liveness (`RequestEnds`, `StartupEnds`): temporal reasoning under fairness is out
  of the prover's reach. All other properties of the passing runs are stated by a
  theorem of section 5, some under `SingleInstance`, `~TransportLoss` or
  `ContractsAgree`.
- That these hypotheses are needed is shown by the runs of section 4: a violation is
  an execution, and no theorem.
- The host with several environments, and a target whose grants change, are neither
  checked nor proved.

## 7. What is not modelled, and the plan

Not modelled: the wire formats of the MCP server (schemas, redaction, size limits)
and of the remote-exec adapter, the parsing of the YAML configuration and the
character rules of identifiers (sequential checks of data, thoroughly unit-tested),
the operator CLI's argument parsing and listing, the attributes of audit events.

Assumed, and worth knowing:

- Two remote paths of one environment that are equal pass `Config::validate`
  (`src/config.rs:209`); a backup or an upload then overwrites the live artifact.
  The properties of contents say nothing of such a contract (`ApartUnder`). So do two
  environments of one target with a path in common; `TargetAssumption` has one
  environment.
- A file that changes between hashing and upload and keeps its size is staged
  unnoticed, as `docs/THREAT_MODEL.md:254` accepts; `LiveOfRecordedSize` therefore
  promises a size and not the bytes. Unnoticed too is one that is cut to exactly
  the recorded size while it is transferred, or rewritten in place
  (`SizesTellApart`, `rewritten`).
- A database is not opened again by the first release once the present one wrote it.

The order of work so far was: the store, because everything rests on it; the
abstract guard; the services over the store; the first proofs; the mechanism on a
host and configurations that change; history; rows of two releases; answers; the
artifact file; the proofs about answers, history and the host. What follows:

1. *Larger instances*: a timeline with a superseded reference, two verification
   attempts on the host, keys in `hosted_contents` under a configuration that does
   not change.
2. *Several environments on one target*: a relation between their paths would have to
   come first, in `Config::validate` as well as here.
