---------------------------- MODULE HostedService ----------------------------
(***************************************************************************)
(* DeployService composed with what it deploys to and with its             *)
(* configuration: the files and the running release of the target, the     *)
(* artifact bytes that are uploaded, and a configuration that may differ   *)
(* from one start of a process to the next.                                *)
(*                                                                         *)
(* A remote call takes effect in two steps on the host, at any time before *)
(* it ends there: a copy first leaves its destination torn.  A call that   *)
(* is answered with success has taken full effect; one that failed, timed  *)
(* out or ended unobserved may have taken none, half or all of it.         *)
(*                                                                         *)
(* The tasks are external: they are modelled from the parameters that src/ *)
(* passes and from the copying tasks of tests/real_systemd_e2e.rs.         *)
(***************************************************************************)
EXTENDS DeployService, JarSystemdMechanism

CONSTANTS
    SizeOf,   \* SizeOf[b]: the byte count of the artifact b
    Grants,   \* the task sets a target may grant
    NoReference

(* Different artifacts may have one size.                                  *)
ASSUME HostAssumption ==
    /\ SizeOf \in [Digests -> Nat]
    /\ ~TransportLoss

VARIABLES
    config,     \* config[p]: the contract process p was started with
    boundTo,    \* boundTo[d]: the snapshot columns of rollback_references
    files,      \* files[path]: what the target holds there
    running,    \* the release the systemd unit runs
    remote,     \* what each call in flight asked for and how far it came
    granted,    \* the tasks the target grants
    madeUnder,  \* history: the contract deployment d was reserved under
    before      \* history: the live artifact when d was reserved

hostVars == <<files, running, remote>>
configVars == <<config, boundTo, granted, madeUnder, before>>
hostedVars == <<vars, hostVars, configVars>>

NoBytes == "no bytes"
Paths == UNION {{c.staging_path, c.install_path, c.backup_path} :
                    c \in Contracts}
Content == Digests \cup {"original", "absent", "torn"}

(* One environment: the host is its target.  The unit that a task restarts *)
(* executes one file, and that task copies none.                           *)
ASSUME TargetAssumption ==
    /\ \A e, f \in Environments : e = f
    /\ NoPath \notin Paths
    /\ \A b, c \in Contracts :
           /\ b.tasks.restart = c.tasks.restart
                  => b.install_path = c.install_path
           /\ b.tasks.restart \notin
                  {"upload", c.tasks.backup, c.tasks.install, c.tasks.rollback}
    /\ \A c \in Contracts : NoReference # ReferenceFor(c)
-----------------------------------------------------------------------------
(* The remote host. *)

IsRestart(task) == \E c \in Contracts : c.tasks.restart = task

(* The file that the unit restarted by the task executes. *)
UnitPath(task) ==
    (CHOOSE c \in Contracts : c.tasks.restart = task).install_path

Permitted(task) == task = "upload" \/ task \in granted

(* A call begins to take effect: a copy truncates its destination, a       *)
(* restart stops the service.                                              *)
BeginEffect(r) ==
    /\ r.progress = "sent"
    /\ Permitted(r.made.task)
    /\ files' = IF r.made.to = NoPath THEN files
                ELSE [files EXCEPT ![r.made.to] = "torn"]
    /\ running' = IF IsRestart(r.made.task) THEN "stopped" ELSE running
    /\ remote' = (remote \ {r}) \cup {[r EXCEPT !.progress = "begun"]}
    /\ UNCHANGED <<vars, configVars>>

CompleteEffect(r) ==
    /\ r.progress = "begun"
    /\ files' = IF r.made.to = NoPath THEN files
                ELSE [files EXCEPT ![r.made.to] =
                         IF r.made.from = NoPath THEN r.bytes
                         ELSE files[r.made.from]]
    /\ running' = IF IsRestart(r.made.task)
                  THEN files[UnitPath(r.made.task)] ELSE running
    /\ remote' = (remote \ {r}) \cup {[r EXCEPT !.progress = "done"]}
    /\ UNCHANGED <<vars, configVars>>

(* The host remembers the calls that are still in flight. *)
HostKept ==
    /\ remote' = {r \in remote : r.call \in inflight'}
    /\ UNCHANGED <<files, running>>
-----------------------------------------------------------------------------
(* The service. *)

(* Whether the optional tasks are there is a constant of a process in      *)
(* DeployService: the contract c is one that p may be started with.        *)
SuppliedTo(p, c) ==
    \A e \in Environments :
        /\ e \in RollbackConfigured[p] <=> c.tasks.rollback # NotConfigured
        /\ e \in PrecheckConfigured[p] <=> c.tasks.precheck # NotConfigured

(* main loads the configuration once, before anything else. *)
StartUnder(p, c) ==
    /\ Start(p)
    /\ SuppliedTo(p, c)
    /\ config' = [config EXCEPT ![p] = c]
    /\ HostKept
    /\ UNCHANGED <<boundTo, granted, madeUnder, before>>

ConfigOf(w) == config[Home[w]]

ReserveUnder(w) ==
    /\ Reserve(w)
    /\ boundTo' = Append(boundTo, NoReference)
    /\ madeUnder' = Append(madeUnder, ConfigOf(w))
    /\ before' = Append(before, files[ConfigOf(w).install_path])
    /\ HostKept
    /\ UNCHANGED <<config, granted>>

(* record_rollback_reference builds the reference from the configuration   *)
(* in force; a reference that exists keeps its snapshot.                   *)
RecordUnder(w) ==
    /\ Record(w)
    /\ boundTo' = IF references[worker[w].id] = "none"
                  THEN [boundTo EXCEPT ![worker[w].id] =
                           ReferenceFor(ConfigOf(w))]
                  ELSE boundTo
    /\ HostKept
    /\ UNCHANGED <<config, granted, madeUnder, before>>

(* The snapshot an explicit rollback works from. *)
ReferenceOf(t) == boundTo[operations[t.id].source]

(* What the mechanism asks the remote to do for the activity of w. *)
CallMade(w) ==
    LET t == worker[w] IN
    CASE t.kind = "rollback_operation" -> RollbackCall(ReferenceOf(t), t.act)
      [] t.kind = "deployment" /\ t.act = "stage" -> Upload(ConfigOf(w))
      [] t.kind = "deployment" /\ t.act \in Recovering ->
             CurrentRollbackCall(ConfigOf(w), t.act)
      [] OTHER -> LifecycleCall(ConfigOf(w), t.act)

(* The upload reads the file again, after it was hashed: what it transfers *)
(* need not be what the deployment recorded.                               *)
IssueCall(w) ==
    /\ StartCall(w)
    /\ \E bytes \in IF worker[w].act = "stage" THEN Digests ELSE {NoBytes} :
           remote' = remote \cup
               (IF worker[w].act \in Mutating
                THEN {[call |-> CallOf(worker[w]), made |-> CallMade(w),
                       bytes |-> bytes, progress |-> "sent"]}
                ELSE {})
    /\ UNCHANGED <<files, running, configVars>>

(* Variant: the byte count is not compared. *)
AnyTransferAccepted(d, bytes) == bytes \in Digests

(* execute_upload accepts a transfer of the expected byte count. *)
TransferAccepted(d, bytes) ==
    SizeOf[bytes] = SizeOf[deployments[d].release.digest]

(* The remote can answer the call of w with a result the service accepts.  *)
Achieved(w) ==
    LET t == worker[w] IN
    CASE t.act = "preflight" /\ t.kind = "deployment" ->
             PreflightPasses(ConfigOf(w), granted)
      [] t.act = "preflight" /\ t.kind = "rollback_operation" ->
             RollbackPreflightPasses(ReferenceOf(t), granted)
      [] t.act \in Mutating ->
             \E r \in remote :
                 /\ r.call = CallOf(t) /\ r.progress = "done"
                 /\ t.act = "stage" => TransferAccepted(t.id, r.bytes)
      [] OTHER -> CallMade(w).task \in granted

Answer(w, result) ==
    /\ Reply(w, result)
    /\ result = "ok" => Achieved(w)
    /\ HostKept
    /\ UNCHANGED configVars

(* rollback compares the configuration with the snapshot before anything   *)
(* is recorded.                                                            *)
FindReferenceUnder(w) ==
    /\ FindReference(w)
    /\ ContractMatches(ConfigOf(w), boundTo[worker[w].id])
    /\ HostKept
    /\ UNCHANGED configVars

(* With the reference visible, what refuses a rollback is drift.           *)
GiveUpUnder(w) ==
    /\ GiveUp(w)
    /\ worker[w].pc = "reference" /\ ~StorageFaults =>
           ~(/\ Store!ReferenceVisible(worker[w].id)
             /\ ContractMatches(ConfigOf(w), boundTo[worker[w].id]))
    /\ HostKept
    /\ UNCHANGED configVars

(* The steps of DeployService that no configuration or host content plays  *)
(* a part in.                                                              *)
OtherStep ==
    /\ \/ \E w \in Workers :
              \/ \E req \in Requests : Submit(w, req)
              \/ \E d \in Store!DeploymentIds : RequestRollback(w, d)
              \/ CheckConflict(w) \/ Reuse(w) \/ Advance(w) \/ TimeOut(w)
              \/ FinishAttempt(w) \/ AcquireForRollback(w) \/ Begin(w)
              \/ Settle(w)
       \/ \E p \in Processes : Recover(p) \/ Crash(p)
       \/ \E c \in inflight : RemoteEnds(c)
       \/ \E i \in incidents : Acknowledge(i)
    /\ HostKept
    /\ UNCHANGED configVars
-----------------------------------------------------------------------------
HostedInit ==
    /\ Init
    /\ config \in [Processes -> Contracts]
    /\ \A p \in Processes : SuppliedTo(p, config[p])
    /\ boundTo = <<>>
    /\ files = [p \in Paths |->
                   IF \E c \in Contracts : c.install_path = p
                   THEN "original" ELSE "absent"]
    /\ running = "original"
    /\ remote = {}
    /\ granted \in Grants
    /\ madeUnder = <<>>
    /\ before = <<>>

HostedNext ==
    \/ \E p \in Processes, c \in Contracts : StartUnder(p, c)
    \/ \E w \in Workers :
           \/ ReserveUnder(w) \/ RecordUnder(w) \/ IssueCall(w)
           \/ FindReferenceUnder(w) \/ GiveUpUnder(w)
           \/ \E result \in {"ok", "failed"} : Answer(w, result)
    \/ \E r \in remote : BeginEffect(r) \/ CompleteEffect(r)
    \/ OtherStep

HostedSpec == HostedInit /\ [][HostedNext]_hostedVars
-----------------------------------------------------------------------------
(* The target of deployment d both holds and runs b. *)
HoldsAndRuns(d, b) == files[madeUnder[d].install_path] = b /\ running = b

Newest(d) ==
    \A n \in Store!DeploymentIds : deployments[n].env = deployments[d].env => n <= d

RolledBackBy(d) ==
    {o \in Store!OperationIds : operations[o].source = d}

(* The contract of d names three files.  The code does not ask for that,   *)
(* see ValidEnvironment, and where two of them are one, a copy destroys    *)
(* what another is to keep.                                                *)
ApartUnder(d) ==
    LET c == madeUnder[d] IN
    /\ c.staging_path # c.install_path
    /\ c.install_path # c.backup_path
    /\ c.backup_path # c.staging_path

(* What the byte count cannot tell from the artifact that d recorded. *)
OfSize(d) == {b \in Digests : SizeOf[b] = SizeOf[deployments[d].release.digest]}

(* When the latest deployment of an environment succeeded and no explicit  *)
(* rollback of it was begun, the target holds and runs one and the same    *)
(* artifact, whole, and of the byte count that was recorded; though the    *)
(* file may have changed between its hashing and its upload, and calls of  *)
(* earlier requests may have gone unobserved.  It need not be the recorded *)
(* artifact: the upload compares byte counts only (deploy.rs:390), and a   *)
(* trusted writer's change to equal size passes (THREAT_MODEL.md:254).     *)
LiveOfRecordedSize ==
    \A d \in Store!DeploymentIds :
        /\ ApartUnder(d)
        /\ deployments[d].state = "succeeded"
        /\ Newest(d)
        /\ RolledBackBy(d) = {}
        => \E b \in OfSize(d) : HoldsAndRuns(d, b)

(* A deployment that rolled back left the target with what it held before, *)
(* and runs it.  One that the service closed as failed, not startup        *)
(* recovery, never touched the live artifact if its contract has a         *)
(* rollback task.  Without one a failed install, restart or verification   *)
(* is closed as failed too (deploy.rs:557); the backup path then holds     *)
(* what was replaced.                                                      *)
FailureLosesNothing ==
    \A d \in Store!DeploymentIds :
        ApartUnder(d) /\ Newest(d) =>
            /\ deployments[d].state = "rolled_back" =>
                   HoldsAndRuns(d, before[d])
            /\ /\ deployments[d].state = "failed"
               /\ \A i \in incidents : i.kind = "deployment" => i.subject # d
               => \/ files[madeUnder[d].install_path] = before[d]
                  \/ /\ madeUnder[d].tasks.rollback = NotConfigured
                     /\ files[madeUnder[d].backup_path] = before[d]

(* After a successful explicit rollback of the latest deployment, the      *)
(* target holds and runs what it held before that deployment.              *)
RollbackRestoresPrevious ==
    \A o \in Store!OperationIds :
        LET d == operations[o].source IN
        /\ operations[o].state = "succeeded"
        /\ ApartUnder(d) /\ Newest(d)
        => HoldsAndRuns(d, before[d])

(* Whenever the store would admit a rollback of a deployment, or is        *)
(* running one, the backup path of its snapshot holds what the deployment  *)
(* replaced, however often the configuration changed, newer deployments    *)
(* reused the path and rollbacks failed meanwhile.                         *)
BackupKept ==
    \A d \in Store!DeploymentIds :
        /\ references[d] = "active"
        /\ Store!EligibleSource(d)
        /\ ApartUnder(d)
        => files[boundTo[d].snapshot.backup_path] = before[d]

(* Past the preflight, no call ever needs a task that the target does not  *)
(* grant: what is missing is found before the first side effect, the tasks *)
(* of a rollback that may become necessary included.                       *)
CapabilitiesHeld ==
    \A w \in Workers :
        worker[w].pc = "call" /\ worker[w].act # "preflight" =>
            Permitted(CallMade(w).task)

(* A rollback reference is the snapshot of the contract its deployment was *)
(* made under.                                                             *)
ReferenceOfItsContract ==
    \A d \in Store!DeploymentIds :
        boundTo[d] # NoReference => boundTo[d] = ReferenceFor(madeUnder[d])
=============================================================================
