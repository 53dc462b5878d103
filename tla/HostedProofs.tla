---------------------------- MODULE HostedProofs ----------------------------
(***************************************************************************)
(* Proofs about HostedService: whatever the configuration becomes between  *)
(* two starts and however far the remote calls come, no call needs a task  *)
(* that the target does not grant; and, with one process at a time, the    *)
(* target holds and runs one whole artifact of the size that the record of *)
(* the latest deployment names, or what it held before.                    *)
(***************************************************************************)
EXTENDS HostedService, RunningProofs

-----------------------------------------------------------------------------
(* HostedService runs DeployService.                                       *)

(* The steps of the request w. *)
Acts(w) ==
    \/ ReserveUnder(w) \/ RecordUnder(w) \/ IssueCall(w)
    \/ FindReferenceUnder(w) \/ GiveUpUnder(w)
    \/ \E result \in {"ok", "failed"} : Answer(w, result)
    \/ /\ \/ \E req \in Requests : Submit(w, req)
          \/ \E d \in Store!DeploymentIds : RequestRollback(w, d)
          \/ CheckConflict(w) \/ Reuse(w) \/ Advance(w) \/ TimeOut(w)
          \/ FinishAttempt(w) \/ AcquireForRollback(w) \/ Begin(w)
          \/ Settle(w)
       /\ HostKept
       /\ UNCHANGED configVars

(* The steps of nobody's request. *)
Surroundings ==
    /\ \/ \E p \in Processes : Recover(p) \/ Crash(p)
       \/ \E c \in inflight : RemoteEnds(c)
       \/ \E i \in incidents : Acknowledge(i)
    /\ HostKept
    /\ UNCHANGED configVars

(* Every step is one of a request, of the host, of main or of nobody's     *)
(* request.                                                                *)
LEMMA HostedCases ==
    [HostedNext]_hostedVars =>
        \/ UNCHANGED hostedVars
        \/ \E w \in Workers : Acts(w)
        \/ \E r \in remote : BeginEffect(r) \/ CompleteEffect(r)
        \/ \E p \in Processes, c \in Contracts : StartUnder(p, c)
        \/ Surroundings
BY DEF HostedNext, OtherStep, Acts, Surroundings

(* Every step of HostedService is one of DeployService, or none.           *)
LEMMA HostedStepImplements == [HostedNext]_hostedVars => [Next]_vars
<1>1. ASSUME NEW w \in Workers, Acts(w) PROVE Next
  BY <1>1 DEF Acts, ReserveUnder, RecordUnder, IssueCall, FindReferenceUnder,
     GiveUpUnder, Answer, Next, Progress
<1>2. ASSUME NEW r \in remote, BeginEffect(r) \/ CompleteEffect(r)
      PROVE  UNCHANGED vars
  BY <1>2 DEF BeginEffect, CompleteEffect
<1>3. ASSUME NEW p \in Processes, NEW c \in Contracts, StartUnder(p, c)
      PROVE  Next
  BY <1>3 DEF StartUnder, Next
<1>4. Surroundings => Next
  BY DEF Surroundings, Next
<1>5. UNCHANGED hostedVars => UNCHANGED vars
  BY DEF hostedVars
<1>6. QED
  BY <1>1, <1>2, <1>3, <1>4, <1>5, HostedCases

(* Whatever is proved of the services holds of them on their hosts.        *)
THEOREM HostedImplements == HostedSpec => Spec
<1>1. HostedInit => Init
  BY DEF HostedInit
<1>2. QED
  BY <1>1, HostedStepImplements, PTL DEF HostedSpec, Spec

(* What the request w goes to, in a step that moves it. *)
HostMoves(w, u, t) ==
    \/ t = u
    \/ Quiet(t)
    \/ /\ ReserveUnder(w) /\ u.pc = "reserve"
       /\ t = Moving(u.env, Len(deployments) + 1, "created", "prechecking")
    \/ Advance(w) /\ u.pc = "transition" /\ t = AfterTransition(Home[w], u)
    \/ IssueCall(w) /\ u.pc = "start" /\ t = [u EXCEPT !.pc = "call"]
    \/ /\ u.pc = "call"
       /\ \E result \in {"ok", "failed"} :
              Answer(w, result) /\ t = AfterReply(u, result)
    \/ /\ TimeOut(w) /\ u.pc = "call" /\ u.kind = "deployment"
       /\ t = Finishing(u, "timeout")
    \/ FinishAttempt(w) /\ u.pc = "finish" /\ t = AfterAttempt(Home[w], u)
    \/ /\ Begin(w) /\ u.pc = "begin"
       /\ t = Doing("start", u.env, "rollback_operation",
                    Len(operations) + 1, "preflight", 1)

(* A step of a request moves that request only.                            *)
LEMMA ActsMove ==
    ASSUME ServiceInv, NEW w \in Workers, Acts(w)
    PROVE  /\ HostMoves(w, worker[w], worker'[w])
           /\ \A x \in Workers : x # w => worker'[x] = worker[x]
<1>1. worker \in [Workers -> Tasks]
  BY DEF ServiceInv
<1>2. \A s : GoTo(w, s) \/ TryAcquire(w, s) =>
          worker'[w] = s /\ \A x \in Workers : x # w => worker'[x] = worker[x]
  BY <1>1 DEF GoTo, TryAcquire
<1>3. \A x \in Workers : x # w => worker'[x] = worker[x]
  BY <1>2 DEF Acts, ReserveUnder, RecordUnder, IssueCall, FindReferenceUnder,
     GiveUpUnder, Answer, Submit, RequestRollback, CheckConflict, Reuse,
     Advance, TimeOut, FinishAttempt, AcquireForRollback, Begin, Settle,
     Reserve, Record, StartCall, Reply, FindReference, GiveUp
<1>4. PICK u, t : u = worker[w] /\ t = worker'[w] /\ u \in Tasks
  BY <1>1
<1>5. /\ Quiet(Idle) /\ \A req : Quiet(Accepted("conflict", req))
      /\ \A req : Quiet(Accepted("reserve", req))
      /\ \A e, d : Quiet(Recording(e, d)) /\ Quiet(Considering("reference", e, d))
  BY DEF Quiet, Idle, Recording, Accepted, Considering
<1>6. ASSUME \/ \E req \in Requests : Submit(w, req)
             \/ \E d \in Store!DeploymentIds : RequestRollback(w, d)
             \/ CheckConflict(w) \/ Reuse(w) \/ RecordUnder(w) \/ GiveUpUnder(w)
             \/ Settle(w)
      PROVE  Quiet(t)
  <2>1. \/ t = Idle
        \/ \E req : t = Accepted("conflict", req) \/ t = Accepted("reserve", req)
        \/ \E e, d : t = Recording(e, d) \/ t = Considering("reference", e, d)
    BY <1>2, <1>4, <1>6 DEF Submit, RequestRollback, CheckConflict, Reuse,
       RecordUnder, Record, GiveUpUnder, GiveUp, Settle, Returned
  <2>2. QED
    BY <1>5, <2>1
<1>7. ASSUME FindReferenceUnder(w) \/ AcquireForRollback(w) PROVE Quiet(t)
  <2>1. u.pc \in {"reference", "acquire"}
        /\ \E pc \in {"acquire", "begin"} : t = [u EXCEPT !.pc = pc]
    BY <1>2, <1>4, <1>7 DEF FindReferenceUnder, FindReference,
       AcquireForRollback
  <2>2. u \in [pc: {"record", "reference", "acquire", "begin"},
               env: Environments, id: Nat]
    BY <1>4, <2>1 DEF Tasks, Idle
  <2>3. QED
    BY <2>1, <2>2 DEF Quiet
<1>8. ASSUME ReserveUnder(w) \/ Advance(w) \/ IssueCall(w) \/ FinishAttempt(w)
             \/ Begin(w)
      PROVE  HostMoves(w, u, t)
  BY <1>2, <1>4, <1>8 DEF HostMoves, ReserveUnder, Reserve, Advance,
     IssueCall, StartCall, FinishAttempt, Begin
<1>9. ASSUME NEW result \in {"ok", "failed"}, Answer(w, result)
      PROVE  HostMoves(w, u, t)
  BY <1>2, <1>4, <1>9 DEF HostMoves, Answer, Reply
<1>10. ASSUME TimeOut(w) PROVE HostMoves(w, u, t)
  BY <1>2, <1>4, <1>5, <1>10 DEF HostMoves, TimeOut
<1>11. HostMoves(w, u, t)
  BY <1>6, <1>7, <1>8, <1>9, <1>10 DEF Acts, HostMoves
<1>12. QED
  BY <1>3, <1>4, <1>11

(* What any step takes any request to.                                     *)
LEMMA HostGoes ==
    ASSUME ServiceInv, [HostedNext]_hostedVars, NEW w \in Workers
    PROVE  HostMoves(w, worker[w], worker'[w])
<1>1. PICK u, t : u = worker[w] /\ t = worker'[w]
  OBVIOUS
<1>2. ASSUME NEW x \in Workers, Acts(x) PROVE HostMoves(w, u, t)
  <2>1. CASE x = w
    BY <1>1, <1>2, <2>1, ActsMove
  <2>2. CASE x # w
    BY <1>1, <1>2, <2>2, ActsMove DEF HostMoves
  <2>3. QED
    BY <2>1, <2>2
<1>3. ASSUME UNCHANGED worker PROVE HostMoves(w, u, t)
  BY <1>1, <1>3 DEF HostMoves
<1>4. ASSUME NEW p \in Processes, Crash(p) PROVE HostMoves(w, u, t)
  BY <1>1, <1>4 DEF Crash, HostMoves, Quiet, Idle
<1>5. Surroundings => UNCHANGED worker \/ \E p \in Processes : Crash(p)
  BY DEF Surroundings, Recover, RecoverDeployment, ReadOperations,
     RecoverOperation, Serve, RemoteEnds, Acknowledge
<1>6. UNCHANGED hostedVars => UNCHANGED worker
  BY DEF hostedVars, vars
<1>7. \A r : BeginEffect(r) \/ CompleteEffect(r) => UNCHANGED worker
  BY DEF BeginEffect, CompleteEffect, vars
<1>8. \A p, c : StartUnder(p, c) => UNCHANGED worker
  BY DEF StartUnder, Start
<1>9. \/ UNCHANGED worker
      \/ \E x \in Workers : Acts(x)
      \/ \E p \in Processes : Crash(p)
  BY <1>5, <1>6, <1>7, <1>8, HostedCases
<1>10. HostMoves(w, u, t)
  BY <1>2, <1>3, <1>4, <1>9
<1>11. QED
  BY <1>1, <1>10
-----------------------------------------------------------------------------
(* What was recorded of each deployment.                                   *)

(* A reservation adds a deployment, with the contract it is made under and *)
(* what the target holds at that time.                                     *)
LEMMA ReservedRow ==
    ASSUME ServiceInv, NEW w \in Workers, ReserveUnder(w)
    PROVE  LET n == Len(deployments) + 1 IN
           /\ worker[w].pc = "reserve" /\ worker[w].req \in Store!Request
           /\ worker[w].env = worker[w].req.env
           /\ n \notin Store!DeploymentIds
           /\ Store!DeploymentIds' = Store!DeploymentIds \cup {n}
           /\ Len(deployments') = n
           /\ deployments'[n].state = "created"
           /\ deployments'[n].env = worker[w].env
           /\ deployments'[n].release = worker[w].req.release
           /\ references'[n] = "none"
           /\ \A d \in Store!DeploymentIds : /\ deployments'[d] = deployments[d]
                                            /\ references'[d] = references[d]
           /\ UNCHANGED <<operations, incidents, inflight, files, running>>
<1>1. PICK u : u = worker[w] /\ u \in Tasks /\ u.pc = "reserve"
  BY DEF ServiceInv, ReserveUnder, Reserve
<1>2. u.req \in Requests /\ u.env = u.req.env
  BY <1>1 DEF Tasks, Idle
<1>3. u.req \in P!Request /\ P!TypeOK /\ P!Reserve(u.req)
  BY <1>1, <1>2, ServiceAssumption, SameSets, SameInvariants, SameActions
  DEF ServiceInv, ReserveUnder, Reserve
<1>4. Len(deployments') = Len(deployments) + 1
  BY <1>3 DEF P!Reserve, P!TypeOK
<1>5. UNCHANGED <<operations, incidents, inflight, files, running>>
  BY <1>3 DEF P!Reserve, ReserveUnder, Reserve, HostKept
<1>6. QED
  BY <1>1, <1>2, <1>3, <1>4, <1>5, SameSets, P!ReserveEffect
  DEF Store!DeploymentIds, P!DeploymentIds

(* A persisted transition changes the state of one deployment.             *)
LEMMA AdvancedRow ==
    ASSUME ServiceInv, NEW w \in Workers, Advance(w)
    PROVE  /\ worker[w].id \in Store!DeploymentIds
           /\ <<worker[w].mem, worker[w].goal>> \in CanTransition
           /\ deployments[worker[w].id].state = worker[w].mem
           /\ Len(deployments') = Len(deployments)
           /\ \A d \in Store!DeploymentIds :
                  deployments'[d].state = IF d = worker[w].id THEN worker[w].goal
                                          ELSE deployments[d].state
           /\ UNCHANGED <<references, operations, incidents, inflight>>
<1>1. /\ worker[w].id \in P!DeploymentIds /\ worker[w].goal \in P!DeploymentState
      /\ deployments' = [deployments EXCEPT ![worker[w].id].state = worker[w].goal]
      /\ <<worker[w].mem, worker[w].goal>> \in CanTransition
      /\ deployments[worker[w].id].state = worker[w].mem
      /\ UNCHANGED <<references, operations, incidents, inflight>>
  BY SameSets DEF Advance, Store!Transition, Store!StateIs,
     Store!CanTransition, CanTransition, P!DeploymentState
<1>2. P!TypeOK
  BY SameInvariants DEF ServiceInv
<1>3. QED
  BY <1>1, <1>2, SameSets, P!UpdateEffect

(* The columns of a deployment are added with it, and only the reference   *)
(* is written later.                                                       *)
LEMMA ColumnSteps ==
    ASSUME ServiceInv, [HostedNext]_hostedVars
    PROVE  \/ /\ Len(deployments') = Len(deployments)
              /\ UNCHANGED <<madeUnder, before>>
              /\ UNCHANGED boundTo \/ \E w \in Workers : RecordUnder(w)
           \/ \E w \in Workers : ReserveUnder(w)
<1>1. ASSUME NEW w \in Workers, Acts(w), ~ReserveUnder(w)
      PROVE  /\ Len(deployments') = Len(deployments)
             /\ UNCHANGED <<madeUnder, before>>
             /\ UNCHANGED boundTo \/ RecordUnder(w)
  <2>1. Len(deployments') = Len(deployments)
    BY <1>1, AdvancedRow
    DEF Acts, RecordUnder, Record, IssueCall, StartCall, FindReferenceUnder,
        FindReference, GiveUpUnder, GiveUp, Answer, Reply, Submit,
        RequestRollback, CheckConflict, Reuse, TimeOut, FinishAttempt,
        AcquireForRollback, Begin, Settle, Store!RecordReference,
        Store!StartStep, Store!FinishStep, Store!BeginOperation,
        Store!FinishOperation, storeVars
  <2>2. QED
    BY <1>1, <2>1 DEF Acts, RecordUnder, IssueCall, FindReferenceUnder,
       GiveUpUnder, Answer, configVars
<1>2. ASSUME NEW p \in Processes, RecoverDeployment(p)
      PROVE  Len(deployments') = Len(deployments)
  <2>1. PICK d, from : Store!RecoverDeployment(d, from) \/ UNCHANGED storeVars
    BY <1>2 DEF RecoverDeployment
  <2>2. CASE Store!RecoverDeployment(d, from)
    <3>1. P!TypeOK /\ d \in P!DeploymentIds /\ "failed" \in P!DeploymentState
          /\ deployments' = [deployments EXCEPT ![d].state = "failed"]
      BY <2>2, SameInvariants, SameSets DEF ServiceInv,
         Store!RecoverDeployment, Store!StateIs, P!DeploymentState
    <3>2. QED
      BY <3>1, P!UpdateEffect
  <2>3. QED
    BY <2>1, <2>2 DEF storeVars
<1>3. Surroundings => /\ Len(deployments') = Len(deployments)
                      /\ UNCHANGED <<madeUnder, before, boundTo>>
  BY <1>2 DEF Surroundings, Recover, ReadOperations, RecoverOperation, Serve,
     Crash, RemoteEnds, Acknowledge, Store!RecoverOperation, Store!Prune,
     Store!Acknowledge, storeVars, configVars
<1>4. UNCHANGED hostedVars => UNCHANGED <<deployments, madeUnder, before, boundTo>>
  BY DEF hostedVars, vars, storeVars, configVars
<1>5. \A r : BeginEffect(r) \/ CompleteEffect(r)
                 => UNCHANGED <<deployments, madeUnder, before, boundTo>>
  BY DEF BeginEffect, CompleteEffect, vars, storeVars, configVars
<1>6. \A p, c : StartUnder(p, c)
                    => UNCHANGED <<deployments, madeUnder, before, boundTo>>
  BY DEF StartUnder, Start, storeVars
<1>7. QED
  BY <1>1, <1>3, <1>4, <1>5, <1>6, HostedCases

(* What the target may hold, and what a reference may snapshot. *)
Bytes == Content \cup {NoBytes}
Bindings == {NoReference} \cup {ReferenceFor(c) : c \in Contracts}

ColumnsTyped ==
    /\ config \in [Processes -> Contracts]
    /\ madeUnder \in Seq(Contracts)
    /\ boundTo \in Seq(Bindings)
    /\ before \in Seq(Bytes)
    /\ Len(madeUnder) = Len(deployments)
    /\ Len(boundTo) = Len(deployments)
    /\ Len(before) = Len(deployments)

(* The configuration of a request is one of the contracts.                 *)
LEMMA ConfigTyped ==
    ASSUME config \in [Processes -> Contracts], NEW w \in Workers
    PROVE  ConfigOf(w) \in Contracts
BY ServiceAssumption DEF ConfigOf

(* A reservation fills the columns of the new deployment.                  *)
LEMMA ReservedColumns ==
    ASSUME ServiceInv, ColumnsTyped, files \in [Paths -> Bytes],
           NEW w \in Workers, ReserveUnder(w)
    PROVE  LET n == Len(deployments) + 1 IN
           /\ ColumnsTyped'
           /\ madeUnder'[n] = ConfigOf(w)
           /\ before'[n] = files[ConfigOf(w).install_path]
           /\ boundTo'[n] = NoReference
           /\ \A d \in Store!DeploymentIds : /\ madeUnder'[d] = madeUnder[d]
                                            /\ before'[d] = before[d]
                                            /\ boundTo'[d] = boundTo[d]
<1>1. PICK c : c = ConfigOf(w) /\ c \in Contracts /\ c.install_path \in Paths
  BY ConfigTyped DEF ColumnsTyped, Paths
<1>2. /\ madeUnder' = Append(madeUnder, c)
      /\ before' = Append(before, files[c.install_path])
      /\ boundTo' = Append(boundTo, NoReference)
      /\ UNCHANGED config
  BY <1>1 DEF ReserveUnder
<1>3. Len(deployments') = Len(deployments) + 1 /\ Len(deployments) \in Nat
  BY ReservedRow DEF ServiceInv, Store!TypeOK
<1>4. files[c.install_path] \in Bytes /\ NoReference \in Bindings
  BY <1>1 DEF Bindings
<1>5. QED
  BY <1>1, <1>2, <1>3, <1>4 DEF ColumnsTyped, Store!DeploymentIds

(* record_reference writes the snapshot of a reference that is new.        *)
LEMMA RecordedColumns ==
    ASSUME ServiceInv, ColumnsTyped, NEW w \in Workers, RecordUnder(w)
    PROVE  /\ worker[w].pc = "record" /\ worker[w].id \in Store!DeploymentIds
           /\ \A d \in Store!DeploymentIds :
                  boundTo'[d] = IF d = worker[w].id /\ references[d] = "none"
                                THEN ReferenceFor(ConfigOf(w)) ELSE boundTo[d]
           /\ boundTo' \in Seq(Bindings) /\ Len(boundTo') = Len(boundTo)
<1>1. PICK d : d = worker[w].id
  OBVIOUS
<1>2. worker[w].pc = "record" /\ d \in 1 .. Len(deployments)
  BY <1>1 DEF RecordUnder, Record, Store!RecordReference,
     Store!EligibleSource, Store!DeploymentIds
<1>3. PICK b : b = ReferenceFor(ConfigOf(w)) /\ b \in Bindings
  BY ConfigTyped DEF ColumnsTyped, Bindings
<1>4. boundTo' = IF references[d] = "none" THEN [boundTo EXCEPT ![d] = b]
                 ELSE boundTo
  BY <1>1, <1>3 DEF RecordUnder
<1>5. boundTo \in Seq(Bindings) /\ Len(boundTo) = Len(deployments)
  BY DEF ColumnsTyped
<1>6. QED
  BY <1>1, <1>2, <1>3, <1>4, <1>5 DEF Store!DeploymentIds

(* The configuration of a process changes only while it is stopped.        *)
LEMMA ConfigKept ==
    ASSUME ServiceInv, Served, config \in [Processes -> Contracts],
           [HostedNext]_hostedVars
    PROVE  /\ config' \in [Processes -> Contracts]
           /\ granted' = granted
           /\ \A w \in Workers : worker'[w] # Idle => ConfigOf(w)' = ConfigOf(w)
<1>1. UNCHANGED config => \A w \in Workers : ConfigOf(w)' = ConfigOf(w)
  BY DEF ConfigOf
<1>2. ASSUME NEW p \in Processes, NEW c \in Contracts, StartUnder(p, c)
      PROVE  /\ config' \in [Processes -> Contracts]
             /\ granted' = granted
             /\ \A w \in Workers : worker'[w] # Idle => ConfigOf(w)' = ConfigOf(w)
  <2>1. /\ proc[p] = Stopped /\ UNCHANGED worker /\ granted' = granted
        /\ config' = [config EXCEPT ![p] = c]
    BY <1>2 DEF StartUnder, Start
  <2>2. \A w \in Workers : worker[w] # Idle => Home[w] # p
    BY <2>1 DEF Served, Up, Stopped
  <2>3. QED
    BY <2>1, <2>2, ServiceAssumption DEF ConfigOf
<1>3. \A w : Acts(w) => UNCHANGED <<config, granted>>
  BY DEF Acts, ReserveUnder, RecordUnder, IssueCall, FindReferenceUnder,
     GiveUpUnder, Answer, configVars
<1>4. Surroundings \/ UNCHANGED hostedVars => UNCHANGED <<config, granted>>
  BY DEF Surroundings, hostedVars, configVars
<1>5. \A r : BeginEffect(r) \/ CompleteEffect(r) => UNCHANGED <<config, granted>>
  BY DEF BeginEffect, CompleteEffect, configVars
<1>6. QED
  BY <1>1, <1>2, <1>3, <1>4, <1>5, HostedCases

(* Every process has a configuration that it may be started with. *)
ConfigSupplied == \A p \in Processes : SuppliedTo(p, config[p])

(* It keeps one.                                                           *)
LEMMA SuppliedStep ==
    ASSUME config \in [Processes -> Contracts], ConfigSupplied,
           [HostedNext]_hostedVars
    PROVE  ConfigSupplied'
<1>1. ASSUME NEW p \in Processes, NEW c \in Contracts, StartUnder(p, c)
      PROVE  ConfigSupplied'
  <2>1. SuppliedTo(p, c) /\ config' = [config EXCEPT ![p] = c]
    BY <1>1 DEF StartUnder
  <2>2. \A q \in Processes : config'[q] = IF q = p THEN c ELSE config[q]
    BY <2>1
  <2>3. ASSUME NEW q \in Processes PROVE SuppliedTo(q, config'[q])
    BY <2>1, <2>2 DEF ConfigSupplied
  <2>4. QED
    BY <2>3 DEF ConfigSupplied, SuppliedTo
<1>2. UNCHANGED config => ConfigSupplied'
  BY DEF ConfigSupplied, SuppliedTo
<1>3. \A w : Acts(w) => UNCHANGED config
  BY DEF Acts, ReserveUnder, RecordUnder, IssueCall, FindReferenceUnder,
     GiveUpUnder, Answer, configVars
<1>4. Surroundings \/ UNCHANGED hostedVars => UNCHANGED config
  BY DEF Surroundings, hostedVars, configVars
<1>5. \A r : BeginEffect(r) \/ CompleteEffect(r) => UNCHANGED config
  BY DEF BeginEffect, CompleteEffect, configVars
<1>6. QED
  BY <1>1, <1>2, <1>3, <1>4, <1>5, HostedCases

(* What the optional tasks of the configuration in force are.              *)
LEMMA SuppliedTasks ==
    ASSUME ConfigSupplied, NEW w \in Workers, NEW e \in Environments
    PROVE  /\ e \in RollbackConfigured[Home[w]]
                  <=> ConfigOf(w).tasks.rollback # NotConfigured
           /\ e \in PrecheckConfigured[Home[w]]
                  <=> ConfigOf(w).tasks.precheck # NotConfigured
BY ServiceAssumption DEF ConfigSupplied, SuppliedTo, ConfigOf
-----------------------------------------------------------------------------
(* Every reference is bound to a snapshot, and every explicit rollback has *)
(* one to work from.                                                       *)

ReferencesBound ==
    \A d \in Store!DeploymentIds :
        references[d] # "none" => boundTo[d] # NoReference

SourcesReferenced ==
    \A o \in Store!OperationIds : references[operations[o].source] # "none"

(* The steps that touch the references.                                    *)
LEMMA ReferenceSteps ==
    [HostedNext]_hostedVars =>
        \/ UNCHANGED references
        \/ \E w \in Workers : ReserveUnder(w) \/ RecordUnder(w)
        \/ \E w \in Workers : Settle(w) /\ UNCHANGED <<boundTo, deployments>>
<1>1. ASSUME NEW w \in Workers, Acts(w), ~ReserveUnder(w), ~RecordUnder(w)
      PROVE  \/ UNCHANGED references
             \/ Settle(w) /\ UNCHANGED <<boundTo, deployments>>
  BY <1>1 DEF Acts, IssueCall, StartCall, FindReferenceUnder, FindReference,
     GiveUpUnder, GiveUp, Answer, Reply, Submit, RequestRollback,
     CheckConflict, Reuse, Advance, TimeOut, FinishAttempt,
     AcquireForRollback, Begin, Settle, Store!Transition, Store!StartStep,
     Store!FinishStep, Store!BeginOperation, Store!FinishOperation, storeVars,
     configVars
<1>2. Surroundings => UNCHANGED references
  BY DEF Surroundings, Recover, RecoverDeployment, ReadOperations,
     RecoverOperation, Serve, Crash, RemoteEnds, Acknowledge,
     Store!RecoverDeployment, Store!RecoverOperation, Store!Prune,
     Store!Acknowledge, storeVars
<1>3. UNCHANGED hostedVars => UNCHANGED references
  BY DEF hostedVars, vars, storeVars
<1>4. \A r : BeginEffect(r) \/ CompleteEffect(r) => UNCHANGED references
  BY DEF BeginEffect, CompleteEffect, vars, storeVars
<1>5. \A p, c : StartUnder(p, c) => UNCHANGED references
  BY DEF StartUnder, Start, storeVars
<1>6. QED
  BY <1>1, <1>2, <1>3, <1>4, <1>5, HostedCases

(* record_reference makes one reference active, which may have been none.  *)
LEMMA RecordedReference ==
    ASSUME ServiceInv, NEW w \in Workers, RecordUnder(w)
    PROVE  /\ Store!EligibleSource(worker[w].id)
           /\ references'[worker[w].id] = "active"
           /\ references[worker[w].id] \in {"none", "active"}
           /\ \A d \in Store!DeploymentIds \ {worker[w].id} :
                  /\ references'[d] = "none" <=> references[d] = "none"
                  /\ references'[d] = "active" => references[d] = "active"
           /\ references[worker[w].id] = "active" => UNCHANGED references
           /\ UNCHANGED <<deployments, operations, incidents, inflight>>
<1>1. PICK d : d = worker[w].id
  OBVIOUS
<1>2. /\ P!TypeOK /\ P!RecordReference(d) /\ d \in P!DeploymentIds
      /\ Store!EligibleSource(d)
  BY <1>1, SameSets, SameInvariants, SameActions
  DEF ServiceInv, RecordUnder, Record, Store!RecordReference,
      Store!EligibleSource
<1>3. \A r \in P!DeploymentIds :
          references'[r] =
              CASE r = d -> "active"
                [] r # d /\ references[d] # "active" /\ references[r] = "active"
                         /\ deployments[r].env = deployments[d].env
                     -> "superseded"
                [] OTHER -> references[r]
  BY <1>2, P!RecordEffect
<1>4. /\ references[d] \in {"none", "active"}
      /\ references[d] = "active" => UNCHANGED references
      /\ UNCHANGED <<deployments, operations, incidents, inflight>>
  BY <1>1, <1>2 DEF P!RecordReference, RecordUnder, Record
<1>5. \A r \in P!DeploymentIds : r # d =>
          \/ references'[r] = references[r]
          \/ references[r] = "active" /\ references'[r] = "superseded"
  BY <1>3
<1>6. references'[d] = "active"
  BY <1>2, <1>3
<1>7. QED
  BY <1>1, <1>2, <1>4, <1>5, <1>6, SameSets

(* The end of a rollback consumes its reference or leaves it.              *)
LEMMA SettledReference ==
    ASSUME ServiceInv, NEW w \in Workers, Settle(w)
    PROVE  /\ worker[w].id \in Store!OperationIds
           /\ operations[worker[w].id].state = "started"
           /\ \A d \in Store!DeploymentIds :
                  references'[d] =
                      IF /\ worker[w].outcome = "succeeded"
                         /\ d = operations[worker[w].id].source
                      THEN "consumed" ELSE references[d]
           /\ \A o \in Store!OperationIds :
                  operations'[o].state = IF o = worker[w].id THEN worker[w].outcome
                                         ELSE operations[o].state
           /\ worker[w].outcome = "succeeded"
                  => references[operations[worker[w].id].source] = "active"
           /\ UNCHANGED <<deployments, incidents, inflight>>
<1>1. PICK o, s : o = worker[w].id /\ s = worker[w].outcome
  OBVIOUS
<1>2. /\ P!TypeOK /\ P!FinishOperation(o, s) /\ o \in P!OperationIds
      /\ s \in {"succeeded", "failed"} /\ operations[o].state = "started"
      /\ operations' = [operations EXCEPT ![o].state = s]
      /\ s = "succeeded" => references[operations[o].source] = "active"
      /\ UNCHANGED <<deployments, incidents, inflight>>
  BY <1>1, SameSets, SameInvariants, SameActions
  DEF ServiceInv, Settle, Store!FinishOperation
<1>3. \A d \in P!DeploymentIds :
          references'[d] = IF s = "succeeded" /\ d = operations[o].source
                           THEN "consumed" ELSE references[d]
  BY <1>2, P!FinishEffect
<1>4. \A p \in P!OperationIds :
          operations'[p].state = IF p = o THEN s ELSE operations[p].state
  BY <1>2, P!CloseEffect
<1>5. QED
  BY <1>1, <1>2, <1>3, <1>4, SameSets

(* Begin adds one started operation, whose reference is active.            *)
LEMMA BegunRow ==
    ASSUME ServiceInv, NEW w \in Workers, Begin(w)
    PROVE  LET n == Len(operations) + 1 IN
           /\ n \notin Store!OperationIds
           /\ Store!OperationIds' = Store!OperationIds \cup {n}
           /\ \A o \in Store!OperationIds : operations'[o] = operations[o]
           /\ operations'[n].source = worker[w].id
           /\ operations'[n].state = "started"
           /\ Store!EligibleSource(worker[w].id)
           /\ references[worker[w].id] = "active"
           /\ UNCHANGED <<deployments, references, incidents, inflight>>
<1>1. PICK d : d = worker[w].id
  OBVIOUS
<1>2. /\ P!TypeOK /\ P!BeginOperation(d) /\ d \in P!DeploymentIds
      /\ Store!EligibleSource(d) /\ references[d] = "active"
      /\ UNCHANGED <<deployments, references, incidents, inflight>>
  BY <1>1, SameSets, SameInvariants, SameActions
  DEF ServiceInv, Begin, Store!BeginOperation, Store!EligibleSource
<1>3. /\ Len(operations) + 1 \notin P!OperationIds
      /\ P!OperationIds' = P!OperationIds \cup {Len(operations) + 1}
      /\ \A o \in P!OperationIds : operations'[o] = operations[o]
      /\ operations'[Len(operations) + 1].source = d
      /\ operations'[Len(operations) + 1].state = "started"
  BY <1>2, P!BeginEffect
<1>4. QED
  BY <1>1, <1>2, <1>3 DEF Store!OperationIds, P!OperationIds

(* A reference keeps the snapshot it was bound to.                         *)
LEMMA ColumnsKept ==
    ASSUME ServiceInv, ColumnsTyped, files \in [Paths -> Bytes], Served,
           [HostedNext]_hostedVars
    PROVE  /\ ColumnsTyped'
           /\ \A d \in Store!DeploymentIds :
                  /\ madeUnder'[d] = madeUnder[d] /\ before'[d] = before[d]
                  /\ \/ boundTo'[d] = boundTo[d]
                     \/ \E w \in Workers :
                            /\ RecordUnder(w) /\ worker[w].id = d
                            /\ references[d] = "none"
                            /\ boundTo'[d] = ReferenceFor(ConfigOf(w))
<1>1. config' \in [Processes -> Contracts]
  BY ConfigKept DEF ColumnsTyped
<1>2. ASSUME NEW w \in Workers, ReserveUnder(w)
      PROVE  /\ ColumnsTyped'
             /\ \A d \in Store!DeploymentIds :
                    /\ madeUnder'[d] = madeUnder[d] /\ before'[d] = before[d]
                    /\ boundTo'[d] = boundTo[d]
  BY <1>2, ReservedColumns
<1>3. CASE /\ Len(deployments') = Len(deployments)
           /\ UNCHANGED <<madeUnder, before>> /\ UNCHANGED boundTo
  BY <1>1, <1>3 DEF ColumnsTyped
<1>4. ASSUME Len(deployments') = Len(deployments),
             UNCHANGED <<madeUnder, before>>, NEW w \in Workers, RecordUnder(w)
      PROVE  /\ ColumnsTyped'
             /\ \A d \in Store!DeploymentIds :
                    \/ boundTo'[d] = boundTo[d]
                    \/ /\ worker[w].id = d /\ references[d] = "none"
                       /\ boundTo'[d] = ReferenceFor(ConfigOf(w))
  BY <1>1, <1>4, RecordedColumns DEF ColumnsTyped
<1>5. QED
  BY <1>2, <1>3, <1>4, ColumnSteps

(* No step forgets a reference.                                            *)
LEMMA ReferenceStays ==
    ASSUME ServiceInv, [Next]_vars, NEW d \in Store!DeploymentIds,
           references[d] # "none"
    PROVE  d \in Store!DeploymentIds' /\ references'[d] # "none"
<1>1. P!TypeOK /\ P!HistoryKept /\ P!RecordsKept /\ d \in P!DeploymentIds
  BY StoreStep, SameNext, SameInvariants, SameSets, P!HistoryStep, P!RecordsStay
  DEF ServiceInv
<1>2. references[d] \in {"active", "superseded", "consumed"}
  BY <1>1, P!Rows DEF P!TypeOK, P!ReferenceState, P!DeploymentIds
<1>3. references'[d] # "none"
  BY <1>1, <1>2 DEF P!HistoryKept
<1>4. QED
  BY <1>1, <1>3 DEF P!RecordsKept, P!DeploymentIds, Store!DeploymentIds

(* A reference that appears has its snapshot, and so has every rollback.   *)
LEMMA BoundStep ==
    ASSUME ServiceInv, P!ReferenceInv, ColumnsTyped,
           files \in [Paths -> Bytes], Served, ReferencesBound,
           SourcesReferenced, [HostedNext]_hostedVars
    PROVE  ReferencesBound' /\ SourcesReferenced'
<1>1. [Next]_vars
  BY HostedStepImplements
<1>2. ASSUME NEW d \in Store!DeploymentIds', references'[d] # "none"
      PROVE  boundTo'[d] # NoReference
  <2>1. ASSUME NEW w \in Workers, ReserveUnder(w) PROVE boundTo'[d] # NoReference
    <3>1. d \in Store!DeploymentIds
      BY <1>2, <2>1, ReservedRow
    <3>2. references'[d] = references[d] /\ boundTo'[d] = boundTo[d]
      BY <2>1, <3>1, ReservedRow, ReservedColumns
    <3>3. QED
      BY <1>2, <3>1, <3>2 DEF ReferencesBound
  <2>2. ASSUME NEW w \in Workers, RecordUnder(w) PROVE boundTo'[d] # NoReference
    <3>1. d \in Store!DeploymentIds
      BY <1>2, <2>2, RecordedReference DEF Store!DeploymentIds
    <3>2. ReferenceFor(ConfigOf(w)) # NoReference
      BY ConfigTyped, TargetAssumption DEF ColumnsTyped
    <3>3. references[d] # "none" => boundTo[d] # NoReference
      BY <3>1 DEF ReferencesBound
    <3>4. d # worker[w].id => references[d] # "none"
      BY <1>2, <2>2, <3>1, RecordedReference
    <3>5. QED
      BY <2>2, <3>1, <3>2, <3>3, <3>4, RecordedColumns
  <2>3. ASSUME Len(deployments') = Len(deployments), UNCHANGED boundTo,
               references[d] # "none"
        PROVE  boundTo'[d] # NoReference
    BY <1>2, <2>3 DEF ReferencesBound, Store!DeploymentIds
  <2>4. ASSUME Len(deployments') = Len(deployments)
        PROVE  \/ references[d] # "none"
               \/ \E w \in Workers : ReserveUnder(w) \/ RecordUnder(w)
    <3>1. d \in Store!DeploymentIds
      BY <1>2, <2>4 DEF Store!DeploymentIds
    <3>2. ASSUME NEW w \in Workers, Settle(w) PROVE references[d] # "none"
      <4>1. CASE d = operations[worker[w].id].source
                 /\ worker[w].outcome = "succeeded"
        BY <3>2, <4>1, SettledReference
      <4>2. CASE ~(/\ d = operations[worker[w].id].source
                   /\ worker[w].outcome = "succeeded")
        BY <1>2, <3>1, <3>2, <4>2, SettledReference
      <4>3. QED
        BY <4>1, <4>2
    <3>3. QED
      BY <1>2, <3>2, ReferenceSteps
  <2>5. QED
    BY <2>1, <2>2, <2>3, <2>4, ColumnSteps
<1>3. ASSUME NEW o \in Store!OperationIds'
      PROVE  references'[operations'[o].source] # "none"
  <2>1. ASSUME o \in Store!OperationIds PROVE references'[operations'[o].source] # "none"
    <3>1. operations'[o].source = operations[o].source
      BY <1>1, <2>1, RecordsStay DEF P!RecordsKept, P!OperationIds,
         Store!OperationIds
    <3>2. operations[o].source \in Store!DeploymentIds
      BY <2>1, SameSets DEF P!ReferenceInv, P!SourcesExist
    <3>3. QED
      BY <1>1, <2>1, <3>1, <3>2, ReferenceStays DEF SourcesReferenced
  <2>2. ASSUME NEW w \in Workers, Begin(w), o \notin Store!OperationIds
        PROVE  references'[operations'[o].source] # "none"
    BY <1>3, <2>2, BegunRow
  <2>3. QED
    BY <1>1, <1>3, <2>1, <2>2, RowSteps
<1>4. QED
  BY <1>2, <1>3 DEF ReferencesBound, SourcesReferenced
-----------------------------------------------------------------------------
(* What the calls ask for, and how they change the host.                   *)

(* The activities of an explicit rollback. *)
RollbackAct == {"preflight", "restore", "reactivate", "reverify"}

RollbackActs ==
    \A w \in Workers :
        /\ worker[w].pc \in {"start", "call"}
        /\ worker[w].kind = "rollback_operation"
        => worker[w].act \in RollbackAct

(* What the reply to a call of an explicit rollback leads to.              *)
LEMMA AfterRollbackReply ==
    ASSUME NEW u \in Tasks, u.pc = "call", u.kind = "rollback_operation",
           NEW result \in {"ok", "failed"}
    PROVE  \/ /\ result = "ok" /\ FollowsInRollback(u.act) # "none"
              /\ AfterReply(u, result)
                     = Doing("start", u.env, u.kind, u.id,
                             FollowsInRollback(u.act), 1)
           \/ /\ result = "ok" /\ FollowsInRollback(u.act) = "none"
              /\ AfterReply(u, result) = Settling(u.env, u.id, "succeeded")
           \/ /\ result = "failed" /\ u.act \in Verification
              /\ AfterReply(u, result)
                     = Doing("start", u.env, u.kind, u.id, u.act, u.tries + 1)
           \/ /\ result = "failed"
              /\ AfterReply(u, result) = Settling(u.env, u.id, "failed")
<1>1. u \in [pc: {"start", "call"}, env: Environments, kind: RecordKind,
             id: Nat, act: Activity, tries: Nat]
  BY DEF Tasks, Idle
<1>2. AfterReply(u, result) = RollbackAfterReply(u, result)
  BY DEF AfterReply
<1>3. [u EXCEPT !.pc = "start", !.tries = @ + 1]
          = Doing("start", u.env, u.kind, u.id, u.act, u.tries + 1)
  BY <1>1, TriedAgain
<1>4. CASE result = "ok" /\ FollowsInRollback(u.act) # "none"
  BY <1>2, <1>4 DEF RollbackAfterReply, RetriesVerification
<1>5. CASE result = "ok" /\ FollowsInRollback(u.act) = "none"
  BY <1>2, <1>5 DEF RollbackAfterReply, RetriesVerification
<1>6. CASE result = "failed" /\ RetriesVerification(u, result)
  <2>1. u.act \in Verification
    BY <1>6 DEF RetriesVerification
  <2>2. RollbackAfterReply(u, result) = [u EXCEPT !.pc = "start", !.tries = @ + 1]
    BY <1>6 DEF RollbackAfterReply
  <2>3. QED
    BY <1>2, <1>3, <1>6, <2>1, <2>2
<1>7. CASE result = "failed" /\ ~RetriesVerification(u, result)
  BY <1>2, <1>7 DEF RollbackAfterReply
<1>8. QED
  BY <1>4, <1>5, <1>6, <1>7

(* An explicit rollback performs its own activities only.                  *)
LEMMA RollbackActsStep ==
    ASSUME ServiceInv, RollbackActs, [HostedNext]_hostedVars
    PROVE  RollbackActs'
<1>1. ASSUME NEW w \in Workers, NEW t, t = worker'[w],
             t.pc \in {"start", "call"}, t.kind = "rollback_operation"
      PROVE  t.act \in RollbackAct
  <2>1. PICK u : u = worker[w] /\ u \in Tasks
    BY DEF ServiceInv
  <2>2. HostMoves(w, u, t)
    BY <1>1, <2>1, HostGoes
  <2>3. u.pc \in {"start", "call"} /\ u.kind = "rollback_operation"
            => u.act \in RollbackAct
    BY <2>1 DEF RollbackActs
  <2>4. ASSUME NEW e, NEW d, NEW m, NEW g, t = Moving(e, d, m, g) PROVE FALSE
    BY <1>1, <2>4 DEF Moving
  <2>5. ASSUME NEW r, t = Finishing(u, r) PROVE FALSE
    BY <1>1, <2>5 DEF Finishing
  <2>6. ~Quiet(t)
    BY <1>1 DEF Quiet
  <2>7. CASE u.pc = "start" /\ t = [u EXCEPT !.pc = "call"]
    <3>1. u \in [pc: {"start", "call"}, env: Environments, kind: RecordKind,
                 id: Nat, act: Activity, tries: Nat]
      BY <2>1, <2>7 DEF Tasks, Idle
    <3>2. t.kind = u.kind /\ t.act = u.act
      BY <2>7, <3>1
    <3>3. QED
      BY <1>1, <2>3, <2>7, <3>2
  <2>8. ASSUME u.pc = "call", NEW result \in {"ok", "failed"},
               t = AfterReply(u, result)
        PROVE  t.act \in RollbackAct
    <3>1. u.kind = "rollback_operation"
      BY <1>1, <2>1, <2>5, <2>8, AfterReplyCases
    <3>2. u.act \in RollbackAct
      BY <2>3, <2>8, <3>1
    <3>3. \A e, k, d, a, n : Doing("start", e, k, d, a, n).act = a
      BY DEF Doing
    <3>4. \A e, d, o : Settling(e, d, o).pc = "settle"
      BY DEF Settling
    <3>5. FollowsInRollback(u.act) # "none"
              => FollowsInRollback(u.act) \in RollbackAct
      BY DEF FollowsInRollback, RollbackAct
    <3>6. QED
      BY <1>1, <2>1, <2>8, <3>1, <3>2, <3>3, <3>4, <3>5, AfterRollbackReply
  <2>9. ASSUME u.pc = "finish", t = AfterAttempt(Home[w], u) PROVE FALSE
    <3>1. \A e, d, a, n : Doing("start", e, "deployment", d, a, n).kind = "deployment"
      BY DEF Doing
    <3>2. t # Idle
      BY <1>1 DEF Idle
    <3>3. QED
      BY <1>1, <2>1, <2>4, <2>9, <3>1, <3>2, AfterAttemptCases
  <2>10. ASSUME u.pc = "transition", Advance(w), t = AfterTransition(Home[w], u)
         PROVE FALSE
    <3>1. \A e, d, a, n : Doing("start", e, "deployment", d, a, n).kind = "deployment"
      BY DEF Doing
    <3>2. t # Idle /\ \A e, d : t # Recording(e, d)
      BY <1>1 DEF Idle, Recording
    <3>3. <<u.mem, u.goal>> \in CanTransition
      BY <2>1, <2>10, AdvancedRow
    <3>4. QED
      BY <1>1, <2>1, <2>10, <3>1, <3>2, <3>3, AfterTransitionCases
  <2>11. ASSUME NEW e, NEW d, NEW n,
                t = Doing("start", e, "rollback_operation", d, "preflight", n)
         PROVE  t.act \in RollbackAct
    BY <2>11 DEF Doing, RollbackAct
  <2>12. QED
    BY <1>1, <2>2, <2>3, <2>4, <2>5, <2>6, <2>7, <2>8, <2>9, <2>10, <2>11
    DEF HostMoves
<1>2. QED
  BY <1>1 DEF RollbackActs

(* The call of activity a under contract c. *)
CallUnder(c, a) ==
    CASE a = "stage"      -> Upload(c)
      [] a \in Recovering -> CurrentRollbackCall(c, a)
      [] OTHER            -> LifecycleCall(c, a)

Restarting == {"restart", "reactivate"}

(* The file that the activity writes, and the file that it copies.         *)
Writes(c, a) ==
    CASE a = "stage"                   -> c.staging_path
      [] a = "backup"                  -> c.backup_path
      [] a \in {"install", "restore"}  -> c.install_path
      [] OTHER                         -> NoPath

Reads(c, a) ==
    CASE a = "backup"  -> c.install_path
      [] a = "install" -> c.staging_path
      [] a = "restore" -> c.backup_path
      [] OTHER         -> NoPath

(* The files a contract names.                                             *)
LEMMA PathsOfContract ==
    ASSUME NEW c \in Contracts
    PROVE  /\ {c.staging_path, c.install_path, c.backup_path} \subseteq Paths
           /\ NoPath \notin Paths
BY TargetAssumption DEF Paths

(* A call restarts the unit, or it writes one file; and the unit executes  *)
(* the installed file.                                                     *)
LEMMA CallFields ==
    ASSUME NEW c \in Contracts, NEW a \in Mutating
    PROVE  /\ CallUnder(c, a).from = Reads(c, a)
           /\ CallUnder(c, a).to = Writes(c, a)
           /\ IsRestart(CallUnder(c, a).task) <=> a \in Restarting
           /\ a \in Restarting => UnitPath(CallUnder(c, a).task) = c.install_path
<1>1. PICK m : m = CallUnder(c, a)
  OBVIOUS
<1>2. /\ a = "stage" => m = TaskCall("upload", NoPath, c.staging_path)
      /\ a = "backup" => m = TaskCall(c.tasks.backup, c.install_path, c.backup_path)
      /\ a = "install" => m = TaskCall(c.tasks.install, c.staging_path, c.install_path)
      /\ a = "restore" => m = TaskCall(c.tasks.rollback, c.backup_path, c.install_path)
      /\ a \in Restarting => m = TaskCall(c.tasks.restart, NoPath, NoPath)
  BY <1>1 DEF CallUnder, Upload, CurrentRollbackCall, LifecycleCall,
     Recovering, Restarting, Mutating
<1>3. a \in {"stage", "backup", "install", "restore"} \/ a \in Restarting
  BY DEF Mutating, Restarting
<1>4. \A t, x, y : /\ TaskCall(t, x, y).task = t
                   /\ TaskCall(t, x, y).from = x
                   /\ TaskCall(t, x, y).to = y
  BY DEF TaskCall
<1>5. m.from = Reads(c, a) /\ m.to = Writes(c, a)
  BY <1>2, <1>3, <1>4 DEF Reads, Writes, Restarting
<1>6. CASE a \in Restarting
  <2>1. m.task = c.tasks.restart
    BY <1>2, <1>4, <1>6
  <2>2. IsRestart(m.task)
    BY <2>1 DEF IsRestart
  <2>3. PICK b \in Contracts : /\ b.tasks.restart = m.task
                               /\ UnitPath(m.task) = b.install_path
    BY <2>2 DEF IsRestart, UnitPath
  <2>4. b.install_path = c.install_path
    BY <2>1, <2>3, TargetAssumption
  <2>5. QED
    BY <1>1, <1>5, <1>6, <2>2, <2>3, <2>4
<1>7. CASE a \notin Restarting
  <2>1. m.task \in {"upload", c.tasks.backup, c.tasks.install, c.tasks.rollback}
    BY <1>2, <1>3, <1>4, <1>7
  <2>2. ~IsRestart(m.task)
    BY <2>1, TargetAssumption DEF IsRestart
  <2>3. QED
    BY <1>1, <1>5, <1>7, <2>2
<1>8. QED
  BY <1>6, <1>7

(* The paths of a call are among those of its contract.                    *)
LEMMA CallPaths ==
    ASSUME NEW c \in Contracts, NEW a \in Mutating
    PROVE  /\ Reads(c, a) \in Paths \cup {NoPath}
           /\ Writes(c, a) \in Paths \cup {NoPath}
           /\ Writes(c, a) = NoPath <=> a \in Restarting
           /\ Reads(c, a) = NoPath <=> a \in Restarting \/ a = "stage"
BY PathsOfContract DEF Reads, Writes, Mutating, Restarting

(* What a request asks of the remote.                                      *)
LEMMA CallMadeUnder ==
    ASSUME NEW w \in Workers, NEW u, u = worker[w], u.act \in Mutating,
           NEW c
    PROVE  /\ u.kind = "deployment" /\ c = ConfigOf(w)
                  => CallMade(w) = CallUnder(c, u.act)
           /\ /\ u.kind = "rollback_operation" /\ u.act \in RollbackAct
              /\ ReferenceOf(u) = ReferenceFor(c)
              => CallMade(w) = CallUnder(c, u.act)
<1>1. ASSUME u.kind = "deployment", c = ConfigOf(w)
      PROVE  CallMade(w) = CallUnder(c, u.act)
  <2>1. CASE u.act = "stage"
    BY <1>1, <2>1 DEF CallMade, CallUnder
  <2>2. CASE u.act \in Recovering
    BY <1>1, <2>2 DEF CallMade, CallUnder, Recovering
  <2>3. CASE u.act # "stage" /\ u.act \notin Recovering
    BY <1>1, <2>3 DEF CallMade, CallUnder
  <2>4. QED
    BY <2>1, <2>2, <2>3
<1>2. ASSUME u.kind = "rollback_operation", u.act \in RollbackAct,
             ReferenceOf(u) = ReferenceFor(c)
      PROVE  CallMade(w) = CallUnder(c, u.act)
  <2>1. CallMade(w) = RollbackCall(ReferenceFor(c), u.act)
    BY <1>2 DEF CallMade
  <2>2. u.act \in {"restore", "reactivate"}
    BY <1>2 DEF RollbackAct, Mutating
  <2>3. QED
    BY <2>1, <2>2 DEF RollbackCall, ReferenceFor, Snapshot, CallUnder,
       CurrentRollbackCall, Recovering
<1>3. QED
  BY <1>1, <1>2

(* The call r is one of a contract, and has come some way. *)
RemoteTyped(r) ==
    /\ r = [call |-> r.call, made |-> r.made, bytes |-> r.bytes,
            progress |-> r.progress]
    /\ r.progress \in {"sent", "begun", "done"}
    /\ r.bytes \in Bytes
    /\ r.call.act = "stage" => r.bytes \in Digests
    /\ r.call.act \in Mutating
    /\ \E c \in Contracts : r.made = CallUnder(c, r.call.act)

HostTyped ==
    /\ files \in [Paths -> Bytes]
    /\ \A r \in remote : RemoteTyped(r) /\ r.call \in inflight

(* The effect of a call, half or whole, is on the file it writes or on     *)
(* what runs.                                                              *)
LEMMA EffectsOfCall ==
    ASSUME files \in [Paths -> Bytes], NEW r, RemoteTyped(r),
           BeginEffect(r) \/ CompleteEffect(r),
           NEW c \in Contracts, r.made = CallUnder(c, r.call.act)
    PROVE  /\ files' \in [Paths -> Bytes]
           /\ \A p \in Paths : p # Writes(c, r.call.act) => files'[p] = files[p]
           /\ r.call.act \notin Restarting => running' = running
           /\ CompleteEffect(r) =>
                 /\ r.call.act = "stage" => files'[c.staging_path] = r.bytes
                 /\ r.call.act \in {"backup", "install", "restore"} =>
                        files'[Writes(c, r.call.act)] = files[Reads(c, r.call.act)]
                 /\ r.call.act \in Restarting => running' = files[c.install_path]
<1>1. PICK a, m : a = r.call.act /\ m = r.made /\ a \in Mutating
  BY DEF RemoteTyped
<1>2. /\ m.from = Reads(c, a) /\ m.to = Writes(c, a)
      /\ IsRestart(m.task) <=> a \in Restarting
      /\ a \in Restarting => UnitPath(m.task) = c.install_path
  BY <1>1, CallFields
<1>3. /\ Reads(c, a) \in Paths \cup {NoPath}
      /\ Writes(c, a) \in Paths \cup {NoPath}
      /\ Writes(c, a) = NoPath <=> a \in Restarting
      /\ Reads(c, a) = NoPath <=> a \in Restarting \/ a = "stage"
      /\ NoPath \notin Paths
  BY <1>1, CallPaths, PathsOfContract
<1>4. "torn" \in Bytes /\ r.bytes \in Bytes
  BY DEF Bytes, Content, RemoteTyped
<1>5. CASE a \in Restarting
  <2>1. UNCHANGED files
    BY <1>1, <1>2, <1>3, <1>5 DEF BeginEffect, CompleteEffect
  <2>2. CompleteEffect(r) => running' = files[c.install_path]
    BY <1>1, <1>2, <1>5 DEF CompleteEffect
  <2>3. a \notin {"stage", "backup", "install", "restore"}
    BY <1>5 DEF Restarting
  <2>4. QED
    BY <1>1, <1>5, <2>1, <2>2, <2>3
<1>6. CASE a \notin Restarting
  <2>1. PICK b : /\ files' = [files EXCEPT ![Writes(c, a)] = b]
                 /\ \/ b = "torn" /\ BeginEffect(r)
                    \/ b = r.bytes /\ Reads(c, a) = NoPath
                    \/ b = files[Reads(c, a)] /\ Reads(c, a) # NoPath
                 /\ CompleteEffect(r) => b = IF Reads(c, a) = NoPath THEN r.bytes
                                             ELSE files[Reads(c, a)]
    <3>1. CASE BeginEffect(r) /\ ~CompleteEffect(r)
      BY <1>1, <1>2, <1>3, <1>6, <3>1 DEF BeginEffect
    <3>2. CASE CompleteEffect(r)
      BY <1>1, <1>2, <1>3, <1>6, <3>2 DEF CompleteEffect
    <3>3. QED
      BY <3>1, <3>2
  <2>2. Writes(c, a) \in Paths /\ b \in Bytes
    BY <1>3, <1>4, <1>6, <2>1
  <2>3. running' = running
    BY <1>1, <1>2, <1>6 DEF BeginEffect, CompleteEffect
  <2>4. /\ files' \in [Paths -> Bytes]
        /\ files'[Writes(c, a)] = b
        /\ \A p \in Paths : p # Writes(c, a) => files'[p] = files[p]
    BY <2>1, <2>2
  <2>5. a = "stage" => Writes(c, a) = c.staging_path
    BY DEF Writes
  <2>6. a \in {"backup", "install", "restore"} => Reads(c, a) # NoPath
    BY <1>3 DEF Restarting
  <2>7. QED
    BY <1>1, <1>3, <1>6, <2>1, <2>3, <2>4, <2>5, <2>6
<1>7. QED
  BY <1>5, <1>6

(* A call is issued, takes effect, or is forgotten once it has ended.      *)
LEMMA RemoteSteps ==
    [HostedNext]_hostedVars =>
        \/ /\ remote' = {r \in remote : r.call \in inflight'}
           /\ UNCHANGED <<files, running>>
        \/ /\ UNCHANGED <<remote, files, running>>
           /\ inflight \subseteq inflight'
        \/ \E w \in Workers, b \in Digests \cup {NoBytes} :
               /\ IssueCall(w) /\ worker[w].act \in Mutating
               /\ worker[w].act = "stage" => b \in Digests
               /\ remote' = remote \cup
                     {[call |-> CallOf(worker[w]), made |-> CallMade(w),
                       bytes |-> b, progress |-> "sent"]}
               /\ inflight' = inflight \cup {CallOf(worker[w])}
               /\ UNCHANGED <<files, running>>
        \/ \E r \in remote : BeginEffect(r) \/ CompleteEffect(r)
<1>1. ASSUME NEW w \in Workers, IssueCall(w), worker[w].act \in Mutating
      PROVE  \E b \in Digests \cup {NoBytes} :
                 /\ worker[w].act = "stage" => b \in Digests
                 /\ remote' = remote \cup
                       {[call |-> CallOf(worker[w]), made |-> CallMade(w),
                         bytes |-> b, progress |-> "sent"]}
                 /\ inflight' = inflight \cup {CallOf(worker[w])}
                 /\ UNCHANGED <<files, running>>
  <2>1. PICK b \in IF worker[w].act = "stage" THEN Digests ELSE {NoBytes} :
            remote' = remote \cup
                {[call |-> CallOf(worker[w]), made |-> CallMade(w),
                  bytes |-> b, progress |-> "sent"]}
    BY <1>1 DEF IssueCall
  <2>2. inflight' = inflight \cup {CallOf(worker[w])}
        /\ UNCHANGED <<files, running>>
    BY <1>1 DEF IssueCall, StartCall, Issue
  <2>3. b \in Digests \cup {NoBytes} /\ (worker[w].act = "stage" => b \in Digests)
    BY <2>1
  <2>4. QED
    BY <2>1, <2>2, <2>3
<1>2. ASSUME NEW w \in Workers, IssueCall(w), worker[w].act \notin Mutating
      PROVE  UNCHANGED <<remote, files, running, inflight>>
  BY <1>2 DEF IssueCall, StartCall, Issue
<1>3. ASSUME NEW w \in Workers, Acts(w)
      PROVE  HostKept \/ IssueCall(w)
  BY <1>3 DEF Acts, ReserveUnder, RecordUnder, FindReferenceUnder, GiveUpUnder,
     Answer
<1>4. Surroundings \/ (\E p, c : StartUnder(p, c)) => HostKept
  BY DEF Surroundings, StartUnder
<1>5. UNCHANGED hostedVars => UNCHANGED <<remote, files, running, inflight>>
  BY DEF hostedVars, hostVars, vars
<1>6. ASSUME NEW w \in Workers, Acts(w)
      PROVE  \/ HostKept
             \/ UNCHANGED <<remote, files, running, inflight>>
             \/ IssueCall(w) /\ worker[w].act \in Mutating
  BY <1>2, <1>3, <1>6
<1>7. \/ HostKept
      \/ UNCHANGED <<remote, files, running, inflight>>
      \/ \E w \in Workers : IssueCall(w) /\ worker[w].act \in Mutating
      \/ \E r \in remote : BeginEffect(r) \/ CompleteEffect(r)
      \/ ~[HostedNext]_hostedVars
  BY <1>4, <1>5, <1>6, HostedCases
<1>8. QED
  BY <1>1, <1>7 DEF HostKept

(* The reference that an explicit rollback works from is one of a contract.*)
LEMMA ReferenceOfRollback ==
    ASSUME ServiceInv, P!ReferenceInv, ColumnsTyped, ReferencesBound,
           SourcesReferenced, NEW w \in Workers, Operates(worker[w])
    PROVE  /\ operations[worker[w].id].source \in Store!DeploymentIds
           /\ references[operations[worker[w].id].source] # "none"
           /\ \E c \in Contracts : ReferenceOf(worker[w]) = ReferenceFor(c)
<1>1. PICK o : o = worker[w].id /\ o \in Store!OperationIds
  BY DEF ServiceInv, RecordOK
<1>2. PICK d : d = operations[o].source /\ d \in Store!DeploymentIds
  BY <1>1, SameSets DEF P!ReferenceInv, P!SourcesExist
<1>3. references[d] # "none" /\ boundTo[d] # NoReference
  BY <1>1, <1>2 DEF SourcesReferenced, ReferencesBound
<1>4. boundTo[d] \in Bindings
  BY <1>2 DEF ColumnsTyped, Store!DeploymentIds
<1>5. QED
  BY <1>1, <1>2, <1>3, <1>4 DEF ReferenceOf, Bindings

(* A request makes the calls of a contract.                                *)
LEMMA CallTyped ==
    ASSUME ServiceInv, P!ReferenceInv, ColumnsTyped, ReferencesBound,
           SourcesReferenced, RollbackActs, NEW w \in Workers,
           worker[w].pc \in {"start", "call"}, worker[w].act \in Mutating
    PROVE  \E c \in Contracts : CallMade(w) = CallUnder(c, worker[w].act)
<1>1. PICK u : u = worker[w] /\ u \in Tasks
  BY DEF ServiceInv
<1>2. u.kind \in {"deployment", "rollback_operation"}
  BY <1>1 DEF Tasks, Idle, RecordKind
<1>3. CASE u.kind = "deployment"
  BY <1>1, <1>3, CallMadeUnder, ConfigTyped DEF ColumnsTyped
<1>4. CASE u.kind = "rollback_operation"
  <2>1. Operates(worker[w]) /\ u.act \in RollbackAct
    BY <1>1, <1>4 DEF Operates, RollbackActs
  <2>2. PICK c \in Contracts : ReferenceOf(u) = ReferenceFor(c)
    BY <1>1, <2>1, ReferenceOfRollback
  <2>3. QED
    BY <1>1, <1>4, <2>1, <2>2, CallMadeUnder
<1>5. QED
  BY <1>2, <1>3, <1>4

(* The types of the files and of the calls are kept.                       *)
LEMMA HostTypedStep ==
    ASSUME ServiceInv, P!ReferenceInv, ColumnsTyped, ReferencesBound,
           SourcesReferenced, RollbackActs, HostTyped, [HostedNext]_hostedVars
    PROVE  HostTyped'
<1>1. CASE /\ remote' \subseteq remote /\ UNCHANGED files
           /\ \A r \in remote' : r.call \in inflight'
  BY <1>1 DEF HostTyped, RemoteTyped
<1>2. ASSUME NEW w \in Workers, NEW b \in Digests \cup {NoBytes},
             IssueCall(w), worker[w].act \in Mutating,
             worker[w].act = "stage" => b \in Digests,
             remote' = remote \cup
                 {[call |-> CallOf(worker[w]), made |-> CallMade(w),
                   bytes |-> b, progress |-> "sent"]},
             inflight' = inflight \cup {CallOf(worker[w])},
             UNCHANGED files
      PROVE  HostTyped'
  <2>1. PICK r : r = [call |-> CallOf(worker[w]), made |-> CallMade(w),
                      bytes |-> b, progress |-> "sent"]
    OBVIOUS
  <2>2. r.call.act = worker[w].act
    BY <2>1 DEF CallOf
  <2>3. b \in Bytes
    BY DEF Bytes, Content
  <2>4. \E c \in Contracts : CallMade(w) = CallUnder(c, worker[w].act)
    BY <1>2, CallTyped DEF IssueCall, StartCall
  <2>5. RemoteTyped(r)
    BY <1>2, <2>1, <2>2, <2>3, <2>4 DEF RemoteTyped
  <2>6. r.call \in inflight' /\ remote' = remote \cup {r}
    BY <1>2, <2>1
  <2>7. QED
    BY <1>2, <2>5, <2>6 DEF HostTyped, RemoteTyped
<1>3. ASSUME NEW r \in remote, BeginEffect(r) \/ CompleteEffect(r)
      PROVE  HostTyped'
  <2>1. RemoteTyped(r) /\ r.call \in inflight
    BY DEF HostTyped
  <2>2. PICK c \in Contracts : r.made = CallUnder(c, r.call.act)
    BY <2>1 DEF RemoteTyped
  <2>3. files' \in [Paths -> Bytes]
    BY <1>3, <2>1, <2>2, EffectsOfCall DEF HostTyped
  <2>4. PICK s \in {"begun", "done"} :
            /\ remote' = (remote \ {r}) \cup {[r EXCEPT !.progress = s]}
            /\ UNCHANGED inflight
    BY <1>3 DEF BeginEffect, CompleteEffect, vars
  <2>5. PICK q : q = [r EXCEPT !.progress = s]
    OBVIOUS
  <2>6. RemoteTyped(q) /\ q.call = r.call
    BY <2>1, <2>5 DEF RemoteTyped
  <2>7. QED
    BY <2>1, <2>3, <2>4, <2>5, <2>6 DEF HostTyped, RemoteTyped
<1>4. QED
  BY <1>1, <1>2, <1>3, RemoteSteps DEF HostTyped
-----------------------------------------------------------------------------
(* Preflight.  What the target grants was compared with what the contract, *)
(* or the snapshot, may come to need.                                      *)

(* What follows a finished attempt, in detail.                             *)
LEMMA AfterAttemptDetail ==
    ASSUME NEW p, NEW u \in Tasks, u.pc = "finish"
    PROVE  LET s == StateDuring[u.act] IN
           \/ /\ u.result = "ok" /\ FollowsWithin(p, u.env, u.act) # "none"
              /\ AfterAttempt(p, u) = Doing("start", u.env, "deployment", u.id,
                                            FollowsWithin(p, u.env, u.act), 1)
           \/ /\ u.result = "ok" /\ FollowsWithin(p, u.env, u.act) = "none"
              /\ AfterAttempt(p, u) = Moving(u.env, u.id, s, StateAfter[s])
           \/ /\ u.result # "ok" /\ u.act \in Verification
              /\ AfterAttempt(p, u) = Doing("start", u.env, "deployment", u.id,
                                            u.act, u.tries + 1)
           \/ AfterAttempt(p, u) = Idle
           \/ /\ u.result # "ok"
              /\ \/ /\ u.act \in Recovering
                    /\ AfterAttempt(p, u) = Moving(u.env, u.id, s, "rollback_failed")
                 \/ /\ u.act \in {"install", "restart", "verify"}
                    /\ u.env \in RollbackConfigured[p]
                    /\ AfterAttempt(p, u) = Moving(u.env, u.id, s, "rolling_back")
                 \/ /\ u.act \notin Recovering
                    /\ \/ u.act \in {"preflight", "precheck", "stage", "backup"}
                       \/ u.env \notin RollbackConfigured[p]
                    /\ AfterAttempt(p, u) = Moving(u.env, u.id, s, "failed")
<1> DEFINE s == StateDuring[u.act]
           next == FollowsWithin(p, u.env, u.act)
<1>1. u \in [pc: {"finish"}, env: Environments, id: Nat, act: Activity,
             tries: Nat, result: {"ok", "failed", "timeout"}]
  BY DEF Tasks, Idle
<1>2. CASE u.result = "ok" /\ next # "none"
  BY <1>2 DEF AfterAttempt, RetriesVerification
<1>3. CASE u.result = "ok" /\ next = "none"
  BY <1>3 DEF AfterAttempt, RetriesVerification
<1>4. CASE RetriesVerification(u, u.result)
  BY <1>4 DEF AfterAttempt, RetriesVerification
<1>5. CASE /\ u.result # "ok" /\ ~RetriesVerification(u, u.result)
           /\ u.result = "timeout" /\ s \in HasLiveMutationStarted
  BY <1>5 DEF AfterAttempt, RetriesVerification
<1>6. CASE /\ u.result # "ok" /\ ~RetriesVerification(u, u.result)
           /\ ~(u.result = "timeout" /\ s \in HasLiveMutationStarted)
  <2> DEFINE tried == RequiresRollbackAfterFailure(StepOf[u.act],
                                                   u.env \in RollbackConfigured[p])
             g == CASE u.act \in Recovering -> "rollback_failed"
                    [] u.act \notin Recovering /\ tried -> "rolling_back"
                    [] OTHER -> "failed"
  <2>1. AfterAttempt(p, u) = Moving(u.env, u.id, s, g)
    BY <1>6 DEF AfterAttempt, RetriesVerification
  <2>2. CASE u.act \in Recovering
    BY <1>6, <2>1, <2>2
  <2>3. CASE u.act \notin Recovering /\ tried
    <3>1. LifecycleOrder[StepOf[u.act]] >= FirstLiveMutation
      BY <2>3 DEF RequiresRollbackAfterFailure
    <3>2. u.act \in {"preflight", "precheck", "stage", "backup", "install",
                     "restart", "verify"}
      BY <1>1, <2>3 DEF Activity, Recovering
    <3>3. u.act \in {"install", "restart", "verify"}
      BY <3>1, <3>2 DEF StepOf, LifecycleOrder, FirstLiveMutation, Step
    <3>4. QED
      BY <1>6, <2>1, <2>3, <3>3 DEF RequiresRollbackAfterFailure
  <2>4. CASE u.act \notin Recovering /\ ~tried
    <3>1. \/ u.act \in {"preflight", "precheck", "stage", "backup"}
          \/ u.env \notin RollbackConfigured[p]
      <4>1. SUFFICES ASSUME u.act \in {"install", "restart", "verify"},
                            u.env \in RollbackConfigured[p]
                     PROVE  FALSE
        BY <1>1, <2>4 DEF Activity, Recovering
      <4>2. LifecycleOrder[StepOf[u.act]] >= FirstLiveMutation
        BY <4>1 DEF StepOf, LifecycleOrder, FirstLiveMutation, Step
      <4>3. QED
        BY <2>4, <4>1, <4>2 DEF RequiresRollbackAfterFailure
    <3>2. QED
      BY <1>6, <2>1, <2>4, <3>1
  <2>5. QED
    BY <2>2, <2>3, <2>4
<1>7. QED
  BY <1>1, <1>2, <1>3, <1>4, <1>5, <1>6

(* What an explicit rollback works from stays the same.                    *)
LEMMA ReferenceOfKept ==
    ASSUME ServiceInv, P!ReferenceInv, ColumnsTyped, HostTyped, Served,
           ReferencesBound, SourcesReferenced, [HostedNext]_hostedVars,
           NEW w \in Workers, NEW o, o = worker[w].id, Operates(worker[w])
    PROVE  /\ operations'[o].source = operations[o].source
           /\ boundTo'[operations[o].source] = boundTo[operations[o].source]
<1>1. o \in Store!OperationIds /\ [Next]_vars
  BY HostedStepImplements DEF ServiceInv, RecordOK
<1>2. operations'[o].source = operations[o].source
  BY <1>1, RecordsStay DEF P!RecordsKept, P!OperationIds, Store!OperationIds
<1>3. PICK d : d = operations[o].source /\ d \in Store!DeploymentIds
               /\ references[d] # "none"
  BY ReferenceOfRollback
<1>4. boundTo'[d] = boundTo[d]
  BY <1>3, ColumnsKept DEF HostTyped
<1>5. QED
  BY <1>2, <1>3, <1>4

(* The request is past its preflight. *)
Cleared(t) ==
    \/ t.pc \in {"start", "call"} /\ t.act # "preflight"
    \/ t.pc = "finish" /\ (t.act # "preflight" \/ t.result = "ok")
    \/ t.pc = "transition" /\ t.goal \notin {"prechecking", "failed"}

(* The target grants all that the request t of w may still need.           *)
Capable(w, t) ==
    Cleared(t) =>
        /\ Drives(t) => RequiredTasks(ConfigOf(w)) \subseteq granted
        /\ Operates(t) => RollbackPreflightPasses(ReferenceOf(t), granted)

CapableInv == \A w \in Workers : Capable(w, worker[w])

(* A request past its preflight came past it, or just passed it.           *)
LEMMA ClearedBefore ==
    ASSUME ServiceInv, RollbackActs, [HostedNext]_hostedVars,
           NEW w \in Workers, NEW u, u = worker[w], NEW t, t = worker'[w],
           Cleared(t)
    PROVE  /\ Drives(t) \/ Operates(t)
           /\ Drives(t) => Drives(u)
           /\ Operates(t) => Operates(u) /\ t.id = u.id
           /\ \/ Cleared(u)
              \/ u.pc = "call" /\ u.act = "preflight" /\ Answer(w, "ok")
<1>1. HostMoves(w, u, t) /\ u \in Tasks /\ t \in Tasks
  BY HostGoes, HostedStepImplements, WorkersStep DEF ServiceInv
<1>2. /\ t.pc \in {"start", "call", "finish", "transition"}
      /\ t.pc \in {"start", "call"} => t.kind \in RecordKind
      /\ u.pc \in {"start", "call"} => u.kind \in RecordKind
  BY <1>1, TaskFields DEF Cleared
<1>3. t # Idle /\ ~Quiet(t) /\ (Drives(t) \/ Operates(t))
  BY <1>2 DEF Idle, Quiet, Drives, Operates, RecordKind
<1>4. CASE t = u
  BY <1>3, <1>4
<1>5. ASSUME NEW e, NEW d, t = Moving(e, d, "created", "prechecking")
      PROVE  FALSE
  BY <1>5 DEF Moving, Cleared
<1>6. CASE Advance(w) /\ u.pc = "transition" /\ t = AfterTransition(Home[w], u)
  <2>1. <<u.mem, u.goal>> \in CanTransition
    BY <1>6, AdvancedRow
  <2>2. u.goal \notin Terminal /\ u.goal # "failed"
    BY <1>3, <1>6 DEF AfterTransition, Returned, Recording, Quiet, Terminal
  <2>3. t = Doing("start", u.env, "deployment", u.id, FirstActivity[u.goal], 1)
    BY <1>6, <2>2 DEF AfterTransition
  <2>4. t.pc = "start" /\ t.kind = "deployment" /\ t.act = FirstActivity[u.goal]
    BY <2>3 DEF Doing
  <2>5. u.goal # "prechecking"
    BY <2>4 DEF Cleared, FirstActivity
  <2>6. QED
    BY <1>6, <2>2, <2>4, <2>5 DEF Cleared, Drives, Operates
<1>7. CASE u.pc = "start" /\ t = [u EXCEPT !.pc = "call"]
  <2>1. u \in [pc: {"start", "call"}, env: Environments, kind: RecordKind,
               id: Nat, act: Activity, tries: Nat]
    BY <1>1, <1>7 DEF Tasks, Idle
  <2>2. t.pc = "call" /\ t.kind = u.kind /\ t.act = u.act /\ t.id = u.id
    BY <1>7, <2>1
  <2>3. QED
    BY <1>3, <1>7, <2>2 DEF Cleared, Drives, Operates
<1>8. ASSUME u.pc = "call", u.kind = "deployment", NEW r, t = Finishing(u, r)
      PROVE  /\ Drives(t) /\ Drives(u) /\ ~Operates(t)
             /\ Cleared(u) \/ (r = "ok" /\ u.act = "preflight")
  <2>1. t.pc = "finish" /\ t.act = u.act /\ t.result = r
    BY <1>8 DEF Finishing
  <2>2. Drives(t) /\ Drives(u) /\ ~Operates(t)
    BY <1>8, <2>1 DEF Drives, Operates
  <2>3. Cleared(u) \/ (r = "ok" /\ u.act = "preflight")
    BY <1>8, <2>1 DEF Cleared
  <2>4. QED
    BY <2>2, <2>3
<1>9. ASSUME u.pc = "call", NEW result \in {"ok", "failed"},
             Answer(w, result), t = AfterReply(u, result)
      PROVE  /\ Drives(t) => Drives(u)
             /\ Operates(t) => Operates(u) /\ t.id = u.id
             /\ Cleared(u) \/ (u.act = "preflight" /\ Answer(w, "ok"))
  <2>1. CASE u.kind = "deployment"
    <3>1. t = Finishing(u, result)
      BY <1>9, <2>1 DEF AfterReply
    <3>2. /\ Drives(t) /\ Drives(u) /\ ~Operates(t)
          /\ Cleared(u) \/ (result = "ok" /\ u.act = "preflight")
      BY <1>8, <1>9, <2>1, <3>1
    <3>3. QED
      BY <1>9, <3>2
  <2>2. CASE u.kind = "rollback_operation"
    <3>1. PICK a, n : /\ t = Doing("start", u.env, u.kind, u.id, a, n)
                      /\ result = "ok" \/ u.act \in Verification
      BY <1>1, <1>2, <1>9, <2>2, AfterRollbackReply DEF Settling
    <3>2. Operates(t) /\ ~Drives(t) /\ t.id = u.id
      BY <2>2, <3>1 DEF Doing, Operates, Drives
    <3>3. Operates(u)
      BY <1>9, <2>2 DEF Operates
    <3>4. Cleared(u) \/ (u.act = "preflight" /\ result = "ok")
      BY <1>9, <3>1 DEF Cleared, Verification
    <3>5. QED
      BY <1>9, <3>2, <3>3, <3>4
  <2>3. QED
    BY <1>2, <1>9, <2>1, <2>2 DEF RecordKind
<1>10. CASE u.pc = "finish" /\ t = AfterAttempt(Home[w], u)
  <2>1. \/ u.result = "ok"
        \/ u.act \in Verification \/ u.act \in Recovering
        \/ u.act \in {"install", "restart", "verify"}
    BY <1>1, <1>3, <1>10, AfterAttemptDetail DEF Moving, Cleared
  <2>2. Drives(t) /\ ~Operates(t)
    <3>1. \A e, d, a, n : /\ Drives(Doing("start", e, "deployment", d, a, n))
                          /\ ~Operates(Doing("start", e, "deployment", d, a, n))
      BY DEF Doing, Drives, Operates
    <3>2. \A e, d, m, g : Drives(Moving(e, d, m, g)) /\ ~Operates(Moving(e, d, m, g))
      BY DEF Moving, Drives, Operates
    <3>3. QED
      BY <1>1, <1>3, <1>10, <3>1, <3>2, AfterAttemptDetail
  <2>3. QED
    BY <1>10, <2>1, <2>2 DEF Cleared, Drives, Verification, Recovering
<1>11. ASSUME NEW e, NEW d,
              t = Doing("start", e, "rollback_operation", d, "preflight", 1)
       PROVE  FALSE
  BY <1>11 DEF Doing, Cleared
<1>12. QED
  BY <1>1, <1>3, <1>4, <1>5, <1>6, <1>7, <1>8, <1>9, <1>10, <1>11 DEF HostMoves

(* What was granted at the preflight covers what may still be needed.      *)
LEMMA CapableStep ==
    ASSUME ServiceInv, P!ReferenceInv, ColumnsTyped, HostTyped, Served,
           ReferencesBound, SourcesReferenced, RollbackActs, CapableInv,
           [HostedNext]_hostedVars
    PROVE  CapableInv'
<1>1. ASSUME NEW w \in Workers, Cleared(worker'[w])
      PROVE  /\ Drives(worker'[w]) => RequiredTasks(ConfigOf(w)') \subseteq granted'
             /\ Operates(worker'[w]) =>
                    RollbackPreflightPasses(
                        boundTo'[operations'[worker'[w].id].source], granted')
  <2>1. PICK u, t : u = worker[w] /\ t = worker'[w]
    OBVIOUS
  <2>2. /\ Drives(t) \/ Operates(t)
        /\ Drives(t) => Drives(u)
        /\ Operates(t) => Operates(u) /\ t.id = u.id
        /\ \/ Cleared(u)
           \/ u.pc = "call" /\ u.act = "preflight" /\ Answer(w, "ok")
    BY <1>1, <2>1, ClearedBefore
  <2>3. t # Idle
    BY <2>2 DEF Idle, Drives, Operates
  <2>4. ConfigOf(w)' = ConfigOf(w) /\ granted' = granted
    BY <2>1, <2>3, ConfigKept DEF ColumnsTyped
  <2>5. Operates(t) => boundTo'[operations'[t.id].source] = ReferenceOf(u)
    BY <2>1, <2>2, ReferenceOfKept DEF ReferenceOf
  <2>6. /\ Drives(u) => RequiredTasks(ConfigOf(w)) \subseteq granted
        /\ Operates(u) => RollbackPreflightPasses(ReferenceOf(u), granted)
    <3>1. CASE Cleared(u)
      BY <2>1, <3>1 DEF CapableInv, Capable
    <3>2. CASE u.pc = "call" /\ u.act = "preflight" /\ Answer(w, "ok")
      <4>1. Achieved(w)
        BY <3>2 DEF Answer
      <4>2. u.kind = "deployment" => PreflightPasses(ConfigOf(w), granted)
        BY <2>1, <3>2, <4>1 DEF Achieved, Mutating
      <4>3. u.kind = "rollback_operation"
                => RollbackPreflightPasses(ReferenceOf(u), granted)
        BY <2>1, <3>2, <4>1 DEF Achieved, Mutating
      <4>4. QED
        BY <3>2, <4>2, <4>3 DEF PreflightPasses, Drives, Operates
    <3>3. QED
      BY <2>2, <3>1, <3>2
  <2>7. QED
    BY <2>1, <2>2, <2>4, <2>5, <2>6
<1>2. QED
  BY <1>1 DEF CapableInv, Capable, ReferenceOf
-----------------------------------------------------------------------------
(* A request moves its deployment on from a state that is not decided.     *)
MovesOn ==
    \A w \in Workers :
        worker[w].pc = "transition" => worker[w].mem \in NonTerminal

(* It goes on doing so.                                                    *)
LEMMA MovesOnStep ==
    ASSUME ServiceInv, MovesOn, [HostedNext]_hostedVars PROVE MovesOn'
<1>1. ASSUME NEW w \in Workers, NEW t, t = worker'[w], t.pc = "transition"
      PROVE  t.mem \in NonTerminal
  <2>1. PICK u : u = worker[w] /\ u \in Tasks
    BY DEF ServiceInv
  <2>2. HostMoves(w, u, t)
    BY <1>1, <2>1, HostGoes
  <2>3. CASE t = u
    BY <1>1, <2>1, <2>3 DEF MovesOn
  <2>4. ASSUME NEW e, NEW d, t = Moving(e, d, "created", "prechecking")
        PROVE  t.mem \in NonTerminal
    BY <2>4 DEF Moving, NonTerminal, DeploymentState, Terminal
  <2>5. ~Quiet(t)
    BY <1>1 DEF Quiet
  <2>6. ASSUME u.pc = "transition", t = AfterTransition(Home[w], u) PROVE FALSE
    BY <1>1, <2>6 DEF AfterTransition, Returned, Recording, Idle, Doing
  <2>7. ASSUME u.pc \in {"start", "call"}, t = [u EXCEPT !.pc = "call"] PROVE FALSE
    <3>1. u \in [pc: {"start", "call"}, env: Environments, kind: RecordKind,
                 id: Nat, act: Activity, tries: Nat]
      BY <2>1, <2>7 DEF Tasks, Idle
    <3>2. QED
      BY <1>1, <2>7, <3>1
  <2>8. ASSUME u.pc = "call", NEW result \in {"ok", "failed"},
               t = AfterReply(u, result)
        PROVE  FALSE
    BY <1>1, <2>1, <2>8, AfterReplyCases DEF Finishing, Doing, Settling
  <2>9. ASSUME NEW r, t = Finishing(u, r) PROVE FALSE
    BY <1>1, <2>9 DEF Finishing
  <2>10. ASSUME u.pc = "finish", t = AfterAttempt(Home[w], u) PROVE t.mem \in NonTerminal
    <3>1. u.act \in Activity
      BY <2>1, <2>10, TaskFields
    <3>2. StateDuring[u.act] \in NonTerminal
      BY <3>1, Tables
    <3>3. \A e, d, m, g : Moving(e, d, m, g).mem = m
      BY DEF Moving
    <3>4. \A e, d, a, n : Doing("start", e, "deployment", d, a, n).pc = "start"
      BY DEF Doing
    <3>5. t # Idle
      BY <1>1 DEF Idle
    <3>6. QED
      BY <1>1, <2>1, <2>10, <3>2, <3>3, <3>4, <3>5, AfterAttemptCases
  <2>11. ASSUME NEW e, NEW d, NEW k, NEW a, NEW n, t = Doing("start", e, k, d, a, n)
         PROVE  FALSE
    BY <1>1, <2>11 DEF Doing
  <2>12. QED
    BY <2>2, <2>3, <2>4, <2>5, <2>6, <2>7, <2>8, <2>9, <2>10, <2>11 DEF HostMoves
<1>2. QED
  BY <1>1 DEF MovesOn

(* The request t of w is at an optional task of a deployment, or about to  *)
(* be, only if the process has that task.                                  *)
AsksOptional(w, t) ==
    /\ Drives(t) /\ t.pc \in {"start", "call", "finish"} =>
           /\ t.act \in Recovering => t.env \in RollbackConfigured[Home[w]]
           /\ t.act = "precheck" => t.env \in PrecheckConfigured[Home[w]]
    /\ t.pc = "transition" /\ t.goal = "rolling_back" =>
           t.env \in RollbackConfigured[Home[w]]

OptionalInv == \A w \in Workers : AsksOptional(w, worker[w])

(* It goes on being so.                                                    *)
LEMMA OptionalStep ==
    ASSUME ServiceInv, OptionalInv, [HostedNext]_hostedVars PROVE OptionalInv'
<1>1. ASSUME NEW w \in Workers, NEW t, t = worker'[w] PROVE AsksOptional(w, t)
  <2>1. PICK u : u = worker[w] /\ u \in Tasks /\ AsksOptional(w, u)
    BY DEF ServiceInv, OptionalInv
  <2>2. HostMoves(w, u, t)
    BY <1>1, <2>1, HostGoes
  <2>3. ASSUME NEW e, NEW d, t = Moving(e, d, "created", "prechecking")
        PROVE  AsksOptional(w, t)
    BY <2>3 DEF Moving, AsksOptional
  <2>4. ASSUME Quiet(t) PROVE AsksOptional(w, t)
    BY <2>4 DEF Quiet, AsksOptional
  <2>5. ASSUME Advance(w), u.pc = "transition", t = AfterTransition(Home[w], u)
        PROVE  AsksOptional(w, t)
    <3>1. CASE u.goal \in Terminal
      BY <2>5, <3>1 DEF AfterTransition, Returned, Recording, Idle, AsksOptional
    <3>2. CASE u.goal \notin Terminal
      <4>1. <<u.mem, u.goal>> \in CanTransition
        BY <2>1, <2>5, AdvancedRow
      <4>2. u.goal \in NonTerminal \ {"created"}
        BY <2>1, <2>5, <3>2, <4>1, AfterTransitionCases
      <4>3. t = Doing("start", u.env, "deployment", u.id, FirstActivity[u.goal], 1)
        BY <2>5, <3>2 DEF AfterTransition
      <4>4. t.pc = "start" /\ t.env = u.env /\ t.act = FirstActivity[u.goal]
        BY <4>3 DEF Doing
      <4>5. t.act # "precheck" /\ (t.act \in Recovering => u.goal = "rolling_back")
        BY <4>2, <4>4 DEF FirstActivity, Recovering, NonTerminal,
           DeploymentState, Terminal
      <4>6. QED
        BY <2>1, <2>5, <4>4, <4>5 DEF AsksOptional
    <3>3. QED
      BY <3>1, <3>2
  <2>6. ASSUME u.pc = "start", t = [u EXCEPT !.pc = "call"]
        PROVE  AsksOptional(w, t)
    <3>1. u \in [pc: {"start", "call"}, env: Environments, kind: RecordKind,
                 id: Nat, act: Activity, tries: Nat]
      BY <2>1, <2>6 DEF Tasks, Idle
    <3>2. t.pc = "call" /\ t.kind = u.kind /\ t.act = u.act /\ t.env = u.env
      BY <2>6, <3>1
    <3>3. QED
      BY <2>1, <2>6, <3>2 DEF AsksOptional, Drives
  <2>7. ASSUME u.pc = "call", u.kind = "deployment", NEW r, t = Finishing(u, r)
        PROVE  AsksOptional(w, t)
    <3>1. t.pc = "finish" /\ t.act = u.act /\ t.env = u.env
      BY <2>7 DEF Finishing
    <3>2. QED
      BY <2>1, <2>7, <3>1 DEF AsksOptional, Drives
  <2>8. ASSUME NEW e, NEW d, NEW a, NEW n,
               t = Doing("start", e, "rollback_operation", d, a, n)
        PROVE  AsksOptional(w, t)
    BY <2>8 DEF Doing, AsksOptional, Drives
  <2>9. ASSUME u.pc = "call", NEW result \in {"ok", "failed"},
               t = AfterReply(u, result)
        PROVE  AsksOptional(w, t)
    <3>1. ASSUME NEW e, NEW d, NEW x, t = Settling(e, d, x)
          PROVE  AsksOptional(w, t)
      BY <3>1 DEF Settling, AsksOptional
    <3>2. QED
      BY <2>1, <2>7, <2>8, <2>9, <3>1, AfterReplyCases
  <2>10. ASSUME u.pc = "finish", t = AfterAttempt(Home[w], u)
         PROVE  AsksOptional(w, t)
    <3>1. /\ u.act \in Recovering => u.env \in RollbackConfigured[Home[w]]
          /\ u.act = "precheck" => u.env \in PrecheckConfigured[Home[w]]
      BY <2>1, <2>10 DEF AsksOptional, Drives
    <3>2. \A a, n :
              /\ Doing("start", u.env, "deployment", u.id, a, n).pc = "start"
              /\ Doing("start", u.env, "deployment", u.id, a, n).act = a
              /\ Doing("start", u.env, "deployment", u.id, a, n).env = u.env
      BY DEF Doing
    <3>3. ASSUME NEW a, NEW n, t = Doing("start", u.env, "deployment", u.id, a, n),
                 a = u.act \/ (a = FollowsWithin(Home[w], u.env, u.act) /\ a # "none")
          PROVE  AsksOptional(w, t)
      <4>1. t.pc = "start" /\ t.act = a /\ t.env = u.env
        BY <3>2, <3>3
      <4>2. /\ a \in Recovering => u.env \in RollbackConfigured[Home[w]]
            /\ a = "precheck" => u.env \in PrecheckConfigured[Home[w]]
        BY <3>1, <3>3 DEF FollowsWithin, Recovering
      <4>3. QED
        BY <4>1, <4>2 DEF AsksOptional
    <3>4. ASSUME NEW s, NEW g, t = Moving(u.env, u.id, s, g),
                 g = "rolling_back" => u.env \in RollbackConfigured[Home[w]]
          PROVE  AsksOptional(w, t)
      BY <3>4 DEF Moving, AsksOptional
    <3>5. t = Idle => AsksOptional(w, t)
      BY DEF Idle, AsksOptional
    <3>6. u.act \in Activity => StateAfter[StateDuring[u.act]] # "rolling_back"
                                 \/ u.act \in Recovering
      BY DEF Activity, StateDuring, StateAfter, Recovering
    <3>7. u.act \in Activity
      BY <2>1, <2>10, TaskFields
    <3>8. QED
      BY <2>1, <2>10, <3>1, <3>3, <3>4, <3>5, <3>6, <3>7, AfterAttemptDetail
  <2>11. QED
    BY <2>1, <2>2, <2>3, <2>4, <2>5, <2>6, <2>7, <2>8, <2>9, <2>10 DEF HostMoves
<1>2. QED
  BY <1>1 DEF OptionalInv

(* What holds with any number of processes. *)

HostedInv ==
    /\ ColumnsTyped
    /\ HostTyped
    /\ ReferencesBound
    /\ SourcesReferenced
    /\ RollbackActs
    /\ MovesOn
    /\ ConfigSupplied
    /\ OptionalInv
    /\ CapableInv

(* It holds at first.                                                      *)
LEMMA HostedInvInit == HostedInit => HostedInv
<1> SUFFICES ASSUME HostedInit PROVE HostedInv
  OBVIOUS
<1>1. /\ deployments = <<>> /\ operations = <<>>
      /\ worker = [w \in Workers |-> Idle]
  BY DEF HostedInit, Init, Store!Init
<1>2. Store!DeploymentIds = {} /\ Store!OperationIds = {}
  BY <1>1 DEF Store!DeploymentIds, Store!OperationIds
<1>3. ColumnsTyped
  BY <1>1 DEF HostedInit, ColumnsTyped
<1>4. HostTyped
  BY DEF HostedInit, HostTyped, Bytes, Content
<1>5. ReferencesBound /\ SourcesReferenced
  BY <1>2 DEF ReferencesBound, SourcesReferenced
<1>6. \A w \in Workers : worker[w].pc = "idle"
  BY <1>1 DEF Idle
<1>7. RollbackActs /\ MovesOn /\ OptionalInv /\ CapableInv
  BY <1>6 DEF RollbackActs, MovesOn, OptionalInv, AsksOptional, CapableInv,
     Capable, Cleared
<1>8. ConfigSupplied
  BY DEF HostedInit, ConfigSupplied
<1>9. QED
  BY <1>3, <1>4, <1>5, <1>7, <1>8 DEF HostedInv

(* It holds after every step.                                              *)
LEMMA HostedInvStep ==
    ASSUME ServiceInv, P!ReferenceInv, Served, HostedInv, [HostedNext]_hostedVars
    PROVE  HostedInv'
<1>1. ColumnsTyped' /\ ReferencesBound' /\ SourcesReferenced'
  BY ColumnsKept, BoundStep DEF HostedInv, HostTyped
<1>2. HostTyped' /\ RollbackActs' /\ MovesOn'
  BY HostTypedStep, RollbackActsStep, MovesOnStep DEF HostedInv
<1>3. ConfigSupplied' /\ OptionalInv'
  BY SuppliedStep, OptionalStep DEF HostedInv, ColumnsTyped
<1>4. CapableInv'
  BY CapableStep DEF HostedInv
<1>5. QED
  BY <1>1, <1>2, <1>3, <1>4 DEF HostedInv

(* What the proofs about one step may use of the services.                 *)
LEMMA HostedServices ==
    HostedSpec => [](ServiceInv /\ StoreInv /\ P!ReferenceInv /\ Served)
<1>1. Spec => [](ServiceInv /\ StoreInv /\ P!ReferenceInv /\ Served)
  BY ServiceCorrect, StoreOfService, ReferencesOfService, ServedCorrect, PTL
<1>2. QED
  BY <1>1, HostedImplements, PTL

(* It holds always.                                                        *)
LEMMA HostedInvCorrect == HostedSpec => []HostedInv
<1>1. ServiceInv /\ P!ReferenceInv /\ Served /\ HostedInv
          /\ [HostedNext]_hostedVars => HostedInv'
  BY HostedInvStep
<1>2. QED
  BY <1>1, HostedInvInit, HostedServices, PTL DEF HostedSpec

(* Every task that a contract configures is one the preflight asks for.    *)
LEMMA TasksRequired ==
    ASSUME NEW c \in Contracts
    PROVE  /\ {c.tasks.backup, c.tasks.install, c.tasks.restart,
               c.tasks.health_check} \subseteq RequiredTasks(c)
           /\ \A t \in {c.tasks.precheck, c.tasks.rollback} :
                  t # NotConfigured => t \in RequiredTasks(c)
<1>1. /\ DOMAIN c.tasks = {"precheck", "backup", "install", "restart",
                           "health_check", "rollback"}
      /\ \A t \in DOMAIN c.tasks \ {"precheck", "rollback"} :
             c.tasks[t] # NotConfigured
  BY ContractsValid DEF ValidEnvironment
<1>2. \A t \in DOMAIN c.tasks :
          c.tasks[t] # NotConfigured => c.tasks[t] \in RequiredTasks(c)
  BY <1>1 DEF RequiredTasks
<1>3. QED
  BY <1>1, <1>2

(* A call that is made needs a task that was granted.                      *)
LEMMA CallsCapable ==
    ASSUME ServiceInv, P!ReferenceInv, HostedInv PROVE CapabilitiesHeld
<1>1. ASSUME NEW w \in Workers, worker[w].pc = "call",
             worker[w].act # "preflight"
      PROVE  Permitted(CallMade(w).task)
  <2>1. PICK u : u = worker[w]
    OBVIOUS
  <2>2. u.pc = "call" /\ u.kind \in RecordKind /\ u.act \in Activity
        /\ u.act # "preflight"
    BY <1>1, <2>1, TaskFields DEF ServiceInv
  <2>3. Cleared(u) /\ Capable(w, u)
    BY <2>1, <2>2 DEF Cleared, HostedInv, CapableInv
  <2>4. \A x, y, z : TaskCall(x, y, z).task = x
    BY DEF TaskCall
  <2>5. CASE u.kind = "deployment"
    <3>1. PICK c \in Contracts : c = ConfigOf(w)
      BY ConfigTyped DEF HostedInv, ColumnsTyped
    <3>2. /\ RequiredTasks(c) \subseteq granted
          /\ u.act \in Recovering => c.tasks.rollback # NotConfigured
          /\ u.act = "precheck" => c.tasks.precheck # NotConfigured
      <4>1. Drives(u) /\ u.env \in Environments /\ AsksOptional(w, u)
        BY <2>1, <2>2, <2>5, TaskFields
        DEF Drives, HostedInv, OptionalInv, ServiceInv
      <4>2. ConfigSupplied
        BY DEF HostedInv
      <4>3. QED
        BY <2>2, <2>3, <3>1, <4>1, <4>2, SuppliedTasks DEF Capable, AsksOptional
    <3>3. CASE u.act \in Mutating
      <4>1. CallMade(w) = CallUnder(c, u.act)
        BY <2>1, <2>5, <3>1, <3>3, CallMadeUnder
      <4>2. \/ CallMade(w).task \in {"upload", c.tasks.backup, c.tasks.install,
                                     c.tasks.restart}
            \/ CallMade(w).task = c.tasks.rollback /\ u.act \in Recovering
        BY <2>4, <3>3, <4>1 DEF CallUnder, Upload, CurrentRollbackCall,
           LifecycleCall, Recovering, Mutating
      <4>3. QED
        BY <3>2, <4>2, TasksRequired DEF Permitted
    <3>4. CASE u.act = "reverify"
      <4>1. CallMade(w) = CurrentRollbackCall(c, "reverify")
        BY <2>1, <2>5, <3>1, <3>4 DEF CallMade, Recovering
      <4>2. CallMade(w).task = c.tasks.health_check
        BY <2>4, <4>1 DEF CurrentRollbackCall
      <4>3. QED
        BY <3>2, <4>2, TasksRequired DEF Permitted
    <3>5. CASE u.act \in {"precheck", "verify"}
      <4>1. CallMade(w) = LifecycleCall(c, u.act)
        BY <2>1, <2>5, <3>1, <3>5 DEF CallMade, Recovering
      <4>2. \/ CallMade(w).task = c.tasks.precheck /\ u.act = "precheck"
            \/ CallMade(w).task = c.tasks.health_check
        BY <2>4, <3>5, <4>1 DEF LifecycleCall
      <4>3. QED
        BY <3>2, <4>2, TasksRequired DEF Permitted
    <3>6. QED
      BY <2>2, <3>3, <3>4, <3>5 DEF Activity, Mutating
  <2>6. CASE u.kind = "rollback_operation"
    <3>1. u.act \in {"restore", "reactivate", "reverify"}
      BY <2>1, <2>2, <2>6 DEF HostedInv, RollbackActs, RollbackAct
    <3>2. PICK s : s = ReferenceOf(u).snapshot
      OBVIOUS
    <3>3. {s.rollback_task, s.restart_task, s.health_check_task} \subseteq granted
      BY <2>2, <2>3, <2>6, <3>2 DEF Capable, Operates, RollbackPreflightPasses
    <3>4. CallMade(w) = RollbackCall(ReferenceOf(u), u.act)
      BY <2>1, <2>6 DEF CallMade
    <3>5. CallMade(w).task \in {s.rollback_task, s.restart_task,
                                s.health_check_task}
      BY <2>4, <3>1, <3>2, <3>4 DEF RollbackCall
    <3>6. QED
      BY <3>3, <3>5 DEF Permitted
  <2>7. QED
    BY <2>1, <2>2, <2>5, <2>6 DEF RecordKind
<1>2. QED
  BY <1>1 DEF CapabilitiesHeld

(* Past its preflight no request makes a call whose task the target does   *)
(* not grant, the calls of a rollback that became necessary included: in   *)
(* any number of processes, whatever configuration each was started with,  *)
(* and for an explicit rollback whatever snapshot it works from.           *)
THEOREM CapabilitiesHeldCorrect == HostedSpec => []CapabilitiesHeld
<1>1. ServiceInv /\ P!ReferenceInv /\ HostedInv => CapabilitiesHeld
  BY CallsCapable
<1>2. QED
  BY <1>1, HostedServices, HostedInvCorrect, PTL
-----------------------------------------------------------------------------
(* With one process at a time, everything that is under way is about the   *)
(* latest deployment.                                                      *)

(* The deployment that a record is or rolls back. *)
Subject(kind, id) == IF kind = "deployment" THEN id ELSE operations[id].source

(* What the proofs below may use of the services and their hosts. *)
Settled ==
    /\ StoreInv
    /\ P!ReferenceInv /\ P!ConsumedByOneRollback /\ P!HolderLatest
    /\ RunningInv /\ OnRecords /\ CallsInv
    /\ HostedInv

(* It holds always.                                                        *)
LEMMA SettledCorrect == ASSUME SingleInstance PROVE HostedSpec => []Settled
<1>1. Spec => []P!HolderLatest
  <2>1. Store!Spec => []P!HolderLatest
    BY P!HolderLatestCorrect, SameSpec
  <2>2. QED
    BY <2>1, StoreUsed, PTL DEF UsesStore
<1>2. ~TransportLoss
  BY HostAssumption
<1>3. Spec => [](StoreInv /\ P!ReferenceInv /\ P!ConsumedByOneRollback
                 /\ P!HolderLatest /\ RunningInv /\ OnRecords /\ CallsInv)
  BY <1>1, <1>2, StoreOfService, ReferencesOfService, RunningCorrect,
     OnRecordsCorrect, CallsCorrect, PTL
<1>4. QED
  BY <1>3, HostedImplements, HostedInvCorrect, PTL DEF Settled

(* One environment has one latest deployment.                              *)
LEMMA LastIsLatest ==
    ASSUME ServiceInv, NEW d \in Store!DeploymentIds
    PROVE  /\ P!IsLatest(d) <=> d = Len(deployments)
           /\ Newest(d) <=> d = Len(deployments)
           /\ Len(deployments) \in Store!DeploymentIds
           /\ deployments[d].env \in Environments
<1>1. PICK n : n = Len(deployments) /\ n \in Nat
  BY DEF ServiceInv, Store!TypeOK
<1>2. Store!DeploymentIds = 1 .. n /\ P!DeploymentIds = 1 .. n /\ n \in 1 .. n
  BY <1>1 DEF Store!DeploymentIds, P!DeploymentIds
<1>3. \A c \in 1 .. n : deployments[c].env \in Environments
  BY <1>1, <1>2, SameInvariants, P!Rows DEF ServiceInv
<1>4. \A c, e \in 1 .. n : deployments[c].env = deployments[e].env
  BY <1>3, TargetAssumption
<1>5. QED
  BY <1>1, <1>2, <1>3, <1>4 DEF P!IsLatest, Newest

(* The rows that are not decided are about the latest deployment.          *)
LEMMA OpenIsLast ==
    ASSUME Settled
    PROVE  LET n == Len(deployments) IN
           /\ \A d \in Store!DeploymentIds :
                  deployments[d].state \in NonTerminal => d = n
           /\ \A o \in Store!OperationIds : operations[o].state = "started" =>
                  operations[o].source = n /\ references[n] = "active"
           /\ \A i \in incidents : i.status = "unresolved" =>
                  /\ i.kind = "deployment" => i.subject = n
                  /\ i.kind = "rollback_operation" =>
                         /\ i.subject \in Store!OperationIds
                         /\ operations[i.subject].source = n
                         /\ references[n] = "active"
           /\ \A o \in Store!OperationIds :
                  /\ operations[o].source \in Store!DeploymentIds
                  /\ deployments[operations[o].source].state \in RollbackEligible
<1>1. ServiceInv /\ P!HolderLatest /\ P!ReferenceInv
  BY DEF Settled, RunningInv
<1>2. \A d \in Store!DeploymentIds : P!IsLatest(d) <=> d = Len(deployments)
  BY <1>1, LastIsLatest
<1>3. ASSUME NEW d \in Store!DeploymentIds, deployments[d].state \in NonTerminal
      PROVE  d = Len(deployments)
  BY <1>1, <1>2, <1>3, SameSets
  DEF P!HolderLatest, NonTerminal, Store!NonTerminal, DeploymentState, Terminal,
      P!NonTerminal, P!DeploymentState, P!Terminal
<1>4. ASSUME NEW o \in Store!OperationIds, operations[o].state = "started"
      PROVE  operations[o].source = Len(deployments)
             /\ references[Len(deployments)] = "active"
  <2>1. o \in P!OperationIds
    BY SameSets
  <2>2. P!EligibleSource(operations[o].source)
        /\ references[operations[o].source] = "active"
    BY <1>1, <1>4, <2>1 DEF P!ReferenceInv, P!HoldsReference
  <2>3. operations[o].source \in Store!DeploymentIds
        /\ P!IsLatest(operations[o].source)
    BY <2>2, SameSets DEF P!EligibleSource
  <2>4. QED
    BY <1>2, <2>2, <2>3
<1>5. ASSUME NEW i \in incidents, i.status = "unresolved"
      PROVE  /\ i.kind = "deployment" => i.subject = Len(deployments)
             /\ i.kind = "rollback_operation" =>
                    /\ i.subject \in Store!OperationIds
                    /\ operations[i.subject].source = Len(deployments)
                    /\ references[Len(deployments)] = "active"
  <2>1. P!HoldsLatest(i)
    BY <1>1, <1>5 DEF P!HolderLatest
  <2>2. PICK d : d = P!HolderOf(i)
    OBVIOUS
  <2>3. /\ d = Len(deployments)
        /\ i.kind = "rollback_operation" =>
               i.subject \in Store!OperationIds /\ references[d] = "active"
    BY <1>2, <2>1, <2>2, SameSets DEF P!HoldsLatest
  <2>4. QED
    BY <2>2, <2>3 DEF P!HolderOf
<1>6. ASSUME NEW o \in Store!OperationIds
      PROVE  /\ operations[o].source \in Store!DeploymentIds
             /\ deployments[operations[o].source].state \in RollbackEligible
  BY <1>1, SameSets DEF P!HolderLatest, RollbackEligible, P!RollbackEligible
<1>7. QED
  BY <1>3, <1>4, <1>5, <1>6

(* A call in flight is one of the latest deployment, and so of a state in  *)
(* which nothing relies on what the call changes.                          *)
LEMMA CallIsLast ==
    ASSUME Settled, NEW c \in inflight
    PROVE  LET n == Len(deployments) IN
           /\ n \in Store!DeploymentIds
           /\ Subject(c.kind, c.id) = n
           /\ c.kind \in RecordKind
           /\ c.kind = "deployment" =>
                  \/ deployments[n].state = StateDuring[c.act]
                  \/ /\ deployments[n].state = "failed"
                     /\ Store!HasIncident("deployment", n)
           /\ c.kind = "rollback_operation" =>
                  /\ references[n] = "active"
                  /\ deployments[n].state \in RollbackEligible
                  /\ RolledBackBy(n) # {}
<1>1. ServiceInv /\ CallOK(c) /\ HeldBy(c)
  BY DEF Settled, RunningInv, ServiceInv, CallsInv, CallsHeld
<1>2. c.kind \in RecordKind /\ c.act \in Mutating
  BY <1>1 DEF CallOK
<1>3. CASE c.kind = "deployment"
  <2>1. c.id \in Store!DeploymentIds
    BY <1>1, <1>3 DEF CallOK
  <2>2. CASE deployments[c.id].state = StateDuring[c.act]
    <3>1. deployments[c.id].state \in NonTerminal
      BY <1>2, <2>2, Tables DEF Activity, Mutating
    <3>2. c.id = Len(deployments)
      BY <2>1, <3>1, OpenIsLast
    <3>3. QED
      BY <1>2, <1>3, <2>1, <2>2, <3>2 DEF Subject
  <2>3. ASSUME NEW i \in incidents, i.kind = "deployment", i.subject = c.id,
               i.status = "unresolved"
        PROVE  /\ c.id = Len(deployments)
               /\ deployments[c.id].state = "failed"
               /\ Store!HasIncident("deployment", c.id)
    <3>1. deployments[i.subject].state = "failed"
      BY <2>3 DEF Settled, StoreInv, Store!IncidentSubjectFailed
    <3>2. QED
      BY <2>3, <3>1, OpenIsLast DEF Store!HasIncident
  <2>4. QED
    BY <1>1, <1>2, <1>3, <2>1, <2>2, <2>3 DEF HeldBy, Subject
<1>4. CASE c.kind = "rollback_operation"
  <2>1. c.id \in Store!OperationIds
    BY <1>1, <1>4 DEF CallOK
  <2>2. /\ operations[c.id].source = Len(deployments)
        /\ references[Len(deployments)] = "active"
    <3>1. CASE operations[c.id].state = "started"
      BY <2>1, <3>1, OpenIsLast
    <3>2. ASSUME NEW i \in incidents, i.kind = "rollback_operation",
                 i.subject = c.id, i.status = "unresolved"
          PROVE  /\ operations[c.id].source = Len(deployments)
                 /\ references[Len(deployments)] = "active"
      BY <3>2, OpenIsLast
    <3>3. QED
      BY <1>1, <1>4, <3>1, <3>2 DEF HeldBy
  <2>3. /\ operations[c.id].source \in Store!DeploymentIds
        /\ deployments[operations[c.id].source].state \in RollbackEligible
    BY <2>1, OpenIsLast
  <2>4. c.id \in RolledBackBy(Len(deployments))
    BY <2>1, <2>2 DEF RolledBackBy
  <2>5. QED
    BY <1>2, <1>4, <2>2, <2>3, <2>4 DEF Subject
<1>5. QED
  BY <1>2, <1>3, <1>4 DEF RecordKind

(* So is the record of a request.                                          *)
LEMMA TaskIsLast ==
    ASSUME Settled, NEW w \in Workers
    PROVE  LET n == Len(deployments)
               t == worker[w] IN
           /\ Drives(t) \/ Operates(t) => n \in Store!DeploymentIds
           /\ Drives(t) => /\ t.id = n
                           /\ deployments[n].state \in NonTerminal
                           /\ t.pc = "transition" => deployments[n].state = t.mem
                           /\ t.pc # "transition" =>
                                  deployments[n].state = StateDuring[t.act]
           /\ Operates(t) => /\ t.id \in Store!OperationIds
                             /\ operations[t.id].state = "started"
                             /\ operations[t.id].source = n
                             /\ references[n] = "active"
                             /\ deployments[n].state \in RollbackEligible
<1>1. PICK t : t = worker[w]
  OBVIOUS
<1>2. t \in Tasks /\ RecordOK(t) /\ OnRecord(t)
  BY <1>1 DEF Settled, RunningInv, ServiceInv, OnRecords
<1>3. CASE Drives(t)
  <2>1. t.id \in Store!DeploymentIds
    BY <1>2, <1>3 DEF RecordOK, Names
  <2>2. /\ t.pc = "transition" => deployments[t.id].state = t.mem
        /\ t.pc # "transition" => deployments[t.id].state = StateDuring[t.act]
    BY <1>2, <1>3 DEF OnRecord, Drives
  <2>3. deployments[t.id].state \in NonTerminal
    <3>1. CASE t.pc = "transition"
      BY <1>1, <2>2, <3>1 DEF Settled, HostedInv, MovesOn
    <3>2. CASE t.pc # "transition"
      <4>1. t.act \in Activity
        BY <1>2, <1>3, <3>2, TaskFields DEF Drives
      <4>2. QED
        BY <2>2, <3>2, <4>1, Tables
    <3>3. QED
      BY <3>1, <3>2
  <2>4. t.id = Len(deployments) /\ ~Operates(t)
    BY <1>3, <2>1, <2>3, OpenIsLast DEF Drives, Operates
  <2>5. QED
    BY <1>1, <1>3, <2>1, <2>2, <2>3, <2>4
<1>4. CASE Operates(t)
  <2>1. t.id \in Store!OperationIds /\ operations[t.id].state = "started"
    BY <1>2, <1>4 DEF RecordOK, OnRecord
  <2>2. ~Drives(t)
    BY <1>4 DEF Drives, Operates
  <2>3. QED
    BY <1>1, <1>4, <2>1, <2>2, OpenIsLast
<1>5. QED
  BY <1>1, <1>3, <1>4

(* The only call that may still run is the one a request made.             *)
LEMMA OnlyItsCall ==
    ASSUME Settled, NEW w \in Workers, Drives(worker[w]) \/ Operates(worker[w]),
           NEW c \in inflight
    PROVE  OfRecord(c, worker[w]) /\ KnowsCall(c, worker[w])
<1>1. PICK t, n : t = worker[w] /\ n = Len(deployments)
  OBVIOUS
<1>2. /\ c.kind \in RecordKind /\ Subject(c.kind, c.id) = n
      /\ c.kind = "deployment" =>
             deployments[n].state \in {StateDuring[c.act], "failed"}
      /\ c.kind = "rollback_operation" => deployments[n].state \in RollbackEligible
  BY <1>1, CallIsLast
<1>3. CallOK(c) /\ HeldBy(c)
  BY DEF Settled, RunningInv, ServiceInv, CallsInv, CallsHeld
<1>4. StateDuring[c.act] \in NonTerminal
  BY <1>3, Tables DEF CallOK, Activity, Mutating
<1>5. OfRecord(c, t)
  <2>1. CASE Drives(t)
    <3>1. t.id = n /\ deployments[n].state \in NonTerminal
      BY <1>1, <2>1, TaskIsLast
    <3>2. c.kind = "deployment"
      BY <1>2, <3>1 DEF RecordKind, RollbackEligible, NonTerminal, Terminal
    <3>3. QED
      BY <1>2, <2>1, <3>1, <3>2 DEF OfRecord, Subject
  <2>2. CASE Operates(t)
    <3>1. /\ t.id \in Store!OperationIds /\ operations[t.id].state = "started"
          /\ deployments[n].state \in RollbackEligible
      BY <1>1, <2>2, TaskIsLast
    <3>2. c.kind = "rollback_operation"
      BY <1>2, <1>4, <3>1 DEF RecordKind, RollbackEligible, NonTerminal, Terminal
    <3>3. c.id \in Store!OperationIds
      BY <1>3, <3>2 DEF CallOK
    <3>4. operations[t.id].env \in Environments
          /\ operations[c.id].env = operations[t.id].env
      <4>1. operations[t.id].env \in Environments /\ operations[c.id].env \in Environments
        BY <3>1, <3>3, SameSets, SameInvariants, P!Rows
        DEF Settled, RunningInv, ServiceInv
      <4>2. QED
        BY <4>1, TargetAssumption
    <3>5. Store!RollbackStarted(operations[t.id].env)
      BY <3>1 DEF Store!RollbackStarted
    <3>6. Store!GuardExclusive
      BY DEF Settled, StoreInv
    <3>7. CASE operations[c.id].state = "started"
      <4>1. c.id = t.id
        BY <3>1, <3>3, <3>4, <3>6, <3>7
        DEF Store!GuardExclusive, Store!OneStartedRollback
      <4>2. QED
        BY <2>2, <3>2, <4>1 DEF OfRecord
    <3>8. ASSUME NEW i \in incidents, i.status = "unresolved" PROVE FALSE
      <4>1. i.env = operations[t.id].env
        <5>1. i.env \in Environments
          BY SameSets, SameInvariants, P!Rows DEF Settled, RunningInv, ServiceInv
        <5>2. QED
          BY <3>4, <5>1, TargetAssumption
      <4>2. Store!Quarantined(operations[t.id].env)
        BY <3>8, <4>1 DEF Store!Quarantined
      <4>3. QED
        BY <3>4, <3>5, <3>6, <4>2
        DEF Store!GuardExclusive, Store!HoldersExclude
    <3>9. QED
      BY <1>3, <3>2, <3>7, <3>8 DEF HeldBy
  <2>3. QED
    BY <1>1, <2>1, <2>2
<1>6. QED
  BY <1>1, <1>5 DEF Settled, CallsInv, CallsKnown

(* Nothing runs where no request is waiting for it or has lost it.         *)
LEMMA NothingRuns ==
    ASSUME Settled, NEW w \in Workers
    PROVE  /\ Drives(worker[w]) /\ worker[w].pc \in {"transition", "start"}
                  => inflight = {}
           /\ Operates(worker[w]) /\ worker[w].pc # "call" => inflight = {}
           /\ Drives(worker[w]) /\ worker[w].pc = "finish"
                  /\ worker[w].result # "timeout" => inflight = {}
<1>1. ASSUME NEW c \in inflight, Drives(worker[w]) \/ Operates(worker[w])
      PROVE  \/ worker[w].pc = "call"
             \/ worker[w].pc = "finish" /\ worker[w].result = "timeout"
  BY <1>1, OnlyItsCall DEF KnowsCall
<1>2. Operates(worker[w]) => worker[w].pc # "finish"
  BY DEF Operates
<1>3. QED
  BY <1>1, <1>2

(* Nor when a deployment is reserved.                                      *)
LEMMA NothingRunsAtReserve ==
    ASSUME Settled, NEW w \in Workers, Reserve(w)
    PROVE  inflight = {}
<1>1. PICK req : req = worker[w].req /\ req \in Requests /\ Store!Reserve(req)
  BY TaskFields DEF Reserve, Settled, RunningInv, ServiceInv
<1>2. /\ ~Store!DeploymentActive(req.env) /\ ~Store!RollbackStarted(req.env)
      /\ ~Store!Quarantined(req.env)
  BY <1>1 DEF Store!Reserve, Store!MayReserve, Store!MayInsertDeployment
<1>3. req.env \in Environments
  BY <1>1, ServiceAssumption DEF Store!Request
<1>4. ASSUME NEW c \in inflight PROVE FALSE
  <2>1. CallOK(c) /\ HeldBy(c) /\ P!TypeOK
    BY SameInvariants DEF Settled, RunningInv, ServiceInv, CallsInv, CallsHeld
  <2>2. StateDuring[c.act] \in NonTerminal
    BY <2>1, Tables DEF CallOK, Activity, Mutating
  <2>3. CASE c.kind = "deployment" /\ deployments[c.id].state = StateDuring[c.act]
    <3>1. c.id \in Store!DeploymentIds /\ deployments[c.id].env \in Environments
      BY <2>1, <2>3, SameSets, P!Rows DEF CallOK
    <3>2. deployments[c.id].env = req.env
      BY <1>3, <3>1, TargetAssumption
    <3>3. QED
      BY <1>2, <2>2, <2>3, <3>1, <3>2 DEF Store!DeploymentActive,
         Store!NonTerminal, Store!DeploymentState, Store!Terminal, NonTerminal,
         DeploymentState, Terminal
  <2>4. CASE c.kind = "rollback_operation" /\ operations[c.id].state = "started"
    <3>1. c.id \in Store!OperationIds /\ operations[c.id].env \in Environments
      BY <2>1, <2>4, SameSets, P!Rows DEF CallOK
    <3>2. operations[c.id].env = req.env
      BY <1>3, <3>1, TargetAssumption
    <3>3. QED
      BY <1>2, <2>4, <3>1, <3>2 DEF Store!RollbackStarted
  <2>5. ASSUME NEW i \in incidents, i.status = "unresolved" PROVE FALSE
    <3>1. i.env \in Environments
      BY <2>1, P!Rows
    <3>2. i.env = req.env
      BY <1>3, <3>1, TargetAssumption
    <3>3. QED
      BY <1>2, <2>5, <3>2 DEF Store!Quarantined
  <2>6. QED
    BY <2>1, <2>3, <2>4, <2>5 DEF HeldBy
<1>5. QED
  BY <1>4
-----------------------------------------------------------------------------
(* What the target holds, said of deployment d.  Nothing is said where two *)
(* of its files are one.                                                   *)

Staged(d) ==
    ApartUnder(d) => files[madeUnder[d].staging_path] \in OfSize(d)
BackedUp(d) ==
    ApartUnder(d) => files[madeUnder[d].backup_path] = before[d]
Installed(d) ==
    ApartUnder(d) => files[madeUnder[d].install_path] \in OfSize(d)
Restored(d) ==
    ApartUnder(d) => files[madeUnder[d].install_path] = before[d]
Runs(d) ==
    ApartUnder(d) => running = files[madeUnder[d].install_path]
RunsBefore(d) ==
    ApartUnder(d) => running = before[d]

(* A failure of d is followed by a rollback. *)
RollsBack(d) == madeUnder[d].tasks.rollback # NotConfigured

(* Its explicit rollbacks work from the contract it was made under. *)
Bound(d) == boundTo[d] = ReferenceFor(madeUnder[d])
Owned(d) == RolledBackBy(d) = {} \/ Bound(d)

(* What the target holds while d, the latest deployment, is in state s.    *)
Contents(d, s) ==
    /\ s \in {"created", "prechecking", "staging_artifact", "backing_up"} =>
           Restored(d)
    /\ s \in {"backing_up", "installing"} => Staged(d)
    /\ s \in {"installing", "restarting", "verifying", "rolling_back"} =>
           BackedUp(d)
    /\ s \in {"restarting", "verifying"} => Installed(d)
    /\ s = "verifying" => Runs(d)
    /\ s \in RollbackEligible /\ Owned(d) => BackedUp(d)
    /\ s = "succeeded" /\ RolledBackBy(d) = {} => Installed(d) /\ Runs(d)
    /\ s = "rolled_back" => Restored(d) /\ RunsBefore(d)
    /\ s = "failed" /\ ~Store!HasIncident("deployment", d) =>
           Restored(d) \/ (~RollsBack(d) /\ BackedUp(d))

(* What an activity that was answered with success has brought about.      *)
Effect(d, a) ==
    /\ a = "stage" => Staged(d)
    /\ a = "backup" => BackedUp(d)
    /\ a = "install" => Installed(d)
    /\ a = "restart" => Runs(d)
    /\ a = "restore" => Restored(d)
    /\ a = "reactivate" => RunsBefore(d)

(* What recovery activities that precede a have brought about.             *)
Recovered(d, a) ==
    /\ a \in {"reactivate", "reverify"} => Restored(d)
    /\ a = "reverify" => RunsBefore(d)

(* A step leaves what is known about d as it is. *)
FactsStay(d) ==
    /\ Staged(d)' <=> Staged(d)
    /\ BackedUp(d)' <=> BackedUp(d)
    /\ Installed(d)' <=> Installed(d)
    /\ Restored(d)' <=> Restored(d)
    /\ Runs(d)' <=> Runs(d)
    /\ RunsBefore(d)' <=> RunsBefore(d)
    /\ RollsBack(d)' <=> RollsBack(d)

HistoryStays(d) ==
    /\ Owned(d)' => Owned(d)
    /\ RolledBackBy(d)' = {} => RolledBackBy(d) = {}
    /\ references[d] # "none" => (Bound(d)' <=> Bound(d))
    /\ Store!HasIncident("deployment", d) => Store!HasIncident("deployment", d)'

(* The columns that the facts are read from stay.                          *)
LEMMA ColumnsStay ==
    ASSUME Settled, [HostedNext]_hostedVars, NEW d \in Store!DeploymentIds
    PROVE  /\ madeUnder'[d] = madeUnder[d] /\ before'[d] = before[d]
           /\ deployments'[d].release = deployments[d].release
           /\ \/ boundTo'[d] = boundTo[d]
              \/ references[d] = "none" /\ RolledBackBy(d) = {}
<1>1. ServiceInv /\ ColumnsTyped /\ files \in [Paths -> Bytes] /\ Served
      /\ SourcesReferenced /\ [Next]_vars
  BY HostedStepImplements DEF Settled, RunningInv, HostedInv, HostTyped
<1>2. P!RecordsKept
  BY <1>1, RecordsStay
<1>3. deployments'[d].release = deployments[d].release
  BY <1>2, SameSets DEF P!RecordsKept
<1>4. references[d] = "none" => RolledBackBy(d) = {}
  BY <1>1 DEF SourcesReferenced, RolledBackBy
<1>5. QED
  BY <1>1, <1>3, <1>4, ColumnsKept

(* A step that leaves the host as it is leaves the facts as they are.      *)
LEMMA FactsKept ==
    ASSUME Settled, [HostedNext]_hostedVars, UNCHANGED <<files, running>>,
           NEW d \in Store!DeploymentIds
    PROVE  FactsStay(d)
<1>1. /\ ApartUnder(d)' <=> ApartUnder(d)
      /\ OfSize(d)' = OfSize(d)
      /\ madeUnder'[d] = madeUnder[d] /\ before'[d] = before[d]
  BY ColumnsStay DEF ApartUnder, OfSize
<1>2. QED
  BY <1>1 DEF FactsStay, Staged, BackedUp, Installed, Restored, Runs,
     RunsBefore, RollsBack

(* Incidents stay, and so do the rollbacks and what they work from.        *)
LEMMA HistoryStay ==
    ASSUME Settled, [HostedNext]_hostedVars, NEW d \in Store!DeploymentIds
    PROVE  HistoryStays(d)
<1>1. ServiceInv /\ [Next]_vars
  BY HostedStepImplements DEF Settled, RunningInv
<1>2. P!RecordsKept
  BY <1>1, RecordsStay
<1>3. RolledBackBy(d) \subseteq RolledBackBy(d)'
  BY <1>2 DEF P!RecordsKept, RolledBackBy, P!OperationIds, Store!OperationIds
<1>4. \/ Bound(d)' <=> Bound(d)
      \/ references[d] = "none" /\ RolledBackBy(d) = {}
  BY ColumnsStay DEF Bound
<1>5. Store!HasIncident("deployment", d) => Store!HasIncident("deployment", d)'
  <2>1. ASSUME NEW i \in incidents, i.kind = "deployment", i.subject = d
        PROVE  \E j \in incidents' : j.kind = "deployment" /\ j.subject = d
    <3>1. CASE i \in incidents'
      BY <2>1, <3>1
    <3>2. ASSUME NEW k \in incidents, Acknowledge(k)
          PROVE  \E j \in incidents' : j.kind = "deployment" /\ j.subject = d
      <4>1. incidents' = (incidents \ {k}) \cup {[k EXCEPT !.status = "acknowledged"]}
        BY <3>2 DEF Acknowledge, Store!Acknowledge
      <4>2. [k EXCEPT !.status = "acknowledged"].kind = k.kind
            /\ [k EXCEPT !.status = "acknowledged"].subject = k.subject
        BY DEF Settled, RunningInv, ServiceInv, Store!TypeOK, Store!IncidentRow
      <4>3. QED
        BY <2>1, <4>1, <4>2
    <3>3. QED
      BY <1>1, <3>1, <3>2, IncidentSteps
  <2>2. QED
    BY <2>1 DEF Store!HasIncident
<1>6. QED
  BY <1>3, <1>4, <1>5 DEF HistoryStays, Owned

(* What follows for the contents of the target.                            *)
LEMMA ContentsStay ==
    ASSUME NEW d, NEW s, Contents(d, s), FactsStay(d), HistoryStays(d)
    PROVE  Contents(d, s)'
BY DEF Contents, FactsStay, HistoryStays

(* ... and for what the activities brought about.                         *)
LEMMA EffectsStay ==
    ASSUME NEW d, NEW a, FactsStay(d)
    PROVE  /\ Effect(d, a)' <=> Effect(d, a)
           /\ Recovered(d, a)' <=> Recovered(d, a)
BY DEF Effect, Recovered, FactsStay
-----------------------------------------------------------------------------
(* The inductive invariant. *)

(* What the request t relies on. *)
Known(t) ==
    /\ t.pc = "transition" => Contents(t.id, t.goal)
    /\ t.pc = "finish" =>
           /\ t.result = "ok" => Effect(t.id, t.act)
           /\ Recovered(t.id, t.act)
    /\ t.pc \in {"start", "call"} =>
           LET d == Subject(t.kind, t.id) IN
           t.kind = "deployment" \/ Bound(d) => Recovered(d, t.act)
    /\ t.pc = "settle" =>
           LET d == operations[t.id].source IN
           t.outcome = "succeeded" /\ Bound(d) => Restored(d) /\ RunsBefore(d)

(* The answer to the call of r would be that it is done. *)
Answerable(d, r) ==
    /\ Awaited(r.call) /\ r.progress = "done"
    /\ r.call.act = "stage" => TransferAccepted(d, r.bytes)

(* The call r is one of the contract of d, the latest deployment. *)
RemoteOK(d, r) ==
    /\ r.call.kind = "rollback_operation" => r.call.act \in RollbackAct
    /\ r.call.kind = "deployment" \/ Bound(d) =>
           /\ r.made = CallUnder(madeUnder[d], r.call.act)
           /\ Answerable(d, r) => Effect(d, r.call.act)

RemoteInv ==
    /\ \A q, r \in remote : q = r
    /\ \A r \in remote : RemoteOK(Len(deployments), r)

ConfigInv ==
    \A w \in Workers :
        Drives(worker[w]) => ConfigOf(w) = madeUnder[worker[w].id]

KnownInv == \A w \in Workers : Known(worker[w])

ContentsInv ==
    \A d \in Store!DeploymentIds :
        d = Len(deployments) => Contents(d, deployments[d].state)

OutcomeInv ==
    \A o \in Store!OperationIds :
        LET d == operations[o].source IN
        operations[o].state = "succeeded" /\ d = Len(deployments) /\ Bound(d)
            => Restored(d) /\ RunsBefore(d)

HostInv == RemoteInv /\ ConfigInv /\ KnownInv /\ ContentsInv /\ OutcomeInv

(* A call under the contract of a deployment changes one of its facts.     *)
LEMMA EffectKeeps ==
    ASSUME Settled, NEW r \in remote, BeginEffect(r) \/ CompleteEffect(r),
           NEW n \in Store!DeploymentIds, NEW a, a = r.call.act,
           r.made = CallUnder(madeUnder[n], a)
    PROVE  /\ a # "stage" => (Staged(n)' <=> Staged(n))
           /\ a # "backup" => (BackedUp(n)' <=> BackedUp(n))
           /\ a \notin {"install", "restore"} =>
                  (Installed(n)' <=> Installed(n)) /\ (Restored(n)' <=> Restored(n))
           /\ a \notin Restarting => (RunsBefore(n)' <=> RunsBefore(n))
           /\ a \notin Restarting \cup {"install", "restore"} =>
                  (Runs(n)' <=> Runs(n))
           /\ RollsBack(n)' <=> RollsBack(n)
<1>1. /\ files \in [Paths -> Bytes] /\ RemoteTyped(r)
      /\ madeUnder \in Seq(Contracts) /\ Len(madeUnder) = Len(deployments)
  BY DEF Settled, HostedInv, HostTyped, ColumnsTyped
<1>2. PICK c \in Contracts : c = madeUnder[n]
  BY <1>1 DEF Store!DeploymentIds
<1>3. /\ \A p \in Paths : p # Writes(c, a) => files'[p] = files[p]
      /\ a \notin Restarting => running' = running
  BY <1>1, <1>2, EffectsOfCall
<1>4. UNCHANGED <<deployments, madeUnder, before>>
  BY DEF BeginEffect, CompleteEffect, vars, storeVars, configVars
<1>5. /\ c.staging_path \in Paths /\ c.install_path \in Paths
      /\ c.backup_path \in Paths
      /\ NoPath \notin Paths
  BY PathsOfContract
<1>6. ASSUME ApartUnder(n)
      PROVE  /\ a # "stage" => Writes(c, a) # c.staging_path
             /\ a # "backup" => Writes(c, a) # c.backup_path
             /\ a \notin {"install", "restore"} => Writes(c, a) # c.install_path
  BY <1>2, <1>5, <1>6 DEF Writes, ApartUnder
<1>7. (ApartUnder(n)' <=> ApartUnder(n)) /\ OfSize(n)' = OfSize(n)
  BY <1>4 DEF ApartUnder, OfSize
<1>8. a # "stage" => (Staged(n)' <=> Staged(n))
  BY <1>2, <1>3, <1>4, <1>5, <1>6, <1>7 DEF Staged
<1>9. a # "backup" => (BackedUp(n)' <=> BackedUp(n))
  BY <1>2, <1>3, <1>4, <1>5, <1>6, <1>7 DEF BackedUp
<1>10. a \notin {"install", "restore"} =>
           (Installed(n)' <=> Installed(n)) /\ (Restored(n)' <=> Restored(n))
  BY <1>2, <1>3, <1>4, <1>5, <1>6, <1>7 DEF Installed, Restored
<1>11. a \notin Restarting => (RunsBefore(n)' <=> RunsBefore(n))
  BY <1>3, <1>4, <1>7 DEF RunsBefore
<1>12. a \notin Restarting \cup {"install", "restore"} => (Runs(n)' <=> Runs(n))
  BY <1>2, <1>3, <1>4, <1>5, <1>6, <1>7 DEF Runs
<1>13. RollsBack(n)' <=> RollsBack(n)
  BY <1>4 DEF RollsBack
<1>14. QED
  BY <1>8, <1>9, <1>10, <1>11, <1>12, <1>13

(* What the host does while a call is under way, the record does not rely  *)
(* on.                                                                     *)
LEMMA EffectOnContents ==
    ASSUME Settled, HostInv, NEW r \in remote, BeginEffect(r) \/ CompleteEffect(r)
    PROVE  ContentsInv' /\ OutcomeInv'
<1>1. PICK n, a, s : n = Len(deployments) /\ a = r.call.act
                     /\ s = deployments[n].state
  OBVIOUS
<1>2. r.call \in inflight /\ RemoteTyped(r) /\ a \in Mutating /\ RemoteOK(n, r)
  BY <1>1 DEF Settled, HostedInv, HostTyped, RemoteTyped, HostInv, RemoteInv
<1>3. /\ n \in Store!DeploymentIds
      /\ r.call.kind \in RecordKind
      /\ r.call.kind = "deployment" =>
             \/ s = StateDuring[a]
             \/ s = "failed" /\ Store!HasIncident("deployment", n)
      /\ r.call.kind = "rollback_operation" =>
             /\ references[n] = "active"
             /\ s \in RollbackEligible
             /\ RolledBackBy(n) # {}
  BY <1>1, <1>2, CallIsLast
<1>4. UNCHANGED vars /\ UNCHANGED configVars
  BY DEF BeginEffect, CompleteEffect
<1>5. UNCHANGED <<deployments, operations, references, incidents, boundTo,
                  madeUnder>>
  BY <1>4 DEF vars, storeVars, configVars
<1>6. /\ Store!HasIncident("deployment", n)' <=> Store!HasIncident("deployment", n)
      /\ RolledBackBy(n)' = RolledBackBy(n)
      /\ Bound(n)' <=> Bound(n)
      /\ Owned(n)' <=> Owned(n)
      /\ UNCHANGED <<Store!DeploymentIds, Store!OperationIds>>
  BY <1>5 DEF Store!HasIncident, RolledBackBy, Bound, Owned,
     Store!DeploymentIds, Store!OperationIds
<1>7. Contents(n, s)
  BY <1>1, <1>3 DEF HostInv, ContentsInv
<1>8. ASSUME r.call.kind = "deployment" \/ Bound(n) PROVE Contents(n, s)'
  <2>1. r.made = CallUnder(madeUnder[n], a)
    BY <1>1, <1>2, <1>8 DEF RemoteOK
  <2>2. /\ a # "stage" => (Staged(n)' <=> Staged(n))
        /\ a # "backup" => (BackedUp(n)' <=> BackedUp(n))
        /\ a \notin {"install", "restore"} =>
               (Installed(n)' <=> Installed(n)) /\ (Restored(n)' <=> Restored(n))
        /\ a \notin Restarting => (RunsBefore(n)' <=> RunsBefore(n))
    BY <1>1, <1>3, <2>1, EffectKeeps
  <2>3. CASE r.call.kind = "deployment" /\ s = StateDuring[a]
    <3>1. \/ a = "stage" /\ s = "staging_artifact"
          \/ a = "backup" /\ s = "backing_up"
          \/ a = "install" /\ s = "installing"
          \/ a = "restart" /\ s = "restarting"
          \/ a \in {"restore", "reactivate"} /\ s = "rolling_back"
      BY <1>2, <2>3 DEF Mutating, StateDuring
    <3>2. QED
      BY <1>7, <2>2, <3>1 DEF Contents, RollbackEligible, Restarting
  <2>4. CASE s = "failed" /\ Store!HasIncident("deployment", n)
    BY <1>6, <2>4 DEF Contents, RollbackEligible
  <2>5. CASE r.call.kind = "rollback_operation"
    <3>1. a \in {"restore", "reactivate"}
      BY <1>1, <1>2, <2>5 DEF RemoteOK, RollbackAct, Mutating
    <3>2. s \in {"succeeded", "rollback_failed"} /\ RolledBackBy(n)' # {}
      BY <1>3, <1>6, <2>5 DEF RollbackEligible
    <3>3. QED
      BY <1>6, <1>7, <2>2, <3>1, <3>2 DEF Contents, RollbackEligible
  <2>6. QED
    BY <1>3, <2>3, <2>4, <2>5 DEF RecordKind
<1>9. ASSUME r.call.kind # "deployment", ~Bound(n) PROVE Contents(n, s)'
  <2>1. s \in {"succeeded", "rollback_failed"} /\ ~Owned(n)'
        /\ RolledBackBy(n)' # {}
    BY <1>3, <1>6, <1>9 DEF RecordKind, Owned, RollbackEligible
  <2>2. QED
    BY <2>1 DEF Contents, RollbackEligible
<1>10. Contents(n, s)'
  BY <1>8, <1>9
<1>11. ContentsInv'
  BY <1>1, <1>5, <1>6, <1>10 DEF ContentsInv
<1>12. ASSUME NEW o \in Store!OperationIds, operations[o].state = "succeeded",
              operations[o].source = n
       PROVE  FALSE
  <2>1. s \in RollbackEligible
    BY <1>1, <1>12, OpenIsLast
  <2>2. references[n] = "consumed"
    <3>1. P!ConsumedByOneRollback /\ n \in P!DeploymentIds /\ o \in P!OperationIds
      BY <1>3, SameSets DEF Settled
    <3>2. QED
      BY <1>12, <3>1 DEF P!ConsumedByOneRollback
  <2>3. r.call.kind = "deployment" => FALSE
    <3>1. StateDuring[a] \in NonTerminal
      BY <1>2, Tables DEF Activity, Mutating
    <3>2. QED
      BY <1>3, <2>1, <3>1 DEF RollbackEligible, NonTerminal, Terminal
  <2>4. QED
    BY <1>3, <2>2, <2>3 DEF RecordKind
<1>13. OutcomeInv'
  BY <1>1, <1>5, <1>6, <1>12 DEF OutcomeInv
<1>14. QED
  BY <1>11, <1>13

(* Nor does a request, but on what the call under way leaves alone.        *)
LEMMA EffectOnRequests ==
    ASSUME Settled, HostInv, NEW r \in remote, BeginEffect(r) \/ CompleteEffect(r)
    PROVE  KnownInv' /\ ConfigInv'
<1>1. PICK n, a : n = Len(deployments) /\ a = r.call.act
  OBVIOUS
<1>2. r.call \in inflight /\ a \in Mutating /\ RemoteOK(n, r)
  BY <1>1 DEF Settled, HostedInv, HostTyped, RemoteTyped, HostInv, RemoteInv
<1>3. UNCHANGED vars /\ UNCHANGED configVars
  BY DEF BeginEffect, CompleteEffect
<1>4. UNCHANGED <<deployments, operations, references, incidents, worker,
                  boundTo, madeUnder, before, config>>
  BY <1>3 DEF vars, storeVars, configVars
<1>5. Bound(n)' <=> Bound(n)
  BY <1>4 DEF Bound
<1>6. ASSUME NEW w \in Workers, Drives(worker[w]) \/ Operates(worker[w])
      PROVE  /\ worker[w].pc \in {"call", "finish"}
             /\ worker[w].pc = "finish" => worker[w].result = "timeout"
             /\ worker[w].act = a
             /\ Drives(worker[w]) => worker[w].id = n /\ r.call.kind = "deployment"
             /\ Operates(worker[w]) => operations[worker[w].id].source = n
             /\ n \in Store!DeploymentIds
  <2>1. KnowsCall(r.call, worker[w]) /\ OfRecord(r.call, worker[w])
    BY <1>2, <1>6, OnlyItsCall
  <2>2. /\ worker[w].pc \in {"call", "finish"}
        /\ worker[w].pc = "finish" => worker[w].result = "timeout"
        /\ worker[w].act = a
    BY <1>1, <2>1 DEF KnowsCall, CallOf
  <2>3. Drives(worker[w]) => r.call.kind = "deployment"
    BY <2>1 DEF OfRecord, Drives, Operates
  <2>4. /\ Drives(worker[w]) => worker[w].id = n
        /\ Operates(worker[w]) => operations[worker[w].id].source = n
        /\ n \in Store!DeploymentIds
    BY <1>1, <1>6, TaskIsLast
  <2>5. QED
    BY <2>2, <2>3, <2>4
<1>7. ASSUME n \in Store!DeploymentIds, r.call.kind = "deployment" \/ Bound(n),
             Recovered(n, a)
      PROVE  Recovered(n, a)'
  <2>1. r.made = CallUnder(madeUnder[n], a)
    BY <1>1, <1>2, <1>7 DEF RemoteOK
  <2>2. a \notin {"install", "restore"} => (Restored(n)' <=> Restored(n))
    BY <1>1, <1>7, <2>1, EffectKeeps
  <2>3. QED
    BY <1>2, <1>7, <2>2 DEF Recovered, Mutating
<1>8. ASSUME NEW w \in Workers, NEW t, t = worker[w] PROVE Known(t)'
  <2>1. Known(t)
    BY <1>8 DEF HostInv, KnownInv
  <2>2. CASE ~(Drives(t) \/ Operates(t))
    <3>1. t.pc \notin {"transition", "finish", "settle"}
      BY <2>2 DEF Drives, Operates
    <3>2. t \in Tasks
      BY <1>8 DEF Settled, RunningInv, ServiceInv
    <3>3. t.pc \notin {"start", "call"}
      BY <2>2, <3>2, TaskFields DEF Drives, Operates, RecordKind
    <3>4. QED
      BY <3>1, <3>3 DEF Known
  <2>3. CASE Drives(t)
    <3>1. t.pc \in {"call", "finish"} /\ t.act = a /\ t.id = n
          /\ (t.pc = "finish" => t.result = "timeout")
          /\ r.call.kind = "deployment" /\ n \in Store!DeploymentIds
      BY <1>6, <1>8, <2>3
    <3>2. t.pc = "call" => t.kind = "deployment"
      BY <2>3 DEF Drives
    <3>3. Recovered(n, a)
      BY <2>1, <3>1, <3>2 DEF Known, Subject
    <3>4. Recovered(n, a)'
      BY <1>7, <3>1, <3>3
    <3>5. QED
      BY <3>1, <3>2, <3>4 DEF Known, Subject
  <2>4. CASE Operates(t)
    <3>1. t.pc = "call" /\ t.act = a /\ operations[t.id].source = n
          /\ n \in Store!DeploymentIds
      BY <1>6, <1>8, <2>4 DEF Operates
    <3>2. t.kind = "rollback_operation"
      BY <2>4, <3>1 DEF Operates
    <3>3. ASSUME Bound(n)' PROVE Recovered(n, a)'
      <4>1. Recovered(n, a)
        BY <1>5, <2>1, <3>1, <3>2, <3>3 DEF Known, Subject
      <4>2. QED
        BY <1>5, <1>7, <3>1, <3>3, <4>1
    <3>4. Subject(t.kind, t.id)' = n
      BY <1>4, <3>1, <3>2 DEF Subject
    <3>5. QED
      BY <3>1, <3>2, <3>3, <3>4 DEF Known
  <2>5. QED
    BY <2>2, <2>3, <2>4
<1>9. KnownInv'
  <2>1. ASSUME NEW w \in Workers PROVE Known(worker[w])'
    <3>1. PICK t : t = worker[w]
      OBVIOUS
    <3>2. Known(t)' /\ worker'[w] = t
      BY <1>4, <1>8, <3>1
    <3>3. QED
      BY <3>2 DEF Known
  <2>2. QED
    BY <2>1 DEF KnownInv
<1>10. ConfigInv'
  BY <1>4 DEF HostInv, ConfigInv, ConfigOf, Drives
<1>11. QED
  BY <1>9, <1>10

(* A call that took full effect has brought about what it is for, because  *)
(* of what the record and the request that made it tell about the target.  *)
LEMMA EffectAchieves ==
    ASSUME Settled, HostInv, NEW r \in remote, CompleteEffect(r),
           NEW n, n = Len(deployments), NEW w \in Workers,
           worker[w].pc = "call", CallOf(worker[w]) = r.call,
           r.call.kind = "deployment" \/ Bound(n),
           r.call.act = "stage" => TransferAccepted(n, r.bytes)
    PROVE  Effect(n, r.call.act)'
<1>1. PICK t, a, s : t = worker[w] /\ a = r.call.act /\ s = deployments[n].state
  OBVIOUS
<1>2. r.call \in inflight /\ RemoteTyped(r) /\ a \in Mutating /\ RemoteOK(n, r)
  BY <1>1 DEF Settled, HostedInv, HostTyped, RemoteTyped, HostInv, RemoteInv
<1>3. t.pc = "call" /\ t.act = a /\ t.kind = r.call.kind /\ t.kind \in RecordKind
  BY <1>1, TaskFields DEF CallOf, Settled, RunningInv, ServiceInv
<1>4. Drives(t) \/ Operates(t)
  BY <1>3 DEF Drives, Operates, RecordKind
<1>5. /\ n \in Store!DeploymentIds
      /\ t.kind = "deployment" => t.id = n /\ s = StateDuring[a]
      /\ t.kind = "rollback_operation" =>
             operations[t.id].source = n /\ s \in RollbackEligible
  BY <1>1, <1>3, <1>4, TaskIsLast DEF Drives, Operates, RecordKind
<1>6. /\ madeUnder \in Seq(Contracts) /\ files \in [Paths -> Bytes]
      /\ Len(madeUnder) = Len(deployments)
  BY DEF Settled, HostedInv, HostTyped, ColumnsTyped
<1>7. PICK c \in Contracts : c = madeUnder[n] /\ r.made = CallUnder(c, a)
  BY <1>1, <1>2, <1>5, <1>6 DEF RemoteOK, Store!DeploymentIds
<1>8. /\ a = "stage" => files'[c.staging_path] = r.bytes
      /\ a \in {"backup", "install", "restore"} =>
             files'[Writes(c, a)] = files[Reads(c, a)]
      /\ a \in Restarting => running' = files[c.install_path]
  BY <1>1, <1>2, <1>6, <1>7, EffectsOfCall
<1>9. UNCHANGED <<deployments, operations, boundTo, madeUnder, before>>
  BY DEF CompleteEffect, vars, storeVars, configVars
<1>10. Contents(n, s) /\ OfSize(n)' = OfSize(n)
       /\ (ApartUnder(n)' <=> ApartUnder(n))
  BY <1>1, <1>5, <1>9 DEF HostInv, ContentsInv, OfSize, ApartUnder
<1>11. Recovered(n, a)
  <2>1. Known(t)
    BY <1>1 DEF HostInv, KnownInv
  <2>2. Subject(t.kind, t.id) = n
    BY <1>3, <1>5 DEF Subject, RecordKind
  <2>3. QED
    BY <1>3, <2>1, <2>2 DEF Known
<1>12. t.kind = "rollback_operation" => a \in RollbackAct
  BY <1>1, <1>2, <1>3 DEF RemoteOK
<1>13. CASE a = "stage"
  <2>1. r.bytes \in Digests
    BY <1>1, <1>2, <1>13 DEF RemoteTyped
  <2>2. r.bytes \in OfSize(n)'
    BY <1>1, <1>9, <1>13, <2>1 DEF TransferAccepted, OfSize
  <2>3. Staged(n)'
    BY <1>7, <1>8, <1>9, <1>13, <2>2 DEF Staged
  <2>4. QED
    BY <1>1, <1>13, <2>3 DEF Effect
<1>14. CASE a = "backup"
  <2>1. Restored(n)
    BY <1>3, <1>5, <1>10, <1>12, <1>14
    DEF Contents, StateDuring, RollbackAct, RecordKind
  <2>2. BackedUp(n)'
    BY <1>7, <1>8, <1>9, <1>10, <1>14, <2>1 DEF Restored, BackedUp, Writes, Reads
  <2>3. QED
    BY <1>1, <1>14, <2>2 DEF Effect
<1>15. CASE a = "install"
  <2>1. Staged(n)
    BY <1>3, <1>5, <1>10, <1>12, <1>15
    DEF Contents, StateDuring, RollbackAct, RecordKind
  <2>2. Installed(n)'
    BY <1>7, <1>8, <1>9, <1>10, <1>15, <2>1 DEF Staged, Installed, Writes, Reads
  <2>3. QED
    BY <1>1, <1>15, <2>2 DEF Effect
<1>16. CASE a = "restart"
  <2>1. files' = files
    <3>1. r.made.to = NoPath
      BY <1>7, <1>16, CallFields DEF Writes, Mutating
    <3>2. QED
      BY <3>1 DEF CompleteEffect
  <2>2. Runs(n)'
    BY <1>7, <1>8, <1>9, <1>16, <2>1 DEF Runs, Restarting
  <2>3. QED
    BY <1>1, <1>16, <2>2 DEF Effect
<1>17. CASE a = "restore"
  <2>1. BackedUp(n)
    <3>1. CASE t.kind = "deployment"
      BY <1>5, <1>10, <1>17, <3>1 DEF Contents, StateDuring
    <3>2. CASE t.kind = "rollback_operation"
      BY <1>3, <1>5, <1>10, <3>2 DEF Contents, Owned
    <3>3. QED
      BY <1>3, <3>1, <3>2 DEF RecordKind
  <2>2. Restored(n)'
    BY <1>7, <1>8, <1>9, <1>10, <1>17, <2>1 DEF Restored, BackedUp, Writes, Reads
  <2>3. QED
    BY <1>1, <1>17, <2>2 DEF Effect
<1>18. CASE a = "reactivate"
  <2>1. Restored(n)
    BY <1>11, <1>18 DEF Recovered
  <2>2. RunsBefore(n)'
    BY <1>7, <1>8, <1>9, <1>10, <1>18, <2>1 DEF Restored, RunsBefore, Restarting
  <2>3. QED
    BY <1>1, <1>18, <2>2 DEF Effect
<1>19. QED
  BY <1>2, <1>13, <1>14, <1>15, <1>16, <1>17, <1>18 DEF Mutating

(* What is known of the call under way stays true as it takes effect.      *)
LEMMA EffectOnRemote ==
    ASSUME Settled, HostInv, NEW r \in remote, BeginEffect(r) \/ CompleteEffect(r)
    PROVE  RemoteInv'
<1>1. PICK n, q : /\ n = Len(deployments)
                  /\ q = [r EXCEPT !.progress = IF BeginEffect(r) THEN "begun"
                                                ELSE "done"]
  OBVIOUS
<1>2. RemoteTyped(r) /\ RemoteOK(n, r) /\ remote = {r}
  BY <1>1 DEF Settled, HostedInv, HostTyped, HostInv, RemoteInv
<1>3. ~(BeginEffect(r) /\ CompleteEffect(r))
  BY DEF BeginEffect, CompleteEffect
<1>4. remote' = {q}
  BY <1>1, <1>2, <1>3 DEF BeginEffect, CompleteEffect
<1>5. /\ q.call = r.call /\ q.made = r.made /\ q.bytes = r.bytes
      /\ q.progress = "done" => ~BeginEffect(r)
  BY <1>1, <1>2 DEF RemoteTyped
<1>6. UNCHANGED <<deployments, operations, worker, boundTo, madeUnder, before>>
  BY DEF BeginEffect, CompleteEffect, vars, storeVars, configVars
<1>7. (Bound(n)' <=> Bound(n)) /\ (Awaited(r.call)' <=> Awaited(r.call))
  BY <1>6 DEF Bound, Awaited
<1>8. ASSUME r.call.kind = "deployment" \/ Bound(n), Answerable(n, q)'
      PROVE  Effect(n, r.call.act)'
  <2>1. /\ Awaited(r.call) /\ CompleteEffect(r)
        /\ r.call.act = "stage" => TransferAccepted(n, r.bytes)
    BY <1>5, <1>6, <1>7, <1>8 DEF Answerable, TransferAccepted
  <2>2. PICK w \in Workers : worker[w].pc = "call" /\ CallOf(worker[w]) = r.call
    BY <2>1 DEF Awaited
  <2>3. QED
    BY <1>1, <1>8, <2>1, <2>2, EffectAchieves
<1>9. RemoteOK(n, q)'
  BY <1>2, <1>5, <1>6, <1>7, <1>8 DEF RemoteOK
<1>10. QED
  BY <1>1, <1>4, <1>6, <1>9 DEF RemoteInv

(* A step of the host keeps the invariant.                                 *)
LEMMA EffectOnHost ==
    ASSUME Settled, HostInv, NEW r \in remote, BeginEffect(r) \/ CompleteEffect(r)
    PROVE  HostInv'
BY EffectOnContents, EffectOnRequests, EffectOnRemote DEF HostInv
-----------------------------------------------------------------------------
(* The steps that leave the target as it is. *)

(* No row is lost, and a reservation makes another deployment the latest.  *)
LEMMA LatestStays ==
    ASSUME Settled, [HostedNext]_hostedVars
    PROVE  LET n == Len(deployments) IN
           \/ Len(deployments') = n
           \/ /\ \E w \in Workers : ReserveUnder(w)
              /\ Len(deployments') = n + 1
              /\ n + 1 \notin Store!DeploymentIds
<1>1. ServiceInv
  BY DEF Settled, RunningInv
<1>2. QED
  BY <1>1, ColumnSteps, ReservedRow

(* The target still holds what a new deployment is about to replace.       *)
LEMMA ReservedContents ==
    ASSUME Settled, NEW w \in Workers, ReserveUnder(w),
           NEW n, n = Len(deployments) + 1, NEW s \in {"created", "prechecking"}
    PROVE  Contents(n, s)'
<1>1. ServiceInv /\ ColumnsTyped /\ files \in [Paths -> Bytes]
  BY DEF Settled, RunningInv, HostedInv, HostTyped
<1>2. /\ madeUnder'[n] = ConfigOf(w)
      /\ before'[n] = files[ConfigOf(w).install_path]
      /\ files' = files
  BY <1>1, ReservedColumns, ReservedRow
<1>3. Restored(n)'
  BY <1>2 DEF Restored
<1>4. QED
  BY <1>3 DEF Contents, RollbackEligible

(* What the latest deployment's state says of the target stays true.       *)
LEMMA ContentsStep ==
    ASSUME Settled, HostInv, [HostedNext]_hostedVars,
           UNCHANGED <<files, running>>
    PROVE  ContentsInv'
<1>1. ServiceInv /\ [Next]_vars
  BY HostedStepImplements DEF Settled, RunningInv
<1>2. PICK n : n = Len(deployments)
  OBVIOUS
<1>3. ASSUME NEW w \in Workers, ReserveUnder(w) PROVE ContentsInv'
  <2>1. PICK m : m = n + 1
    OBVIOUS
  <2>2. Len(deployments') = m /\ deployments'[m].state = "created"
    BY <1>1, <1>2, <1>3, <2>1, ReservedRow
  <2>3. Contents(m, "created")'
    BY <1>2, <1>3, <2>1, ReservedContents
  <2>4. QED
    BY <2>2, <2>3 DEF ContentsInv
<1>4. ASSUME Len(deployments') = n, n \in Store!DeploymentIds
      PROVE  Contents(n, deployments[n].state)'
  <2>1. PICK s, g : s = deployments[n].state /\ g = deployments'[n].state
    OBVIOUS
  <2>2. FactsStay(n) /\ HistoryStays(n)
    BY <1>4, FactsKept, HistoryStay
  <2>3. Contents(n, s)
    BY <1>2, <1>4, <2>1 DEF HostInv, ContentsInv
  <2>4. ASSUME s = g PROVE Contents(n, g)'
    BY <2>2, <2>3, <2>4, ContentsStay
  <2>5. ASSUME NEW w \in Workers, Advance(w), worker[w].id = n, worker[w].goal = g
        PROVE  Contents(n, g)'
    <3>1. Contents(n, g)
      BY <2>5 DEF HostInv, KnownInv, Known, Advance
    <3>2. QED
      BY <2>2, <3>1, ContentsStay
  <2>6. ASSUME Store!RecoverDeployment(n, s), g = "failed" PROVE Contents(n, g)'
    <3>1. PICK i : i = [kind |-> "deployment", subject |-> n,
                        env |-> deployments[n].env,
                        status |-> Store!Disposition(s)]
      OBVIOUS
    <3>2. i \in incidents' /\ i.kind = "deployment" /\ i.subject = n
      BY <2>6, <3>1 DEF Store!RecoverDeployment, Store!InsertIncident
    <3>3. Store!HasIncident("deployment", n)'
      BY <3>2 DEF Store!HasIncident
    <3>4. QED
      BY <2>6, <3>3 DEF Contents, RollbackEligible
  <2>7. \/ s = g
        \/ \E w \in Workers : /\ Advance(w) /\ worker[w].id = n
                              /\ worker[w].goal = g
        \/ Store!RecoverDeployment(n, s) /\ g = "failed"
    BY <1>1, <1>4, <2>1, DeploymentFate
  <2>8. Contents(n, g)'
    BY <2>4, <2>5, <2>6, <2>7
  <2>9. QED
    BY <2>1, <2>8
<1>5. CASE Len(deployments') = n
  <2>1. UNCHANGED Store!DeploymentIds
    BY <1>2, <1>5 DEF Store!DeploymentIds
  <2>2. QED
    BY <1>4, <1>5, <2>1 DEF ContentsInv
<1>6. QED
  BY <1>2, <1>3, <1>5, LatestStays

(* And so does what the outcome of its rollback says.                      *)
LEMMA OutcomeStep ==
    ASSUME Settled, HostInv, [HostedNext]_hostedVars,
           UNCHANGED <<files, running>>
    PROVE  OutcomeInv'
<1>1. ServiceInv /\ [Next]_vars /\ SourcesReferenced
  BY HostedStepImplements DEF Settled, RunningInv, HostedInv
<1>2. ASSUME NEW o \in Store!OperationIds', operations'[o].state = "succeeded",
             NEW d, d = operations'[o].source, d = Len(deployments'), Bound(d)'
      PROVE  Restored(d)' /\ RunsBefore(d)'
  <2>1. o \in Store!OperationIds
    <3>1. ASSUME NEW w \in Workers, Begin(w), o = Len(operations) + 1
          PROVE  FALSE
      BY <1>1, <1>2, <3>1, BegunRow
    <3>2. QED
      BY <1>1, <1>2, <3>1, RowSteps, BegunRow
  <2>2. operations[o].source = d
    BY <1>1, <1>2, <2>1, RecordsStay, SameSets DEF P!RecordsKept
  <2>3. d \in Store!DeploymentIds
    BY <2>1, <2>2, OpenIsLast
  <2>4. d = Len(deployments)
    BY <1>2, <2>3, LatestStays
  <2>5. FactsStay(d) /\ HistoryStays(d) /\ references[d] # "none"
    BY <1>1, <2>1, <2>2, <2>3, FactsKept, HistoryStay DEF SourcesReferenced
  <2>6. Bound(d)
    BY <1>2, <2>5 DEF HistoryStays
  <2>7. Restored(d) /\ RunsBefore(d)
    <3>1. CASE operations'[o].state = operations[o].state
      BY <1>2, <2>1, <2>2, <2>4, <2>6, <3>1 DEF HostInv, OutcomeInv
    <3>2. ASSUME NEW w \in Workers, Settle(w), worker[w].id = o
          PROVE  Restored(d) /\ RunsBefore(d)
      <4>1. worker[w].outcome = "succeeded" /\ worker[w].pc = "settle"
        BY <1>1, <1>2, <2>1, <3>2, SettledReference DEF Settle
      <4>2. Known(worker[w])
        BY DEF HostInv, KnownInv
      <4>3. QED
        BY <2>2, <2>6, <3>2, <4>1, <4>2 DEF Known
    <3>3. Store!RecoverOperation(o) => operations'[o].state = "failed"
      BY <1>1, RecoveredOperation
    <3>4. QED
      BY <1>1, <1>2, <2>1, <3>1, <3>2, <3>3, OperationFate
  <2>8. QED
    BY <2>5, <2>7 DEF FactsStay
<1>3. QED
  BY <1>2 DEF OutcomeInv

(* Where a request that runs a record comes from. *)
LEMMA RunsFrom ==
    ASSUME ServiceInv, [HostedNext]_hostedVars, NEW w \in Workers,
           NEW u, u = worker[w], NEW t, t = worker'[w],
           Drives(t) \/ Operates(t)
    PROVE  \/ /\ ReserveUnder(w) /\ t.id = Len(deployments) + 1
              /\ Drives(t) /\ u.pc = "reserve"
           \/ Begin(w) /\ Operates(t)
           \/ /\ Drives(t) => Drives(u)
              /\ Operates(t) => Operates(u)
              /\ t.id = u.id
              /\ t.pc = "call" =>
                     t = u \/ (u.pc = "start" /\ CallOf(t) = CallOf(u))
<1>1. u \in Tasks /\ HostMoves(w, u, t)
  BY HostGoes DEF ServiceInv
<1>2. t # Idle /\ ~Quiet(t) /\ ~(Drives(t) /\ Operates(t))
  BY DEF Drives, Operates, Quiet, Idle
<1>3. CASE t = u
  BY <1>3
<1>4. ASSUME ReserveUnder(w), u.pc = "reserve",
             t = Moving(u.env, Len(deployments) + 1, "created", "prechecking")
      PROVE  Drives(t) /\ t.id = Len(deployments) + 1
  BY <1>4 DEF Moving, Drives
<1>5. ASSUME u.pc = "transition", t = AfterTransition(Home[w], u)
      PROVE  Drives(t) /\ Drives(u) /\ t.id = u.id /\ t.pc # "call"
  BY <1>2, <1>5 DEF AfterTransition, Returned, Recording, Idle, Quiet, Doing, Drives
<1>6. ASSUME u.pc = "start", t = [u EXCEPT !.pc = "call"]
      PROVE  /\ Drives(t) => Drives(u)
             /\ Operates(t) => Operates(u)
             /\ t.id = u.id
             /\ CallOf(t) = CallOf(u)
  <2>1. u \in [pc: {"start", "call"}, env: Environments, kind: RecordKind,
               id: Nat, act: Activity, tries: Nat]
    BY <1>1, <1>6 DEF Tasks, Idle
  <2>2. /\ t.pc = "call" /\ t.id = u.id /\ t.kind = u.kind
        /\ t.env = u.env /\ t.act = u.act
    BY <1>6, <2>1
  <2>3. QED
    BY <1>6, <2>2 DEF Drives, Operates, CallOf
<1>7. ASSUME u.pc = "call", NEW result \in {"ok", "failed"},
             t = AfterReply(u, result)
      PROVE  /\ Drives(t) => Drives(u)
             /\ Operates(t) => Operates(u)
             /\ t.id = u.id /\ t.pc # "call"
  BY <1>1, <1>7, AfterReplyCases
  DEF Finishing, Doing, Settling, Drives, Operates
<1>8. ASSUME u.pc = "call", u.kind = "deployment", t = Finishing(u, "timeout")
      PROVE  Drives(t) /\ Drives(u) /\ t.id = u.id /\ t.pc # "call"
  BY <1>8 DEF Finishing, Drives
<1>9. ASSUME u.pc = "finish", t = AfterAttempt(Home[w], u)
      PROVE  Drives(t) /\ Drives(u) /\ t.id = u.id /\ t.pc # "call"
  BY <1>1, <1>2, <1>9, AfterAttemptCases DEF Doing, Moving, Drives
<1>10. ASSUME t = Doing("start", u.env, "rollback_operation",
                        Len(operations) + 1, "preflight", 1)
       PROVE  Operates(t)
  BY <1>10 DEF Doing, Operates
<1>11. QED
  BY <1>1, <1>2, <1>3, <1>4, <1>5, <1>6, <1>7, <1>8, <1>9, <1>10 DEF HostMoves

(* A running deployment stays under the contract it was reserved under:    *)
(* the process that runs it does not load another configuration.           *)
LEMMA ConfigStep ==
    ASSUME ServiceInv, Served, HostedInv, ConfigInv, [HostedNext]_hostedVars
    PROVE  ConfigInv'
<1>1. ColumnsTyped /\ files \in [Paths -> Bytes]
  BY DEF HostedInv, HostTyped
<1>2. ASSUME NEW w \in Workers, Drives(worker[w])'
      PROVE  ConfigOf(w)' = madeUnder'[worker'[w].id]
  <2>1. PICK u, t : u = worker[w] /\ t = worker'[w] /\ u \in Tasks
    BY DEF ServiceInv
  <2>2. Drives(t) /\ ~Operates(t) /\ t # Idle
    BY <1>2, <2>1 DEF Drives, Operates, Idle
  <2>3. ConfigOf(w)' = ConfigOf(w)
    BY <1>1, <2>1, <2>2, ConfigKept DEF ColumnsTyped
  <2>4. CASE ReserveUnder(w) /\ t.id = Len(deployments) + 1
    BY <1>1, <2>1, <2>3, <2>4, ReservedColumns
  <2>5. CASE Drives(u) /\ t.id = u.id
    <3>1. u.id \in Store!DeploymentIds
      BY <2>1, <2>5 DEF ServiceInv, RecordOK, Names
    <3>2. madeUnder'[u.id] = madeUnder[u.id]
      BY <1>1, <3>1, ColumnsKept
    <3>3. QED
      BY <2>1, <2>3, <2>5, <3>2 DEF ConfigInv
  <2>6. QED
    BY <1>1, <2>1, <2>2, <2>4, <2>5, RunsFrom
<1>3. QED
  BY <1>2 DEF ConfigInv, Drives

(* A call that stays under way is known as before: it is of the latest     *)
(* deployment, and nobody comes to wait for it.                            *)
LEMMA CallStays ==
    ASSUME Settled, HostInv, [HostedNext]_hostedVars,
           UNCHANGED <<files, running>>, NEW r \in remote
    PROVE  RemoteOK(Len(deployments), r)'
<1>1. PICK n : n = Len(deployments)
  OBVIOUS
<1>2. ServiceInv /\ r.call \in inflight /\ RemoteOK(n, r) /\ RemoteTyped(r)
  BY <1>1 DEF Settled, RunningInv, HostedInv, HostTyped, HostInv, RemoteInv
<1>3. /\ n \in Store!DeploymentIds /\ r.call.kind \in RecordKind
      /\ r.call.kind = "rollback_operation" => references[n] = "active"
  BY <1>1, <1>2, CallIsLast
<1>4. ASSUME NEW w \in Workers PROVE ~ReserveUnder(w)
  BY <1>2, NothingRunsAtReserve DEF ReserveUnder
<1>5. Len(deployments') = n
  BY <1>1, <1>4, LatestStays
<1>6. /\ FactsStay(n) /\ HistoryStays(n)
      /\ madeUnder'[n] = madeUnder[n]
      /\ deployments'[n].release = deployments[n].release
  BY <1>3, FactsKept, HistoryStay, ColumnsStay
<1>7. Effect(n, r.call.act)' <=> Effect(n, r.call.act)
  <2>1. PICK a : a = r.call.act
    OBVIOUS
  <2>2. Effect(n, a)' <=> Effect(n, a)
    BY <1>6, EffectsStay
  <2>3. QED
    BY <2>1, <2>2
<1>8. ASSUME Awaited(r.call)' PROVE Awaited(r.call)
  <2>1. PICK w \in Workers : worker'[w].pc = "call" /\ CallOf(worker'[w]) = r.call
    BY <1>8 DEF Awaited
  <2>2. PICK u, t : u = worker[w] /\ t = worker'[w] /\ u \in Tasks /\ t \in Tasks
    BY <1>2, HostedStepImplements, WorkersStep DEF ServiceInv
  <2>3. Drives(t) \/ Operates(t)
    BY <2>1, <2>2, TaskFields DEF Drives, Operates, RecordKind
  <2>4. ~Begin(w)
    BY <1>2, <2>1, ActsMove DEF Begin, GoTo, ServiceInv, Doing
  <2>5. t = u \/ (u.pc = "start" /\ CallOf(t) = CallOf(u))
    <3>1. t.pc = "call" /\ ~ReserveUnder(w)
      BY <1>4, <2>1, <2>2
    <3>2. QED
      BY <1>2, <2>2, <2>3, <2>4, <3>1, RunsFrom
  <2>6. CASE u.pc = "start"
    <3>1. Drives(u) \/ Operates(u)
      BY <2>2, <2>6, TaskFields DEF Drives, Operates, RecordKind
    <3>2. inflight = {}
      BY <2>2, <2>6, <3>1, NothingRuns
    <3>3. QED
      BY <1>2, <3>2
  <2>7. QED
    BY <2>1, <2>2, <2>5, <2>6 DEF Awaited
<1>9. Bound(n)' /\ r.call.kind # "deployment" => Bound(n)
  BY <1>3, <1>6 DEF HistoryStays, RecordKind
<1>10. Answerable(n, r)' => Answerable(n, r)
  BY <1>6, <1>8 DEF Answerable, TransferAccepted
<1>11. RemoteOK(n, r)'
  BY <1>2, <1>6, <1>7, <1>9, <1>10 DEF RemoteOK
<1>12. QED
  BY <1>5, <1>11

(* A request makes a call when none is under way, and it is one of the     *)
(* contract of the latest deployment.                                      *)
LEMMA CallMadeOK ==
    ASSUME Settled, HostInv, [HostedNext]_hostedVars, NEW w \in Workers,
           IssueCall(w), worker[w].act \in Mutating, NEW b,
           NEW r, r = [call |-> CallOf(worker[w]), made |-> CallMade(w),
                       bytes |-> b, progress |-> "sent"]
    PROVE  remote = {} /\ RemoteOK(Len(deployments), r)'
<1>1. PICK n, u : n = Len(deployments) /\ u = worker[w]
  OBVIOUS
<1>2. ServiceInv /\ ColumnsTyped /\ RollbackActs /\ Served
      /\ files \in [Paths -> Bytes]
  BY DEF Settled, RunningInv, HostedInv, HostTyped
<1>3. u.pc = "start" /\ u \in Tasks /\ u.kind \in RecordKind
      /\ (Drives(u) \/ Operates(u))
  BY <1>1, <1>2, TaskFields
  DEF IssueCall, StartCall, ServiceInv, Drives, Operates, RecordKind
<1>4. remote = {}
  <2>1. inflight = {}
    BY <1>1, <1>3, NothingRuns
  <2>2. QED
    BY <2>1 DEF Settled, HostedInv, HostTyped
<1>5. UNCHANGED <<boundTo, madeUnder>> /\ Len(deployments') = n
  <2>1. UNCHANGED <<boundTo, madeUnder>>
    BY DEF IssueCall, configVars
  <2>2. ColumnsTyped'
    BY <1>2, ColumnsKept
  <2>3. QED
    BY <1>1, <1>2, <2>1, <2>2 DEF ColumnsTyped
<1>6. /\ u.kind = "deployment" => ConfigOf(w) = madeUnder[n]
      /\ u.kind = "rollback_operation" => operations[u.id].source = n
  <2>1. /\ u.kind = "deployment" => Drives(u) /\ u.id = n
        /\ u.kind = "rollback_operation" => operations[u.id].source = n
    BY <1>1, <1>3, TaskIsLast DEF Drives, Operates
  <2>2. QED
    BY <1>1, <2>1 DEF HostInv, ConfigInv
<1>7. /\ r.call.kind = u.kind /\ r.call.act = u.act
      /\ r.made = CallMade(w) /\ r.progress = "sent"
  BY <1>1 DEF CallOf
<1>8. PICK c : c = madeUnder[n]
  OBVIOUS
<1>9. u.kind = "rollback_operation" => u.act \in RollbackAct
  BY <1>1, <1>2, <1>3 DEF RollbackActs
<1>10. u.kind = "deployment" \/ Bound(n) => CallMade(w) = CallUnder(c, u.act)
  <2>1. u.kind = "deployment" => CallMade(w) = CallUnder(c, u.act)
    BY <1>1, <1>6, <1>8, CallMadeUnder
  <2>2. ASSUME u.kind = "rollback_operation", Bound(n)
        PROVE  CallMade(w) = CallUnder(c, u.act)
    <3>1. ReferenceOf(u) = ReferenceFor(c)
      BY <1>6, <1>8, <2>2 DEF ReferenceOf, Bound
    <3>2. QED
      BY <1>1, <1>9, <2>2, <3>1, CallMadeUnder
  <2>3. QED
    BY <1>3, <2>1, <2>2 DEF RecordKind
<1>11. RemoteOK(n, r)'
  <2>1. (Bound(n)' <=> Bound(n)) /\ madeUnder'[n] = c
    BY <1>5, <1>8 DEF Bound
  <2>2. ~Answerable(n, r)'
    BY <1>7 DEF Answerable
  <2>3. QED
    BY <1>3, <1>7, <1>9, <1>10, <2>1, <2>2 DEF RemoteOK, RecordKind
<1>12. QED
  BY <1>4, <1>5, <1>11

(* What is known of the calls under way stays true.                        *)
LEMMA RemoteStep ==
    ASSUME Settled, HostInv, [HostedNext]_hostedVars,
           \A r \in remote : ~BeginEffect(r) /\ ~CompleteEffect(r)
    PROVE  RemoteInv' /\ UNCHANGED <<files, running>>
<1>1. \A q, r \in remote : q = r
  BY DEF HostInv, RemoteInv
<1>2. ASSUME remote' \subseteq remote, UNCHANGED <<files, running>>
      PROVE  RemoteInv'
  BY <1>1, <1>2, CallStays DEF RemoteInv
<1>3. ASSUME NEW w \in Workers, NEW b, IssueCall(w), worker[w].act \in Mutating,
             remote' = remote \cup
                 {[call |-> CallOf(worker[w]), made |-> CallMade(w),
                   bytes |-> b, progress |-> "sent"]}
      PROVE  RemoteInv'
  <2>1. PICK r : r = [call |-> CallOf(worker[w]), made |-> CallMade(w),
                      bytes |-> b, progress |-> "sent"]
    OBVIOUS
  <2>2. remote = {} /\ RemoteOK(Len(deployments), r)'
    BY <1>3, <2>1, CallMadeOK
  <2>3. remote' = {r}
    BY <1>3, <2>1, <2>2
  <2>4. QED
    BY <2>2, <2>3 DEF RemoteInv
<1>4. QED
  BY <1>2, <1>3, RemoteSteps

(* What a request relies on stays true while it stands where it stood.     *)
LEMMA KnownCarries ==
    ASSUME Settled, [HostedNext]_hostedVars, UNCHANGED <<files, running>>,
           NEW t \in Tasks, RecordOK(t), Known(t)
    PROVE  Known(t)'
<1>1. ServiceInv /\ [Next]_vars /\ SourcesReferenced
  BY HostedStepImplements DEF Settled, RunningInv, HostedInv
<1>2. ASSUME NEW d \in Store!DeploymentIds
      PROVE  /\ \A s : Contents(d, s) => Contents(d, s)'
             /\ \A a : Effect(d, a) => Effect(d, a)'
             /\ \A a : Recovered(d, a) => Recovered(d, a)'
             /\ Restored(d) /\ RunsBefore(d) => Restored(d)' /\ RunsBefore(d)'
  <2>1. FactsStay(d) /\ HistoryStays(d)
    BY <1>2, FactsKept, HistoryStay
  <2>2. QED
    BY <2>1, ContentsStay, EffectsStay DEF FactsStay
<1>3. CASE Drives(t)
  <2>1. t.id \in Store!DeploymentIds
    BY <1>3 DEF RecordOK, Names
  <2>2. t.pc \in {"start", "call"} => t.kind = "deployment"
    BY <1>3 DEF Drives
  <2>3. t.pc # "settle"
    BY <1>3 DEF Drives
  <2>4. QED
    BY <1>2, <2>1, <2>2, <2>3 DEF Known, Subject
<1>4. CASE Operates(t)
  <2>1. t.id \in Store!OperationIds
    BY <1>4 DEF RecordOK
  <2>2. PICK d : d = operations[t.id].source
    OBVIOUS
  <2>3. /\ d \in Store!DeploymentIds
        /\ references[d] # "none"
        /\ operations'[t.id].source = d
    BY <1>1, <2>1, <2>2, OpenIsLast, RecordsStay, SameSets
    DEF P!RecordsKept, SourcesReferenced
  <2>4. Bound(d)' => Bound(d)
    BY <2>3, HistoryStay DEF HistoryStays
  <2>5. t.pc \in {"start", "call"} => t.kind = "rollback_operation"
    BY <1>4 DEF Operates
  <2>6. t.pc \notin {"transition", "finish"}
    BY <1>4 DEF Operates
  <2>7. QED
    BY <1>2, <2>2, <2>3, <2>4, <2>5, <2>6 DEF Known, Subject
<1>5. CASE ~Drives(t) /\ ~Operates(t)
  <2>1. t.pc \notin {"transition", "finish", "start", "call", "settle"}
    BY <1>5, TaskFields DEF Drives, Operates, RecordKind
  <2>2. QED
    BY <2>1 DEF Known
<1>6. QED
  BY <1>3, <1>4, <1>5

(* An accepted answer to a call means that it has brought about its effect. *)
LEMMA AnswerTells ==
    ASSUME Settled, HostInv, NEW w \in Workers, Answer(w, "ok"),
           NEW n, n = Len(deployments),
           worker[w].kind = "deployment" \/ Bound(n)
    PROVE  Effect(n, worker[w].act)
<1>1. PICK u, a : u = worker[w] /\ a = u.act
  OBVIOUS
<1>2. u.pc = "call" /\ Achieved(w)
  BY <1>1 DEF Answer, Reply
<1>3. CASE a \in Mutating
  <2>1. PICK r \in remote : /\ r.call = CallOf(u) /\ r.progress = "done"
                            /\ a = "stage" => TransferAccepted(u.id, r.bytes)
    BY <1>1, <1>2, <1>3 DEF Achieved, Mutating
  <2>2. RemoteOK(n, r) /\ RemoteTyped(r)
    BY DEF HostInv, RemoteInv, Settled, HostedInv, HostTyped
  <2>3. r.call.kind = u.kind /\ r.call.act = a
    BY <1>1, <2>1 DEF CallOf
  <2>4. Awaited(r.call)
    BY <1>1, <1>2, <2>1 DEF Awaited
  <2>5. a = "stage" /\ u.kind = "deployment" => u.id = n
    BY <1>1, <1>2, TaskIsLast DEF Drives
  <2>6. a = "stage" => u.kind = "deployment"
    <3>1. u.kind \in RecordKind
      BY <1>1, <1>2, TaskFields DEF Settled, RunningInv, ServiceInv
    <3>2. QED
      BY <1>1, <1>2, <3>1 DEF Settled, HostedInv, RollbackActs, RollbackAct,
         RecordKind
  <2>7. Answerable(n, r)
    BY <2>1, <2>3, <2>4, <2>5, <2>6 DEF Answerable
  <2>8. QED
    BY <1>1, <2>2, <2>3, <2>7 DEF RemoteOK
<1>4. CASE a \notin Mutating
  BY <1>1, <1>4 DEF Effect, Mutating
<1>5. QED
  BY <1>3, <1>4

(* What an attempt with its outcome lets the request rely on next. *)
LEMMA AttemptTells ==
    ASSUME Settled, HostInv, NEW w \in Workers, worker[w].pc = "finish"
    PROVE  Known(AfterAttempt(Home[w], worker[w]))
<1>1. PICK u, n, s : u = worker[w] /\ n = u.id /\ s = StateDuring[u.act]
  OBVIOUS
<1>2. u \in Tasks /\ u.act \in Activity /\ Drives(u) /\ u.pc = "finish"
      /\ u.env \in Environments
  BY <1>1, TaskFields DEF Settled, RunningInv, ServiceInv, Drives
<1>3. n = Len(deployments) /\ n \in Store!DeploymentIds /\ deployments[n].state = s
  BY <1>1, <1>2, TaskIsLast
<1>4. Contents(n, s)
  BY <1>1, <1>3 DEF HostInv, ContentsInv
<1>5. (u.result = "ok" => Effect(n, u.act)) /\ Recovered(n, u.act)
  BY <1>1, <1>2 DEF HostInv, KnownInv, Known
<1>6. \A e, k, a : Known(Doing("start", e, "deployment", n, a, k))
                       <=> Recovered(n, a)
  BY DEF Doing, Known, Subject
<1>7. \A e, m, g : Known(Moving(e, n, m, g)) <=> Contents(n, g)
  BY DEF Moving, Known
<1>8. ASSUME u.result = "ok", NEW a, a = FollowsWithin(Home[w], u.env, u.act),
              a # "none"
      PROVE  Recovered(n, a)
  BY <1>5, <1>8 DEF FollowsWithin, Effect, Recovered
<1>9. ASSUME u.result = "ok", FollowsWithin(Home[w], u.env, u.act) = "none"
      PROVE  Contents(n, StateAfter[s])
  <2>1. Effect(n, u.act) /\ Recovered(n, u.act)
    BY <1>5, <1>9
  <2>2. u.act \in {"preflight", "precheck", "stage", "backup", "install",
                   "restart", "verify", "reverify"}
    BY <1>2, <1>9 DEF Activity, FollowsWithin
  <2>3. CASE u.act \in {"preflight", "precheck"}
    BY <1>1, <1>4, <2>3 DEF StateDuring, StateAfter, Contents, RollbackEligible
  <2>4. CASE u.act \in {"stage", "backup"}
    BY <1>1, <1>4, <2>1, <2>4
    DEF StateDuring, StateAfter, Contents, Effect, RollbackEligible
  <2>5. CASE u.act \in {"install", "restart"}
    BY <1>1, <1>4, <2>1, <2>5
    DEF StateDuring, StateAfter, Contents, Effect, RollbackEligible
  <2>6. CASE u.act = "verify"
    BY <1>1, <1>4, <2>6 DEF StateDuring, StateAfter, Contents, RollbackEligible
  <2>7. CASE u.act = "reverify"
    BY <1>1, <2>1, <2>7
    DEF StateDuring, StateAfter, Contents, Recovered, RollbackEligible
  <2>8. QED
    BY <2>2, <2>3, <2>4, <2>5, <2>6, <2>7
<1>10. ASSUME u.act \in Recovering PROVE Contents(n, "rollback_failed")
  BY <1>1, <1>4, <1>10 DEF Recovering, StateDuring, Contents, RollbackEligible
<1>11. ASSUME u.act \in {"install", "restart", "verify"}
       PROVE  Contents(n, "rolling_back")
  BY <1>1, <1>4, <1>11 DEF StateDuring, Contents, RollbackEligible
<1>12. ASSUME u.act \notin Recovering,
              \/ u.act \in {"preflight", "precheck", "stage", "backup"}
              \/ u.env \notin RollbackConfigured[Home[w]]
       PROVE  Contents(n, "failed")
  <2>1. CASE u.act \in {"preflight", "precheck", "stage", "backup"}
    BY <1>1, <1>4, <2>1 DEF StateDuring, Contents, RollbackEligible
  <2>2. CASE /\ u.act \in {"install", "restart", "verify"}
             /\ u.env \notin RollbackConfigured[Home[w]]
    <3>1. ConfigOf(w) = madeUnder[n] /\ ConfigSupplied
      BY <1>1, <1>2 DEF HostInv, ConfigInv, Settled, HostedInv
    <3>2. ~RollsBack(n)
      BY <1>2, <2>2, <3>1, SuppliedTasks DEF RollsBack
    <3>3. BackedUp(n)
      BY <1>1, <1>4, <2>2 DEF StateDuring, Contents
    <3>4. QED
      BY <3>2, <3>3 DEF Contents, RollbackEligible
  <2>3. QED
    BY <1>2, <1>12, <2>1, <2>2 DEF Activity, Recovering
<1>13. Known(Idle)
  BY DEF Known, Idle
<1>14. QED
  BY <1>1, <1>2, <1>5, <1>6, <1>7, <1>8, <1>9, <1>10, <1>11, <1>12, <1>13,
     AfterAttemptDetail

(* So does an answer. *)
LEMMA ReplyTells ==
    ASSUME Settled, HostInv, NEW w \in Workers, NEW result \in {"ok", "failed"},
           Answer(w, result)
    PROVE  Known(AfterReply(worker[w], result))
<1>1. PICK u, n, d : u = worker[w] /\ n = Len(deployments)
                     /\ d = Subject(u.kind, u.id)
  OBVIOUS
<1>2. u \in Tasks /\ u.pc = "call" /\ u.kind \in RecordKind
      /\ (Drives(u) \/ Operates(u))
  BY <1>1, TaskFields
  DEF Answer, Reply, Settled, RunningInv, ServiceInv, Drives, Operates, RecordKind
<1>3. /\ d = n
      /\ u.kind = "deployment" => u.id = n
      /\ u.kind = "rollback_operation" => operations[u.id].source = n
  BY <1>1, <1>2, TaskIsLast DEF Subject, Drives, Operates, RecordKind
<1>4. /\ u.kind = "deployment" \/ Bound(n) => Recovered(n, u.act)
      /\ (u.kind = "deployment" \/ Bound(n)) /\ result = "ok"
             => Effect(n, u.act)
  <2>1. u.kind = "deployment" \/ Bound(n) => Recovered(n, u.act)
    BY <1>1, <1>2, <1>3 DEF HostInv, KnownInv, Known
  <2>2. QED
    BY <1>1, <2>1, AnswerTells
<1>5. CASE u.kind = "deployment"
  <2>1. PICK t : t = Finishing(u, result)
    OBVIOUS
  <2>2. t.pc = "finish" /\ t.id = n /\ t.act = u.act /\ t.result = result
    BY <1>3, <1>5, <2>1 DEF Finishing
  <2>3. Known(t)
    BY <1>4, <1>5, <2>2 DEF Known
  <2>4. QED
    BY <1>1, <1>5, <2>1, <2>3 DEF AfterReply
<1>6. CASE u.kind = "rollback_operation"
  <2>1. \A e, k, a : (Bound(n) => Recovered(n, a))
                         => Known(Doing("start", e, u.kind, u.id, a, k))
    BY <1>3, <1>6 DEF Doing, Known, Subject
  <2>2. \A e, x : (x = "succeeded" /\ Bound(n) => Restored(n) /\ RunsBefore(n))
                      => Known(Settling(e, u.id, x))
    BY <1>3, <1>6 DEF Settling, Known
  <2>3. ASSUME result = "ok", Bound(n),
               NEW a, a = FollowsInRollback(u.act), a # "none"
        PROVE  Recovered(n, a)
    BY <1>4, <2>3 DEF FollowsInRollback, Effect, Recovered
  <2>4. ASSUME result = "ok", Bound(n), FollowsInRollback(u.act) = "none"
        PROVE  Restored(n) /\ RunsBefore(n)
    <3>1. u.act \in RollbackAct
      BY <1>1, <1>2, <1>6 DEF Settled, HostedInv, RollbackActs
    <3>2. u.act = "reverify"
      BY <2>4, <3>1 DEF FollowsInRollback, RollbackAct
    <3>3. QED
      BY <1>4, <2>4, <3>2 DEF Recovered
  <2>5. QED
    BY <1>1, <1>2, <1>4, <1>6, <2>1, <2>2, <2>3, <2>4, AfterRollbackReply
<1>7. QED
  BY <1>2, <1>5, <1>6 DEF RecordKind

(* What the requests rely on is true after every step.                     *)
LEMMA KnownStep ==
    ASSUME Settled, HostInv, [HostedNext]_hostedVars,
           UNCHANGED <<files, running>>
    PROVE  KnownInv'
<1>1. ServiceInv /\ [Next]_vars
  BY HostedStepImplements DEF Settled, RunningInv
<1>2. ASSUME NEW w \in Workers PROVE Known(worker[w])'
  <2>1. PICK u, t : u = worker[w] /\ t = worker'[w] /\ u \in Tasks /\ t \in Tasks
    BY <1>1, WorkersStep DEF ServiceInv
  <2>2. HostMoves(w, u, t) /\ Known(u) /\ RecordOK(u)
    BY <1>1, <2>1, HostGoes DEF HostInv, KnownInv, ServiceInv
  <2>3. \A x \in Tasks : Names(x) \/ Operates(x) => x # Idle
    BY DEF Names, Drives, Operates, Idle
  <2>4. ASSUME Known(t), Drives(t) => Drives(u), Operates(t) => Operates(u),
               t.id = u.id
        PROVE  Known(t)'
    <3>1. CASE Drives(t) \/ Operates(t)
      <4>1. t.pc \notin {"record", "reference", "acquire", "begin"}
        BY <3>1 DEF Drives, Operates
      <4>2. Names(t) => Names(u)
        BY <2>4, <4>1 DEF Names
      <4>3. t.env = u.env
        <5>1. RecordOK(u) /\ RecordOK(t)' /\ Served
          BY <1>1, <2>1, <2>2, WorkersStep DEF Settled, RunningInv, RecordOK,
             Names, Drives, Operates, Store!DeploymentIds, Store!OperationIds
        <5>2. t.env \in Environments /\ u.env \in Environments
          BY <2>1, <2>3, <2>4, <3>1, TaskFields DEF Names, Idle
        <5>3. QED
          BY <5>2, TargetAssumption
      <4>4. RecordOK(t)
        BY <2>2, <2>4, <4>2, <4>3 DEF RecordOK
      <4>5. QED
        BY <2>1, <2>4, <4>4, KnownCarries
    <3>2. CASE ~Drives(t) /\ ~Operates(t)
      <4>1. t.pc \notin {"transition", "finish", "start", "call", "settle"}
        BY <2>1, <3>2, TaskFields DEF Drives, Operates, RecordKind
      <4>2. QED
        BY <4>1 DEF Known
    <3>3. QED
      BY <3>1, <3>2
  <2>5. ASSUME Quiet(t) PROVE Known(t)'
    BY <2>5 DEF Known, Quiet
  <2>6. ASSUME ReserveUnder(w) PROVE Known(t)'
    <3>1. PICK m : m = Len(deployments) + 1
      OBVIOUS
    <3>2. Contents(m, "prechecking")'
      BY <2>6, <3>1, ReservedContents
    <3>3. t = Moving(u.env, m, "created", "prechecking")
      BY <1>1, <2>1, <2>6, <3>1 DEF ReserveUnder, Reserve, GoTo, ServiceInv
    <3>4. t.pc = "transition" /\ t.id = m /\ t.goal = "prechecking"
      BY <3>3 DEF Moving
    <3>5. QED
      BY <3>2, <3>4 DEF Known
  <2>7. ASSUME Begin(w) PROVE Known(t)'
    <3>1. t = Doing("start", u.env, "rollback_operation",
                    Len(operations) + 1, "preflight", 1)
      BY <1>1, <2>1, <2>7 DEF Begin, GoTo, ServiceInv
    <3>2. t.pc = "start" /\ t.act = "preflight"
      BY <3>1 DEF Doing
    <3>3. QED
      BY <3>2 DEF Known, Recovered
  <2>8. ASSUME t = u PROVE Known(t)'
    BY <2>2, <2>4, <2>8
  <2>9. ASSUME ~Quiet(t), ~ReserveUnder(w), ~Begin(w), t # u PROVE Known(t)
    <3>1. ASSUME Advance(w), u.pc = "transition", t = AfterTransition(Home[w], u)
          PROVE  Known(t)
      <4>1. u.goal \notin Terminal
        BY <2>9, <3>1 DEF AfterTransition, Returned, Recording, Idle, Quiet
      <4>2. t = Doing("start", u.env, "deployment", u.id, FirstActivity[u.goal], 1)
        BY <3>1, <4>1 DEF AfterTransition
      <4>3. <<u.mem, u.goal>> \in CanTransition
        BY <1>1, <2>1, <3>1, AdvancedRow
      <4>4. u.goal \in NonTerminal \ {"created"}
        BY <2>1, <3>1, <4>1, <4>3, AfterTransitionCases
      <4>5. t.pc = "start" /\ t.act = FirstActivity[u.goal]
        BY <4>2 DEF Doing
      <4>6. t.act \notin {"reactivate", "reverify"}
        BY <4>4, <4>5 DEF FirstActivity, NonTerminal, DeploymentState, Terminal
      <4>7. QED
        BY <4>5, <4>6 DEF Known, Recovered
    <3>2. ASSUME u.pc = "start", t = [u EXCEPT !.pc = "call"] PROVE Known(t)
      <4>1. u \in [pc: {"start", "call"}, env: Environments, kind: RecordKind,
                   id: Nat, act: Activity, tries: Nat]
        BY <2>1, <3>2 DEF Tasks, Idle
      <4>2. t.pc = "call" /\ t.id = u.id /\ t.kind = u.kind /\ t.act = u.act
        BY <3>2, <4>1
      <4>3. QED
        BY <2>2, <3>2, <4>2 DEF Known
    <3>3. ASSUME NEW result \in {"ok", "failed"}, Answer(w, result),
                 t = AfterReply(u, result)
          PROVE  Known(t)
      BY <2>1, <3>3, ReplyTells
    <3>4. ASSUME u.pc = "call", u.kind = "deployment", t = Finishing(u, "timeout")
          PROVE  Known(t)
      <4>1. t.pc = "finish" /\ t.id = u.id /\ t.act = u.act /\ t.result = "timeout"
        BY <3>4 DEF Finishing
      <4>2. QED
        BY <2>2, <3>4, <4>1 DEF Known, Subject
    <3>5. ASSUME u.pc = "finish", t = AfterAttempt(Home[w], u) PROVE Known(t)
      BY <2>1, <3>5, AttemptTells
    <3>6. QED
      BY <2>2, <2>9, <3>1, <3>2, <3>3, <3>4, <3>5 DEF HostMoves
  <2>10. Known(t)'
    <3>1. ASSUME ~Quiet(t), ~ReserveUnder(w), ~Begin(w), t # u PROVE Known(t)'
      <4>1. CASE Drives(t) \/ Operates(t)
        BY <1>1, <2>1, <2>2, <2>4, <2>9, <3>1, <4>1, RunsFrom
      <4>2. CASE ~Drives(t) /\ ~Operates(t)
        BY <2>1, <4>2, TaskFields DEF Drives, Operates, RecordKind, Known
      <4>3. QED
        BY <4>1, <4>2
    <3>2. QED
      BY <2>5, <2>6, <2>7, <2>8, <3>1
  <2>11. QED
    BY <2>1, <2>10 DEF Known
<1>3. QED
  BY <1>2 DEF KnownInv

(* It holds at first.                                                      *)
LEMMA HostInvInit == HostedInit => HostInv
<1> SUFFICES ASSUME HostedInit PROVE HostInv
  OBVIOUS
<1>1. /\ deployments = <<>> /\ operations = <<>> /\ remote = {}
      /\ worker = [w \in Workers |-> Idle]
  BY DEF HostedInit, Init, Store!Init
<1>2. Store!DeploymentIds = {} /\ Store!OperationIds = {}
  BY <1>1 DEF Store!DeploymentIds, Store!OperationIds
<1>3. \A w \in Workers : worker[w].pc = "idle"
  BY <1>1 DEF Idle
<1>4. RemoteInv /\ ContentsInv /\ OutcomeInv
  BY <1>1, <1>2 DEF RemoteInv, ContentsInv, OutcomeInv
<1>5. KnownInv /\ ConfigInv
  BY <1>3 DEF KnownInv, Known, ConfigInv, Drives
<1>6. QED
  BY <1>4, <1>5 DEF HostInv

(* It holds after every step.                                              *)
LEMMA HostInvStep ==
    ASSUME Settled, HostInv, [HostedNext]_hostedVars PROVE HostInv'
<1>1. ASSUME NEW r \in remote, BeginEffect(r) \/ CompleteEffect(r)
      PROVE  HostInv'
  BY <1>1, EffectOnHost
<1>2. ASSUME \A r \in remote : ~BeginEffect(r) /\ ~CompleteEffect(r)
      PROVE  HostInv'
  <2>1. RemoteInv' /\ UNCHANGED <<files, running>>
    BY <1>2, RemoteStep
  <2>2. ConfigInv'
    BY ConfigStep DEF HostInv, Settled, RunningInv
  <2>3. KnownInv' /\ ContentsInv' /\ OutcomeInv'
    BY <2>1, KnownStep, ContentsStep, OutcomeStep
  <2>4. QED
    BY <2>1, <2>2, <2>3 DEF HostInv
<1>3. QED
  BY <1>1, <1>2

(* It holds always.                                                        *)
LEMMA HostInvCorrect ==
    ASSUME SingleInstance PROVE HostedSpec => [](Settled /\ HostInv)
<1>1. Settled /\ HostInv /\ [HostedNext]_hostedVars => HostInv'
  BY HostInvStep
<1>2. QED
  BY <1>1, HostInvInit, SettledCorrect, PTL DEF HostedSpec
-----------------------------------------------------------------------------
(* The properties of the target. *)

(* In every state, from what is known of the latest deployment.            *)
LEMMA TargetAsTold ==
    ASSUME Settled, HostInv
    PROVE  /\ LiveOfRecordedSize /\ FailureLosesNothing
           /\ ReferenceOfItsContract => BackupKept /\ RollbackRestoresPrevious
<1>1. ServiceInv
  BY DEF Settled, RunningInv
<1>2. ASSUME NEW d \in Store!DeploymentIds, Newest(d)
      PROVE  d = Len(deployments) /\ Contents(d, deployments[d].state)
  <2>1. d = Len(deployments)
    BY <1>1, <1>2, LastIsLatest
  <2>2. QED
    BY <2>1 DEF HostInv, ContentsInv
<1>3. LiveOfRecordedSize
  <2>1. ASSUME NEW d \in Store!DeploymentIds, deployments[d].state = "succeeded",
               Newest(d), RolledBackBy(d) = {}, ApartUnder(d)
        PROVE  \E b \in OfSize(d) : HoldsAndRuns(d, b)
    <3>1. Installed(d) /\ Runs(d)
      BY <1>2, <2>1 DEF Contents
    <3>2. QED
      BY <2>1, <3>1 DEF HoldsAndRuns, Installed, Runs
  <2>2. QED
    BY <2>1 DEF LiveOfRecordedSize
<1>4. FailureLosesNothing
  <2>1. ASSUME NEW d \in Store!DeploymentIds, deployments[d].state = "rolled_back",
               Newest(d), ApartUnder(d)
        PROVE  HoldsAndRuns(d, before[d])
    <3>1. Restored(d) /\ RunsBefore(d)
      BY <1>2, <2>1 DEF Contents
    <3>2. QED
      BY <2>1, <3>1 DEF HoldsAndRuns, Restored, RunsBefore
  <2>2. ASSUME NEW d \in Store!DeploymentIds, deployments[d].state = "failed",
               \A i \in incidents : i.kind = "deployment" => i.subject # d,
               Newest(d), ApartUnder(d)
        PROVE  \/ files[madeUnder[d].install_path] = before[d]
               \/ /\ madeUnder[d].tasks.rollback = NotConfigured
                  /\ files[madeUnder[d].backup_path] = before[d]
    <3>1. ~Store!HasIncident("deployment", d)
      BY <2>2 DEF Store!HasIncident
    <3>2. Restored(d) \/ (~RollsBack(d) /\ BackedUp(d))
      BY <1>2, <2>2, <3>1 DEF Contents
    <3>3. QED
      BY <2>2, <3>2 DEF Restored, RollsBack, BackedUp
  <2>3. QED
    BY <2>1, <2>2 DEF FailureLosesNothing
<1>5. ASSUME ReferenceOfItsContract, NEW d \in Store!DeploymentIds,
             references[d] # "none"
      PROVE  Bound(d)
  BY <1>5 DEF ReferenceOfItsContract, Bound, Settled, HostedInv, ReferencesBound
<1>6. ASSUME ReferenceOfItsContract PROVE BackupKept
  <2>1. ASSUME NEW d \in Store!DeploymentIds, references[d] = "active",
               Store!EligibleSource(d), ApartUnder(d)
        PROVE  files[boundTo[d].snapshot.backup_path] = before[d]
    <3>1. Newest(d) /\ deployments[d].state \in RollbackEligible
      BY <2>1, SameSets, P!Rows DEF Store!EligibleSource, Store!IsLatest, Newest,
         RollbackEligible, Store!RollbackEligible
    <3>2. Bound(d)
      BY <1>5, <1>6, <2>1
    <3>3. BackedUp(d)
      BY <1>2, <3>1, <3>2 DEF Contents, Owned
    <3>4. ReferenceFor(madeUnder[d]).snapshot.backup_path = madeUnder[d].backup_path
      BY DEF ReferenceFor, Snapshot
    <3>5. QED
      BY <2>1, <3>2, <3>3, <3>4 DEF Bound, BackedUp
  <2>2. QED
    BY <2>1 DEF BackupKept
<1>7. ASSUME ReferenceOfItsContract PROVE RollbackRestoresPrevious
  <2>1. ASSUME NEW o \in Store!OperationIds, operations[o].state = "succeeded",
               NEW d, d = operations[o].source, ApartUnder(d), Newest(d)
        PROVE  HoldsAndRuns(d, before[d])
    <3>1. d \in Store!DeploymentIds /\ references[d] # "none"
      BY <2>1, OpenIsLast DEF Settled, HostedInv, SourcesReferenced
    <3>2. d = Len(deployments) /\ Bound(d)
      BY <1>2, <1>5, <1>7, <2>1, <3>1
    <3>3. Restored(d) /\ RunsBefore(d)
      BY <2>1, <3>2 DEF HostInv, OutcomeInv
    <3>4. QED
      BY <2>1, <3>3 DEF HoldsAndRuns, Restored, RunsBefore
  <2>2. QED
    BY <2>1 DEF RollbackRestoresPrevious
<1>8. QED
  BY <1>3, <1>4, <1>6, <1>7

(* With one process at a time: when the latest deployment succeeded and    *)
(* was not rolled back, the target holds and runs one whole artifact of    *)
(* the byte count its record names, whichever bytes the upload read,       *)
(* whatever calls of earlier requests went unobserved, however often the   *)
(* process was restarted and reconfigured.                                 *)
THEOREM LiveOfRecordedSizeCorrect ==
    SingleInstance => (HostedSpec => []LiveOfRecordedSize)
<1> SUFFICES ASSUME SingleInstance PROVE HostedSpec => []LiveOfRecordedSize
  OBVIOUS
<1>1. Settled /\ HostInv => LiveOfRecordedSize
  BY TargetAsTold
<1>2. QED
  BY <1>1, HostInvCorrect, PTL

(* With one process at a time: a deployment that rolled back has left the  *)
(* target with what it held and ran before; one that the service closed as *)
(* failed never touched the live artifact or, where no rollback task is    *)
(* configured, left what it replaced at the backup path.                   *)
THEOREM FailureLosesNothingCorrect ==
    SingleInstance => (HostedSpec => []FailureLosesNothing)
<1> SUFFICES ASSUME SingleInstance PROVE HostedSpec => []FailureLosesNothing
  OBVIOUS
<1>1. Settled /\ HostInv => FailureLosesNothing
  BY TargetAsTold
<1>2. QED
  BY <1>1, HostInvCorrect, PTL
-----------------------------------------------------------------------------
(* References and contracts.  A reference is recorded by the request that  *)
(* made its deployment, unless a replayed request records it.              *)

(* Where a request that is about to record a reference comes from. *)
LEMMA RecordsFrom ==
    ASSUME ServiceInv, [HostedNext]_hostedVars, NEW w \in Workers,
           NEW u, u = worker[w], NEW t, t = worker'[w],
           t.pc = "record"
    PROVE  \/ t = u
           \/ Reuse(w)
           \/ Drives(u) /\ t.id = u.id
<1>1. worker \in [Workers -> Tasks] /\ u \in Tasks
  BY DEF ServiceInv
<1>2. \A s : GoTo(w, s) \/ TryAcquire(w, s) => t = s
  BY <1>1 DEF GoTo, TryAcquire
<1>3. ASSUME Acts(w), ~Reuse(w) PROVE Drives(u) /\ t.id = u.id
  <2>1. CASE Advance(w)
    <3>1. u.pc = "transition" /\ t = AfterTransition(Home[w], u)
      BY <1>2, <2>1 DEF Advance
    <3>2. t.id = u.id
      BY <3>1 DEF AfterTransition, Returned, Recording, Idle, Doing
    <3>3. QED
      BY <3>1, <3>2 DEF Drives
  <2>2. CASE FinishAttempt(w)
    <3>1. u.pc = "finish" /\ t = AfterAttempt(Home[w], u)
      BY <1>2, <2>2 DEF FinishAttempt
    <3>2. QED
      BY <1>1, <3>1, AfterAttemptCases DEF Doing, Moving, Idle
  <2>3. ASSUME NEW result \in {"ok", "failed"}, Answer(w, result) PROVE FALSE
    <3>1. u.pc = "call" /\ t = AfterReply(u, result)
      BY <1>2, <2>3 DEF Answer, Reply
    <3>2. QED
      BY <1>1, <3>1, AfterReplyCases DEF Doing, Finishing, Settling
  <2>4. ASSUME IssueCall(w) PROVE FALSE
    <3>1. u.pc = "start" /\ t = [u EXCEPT !.pc = "call"]
      BY <1>2, <2>4 DEF IssueCall, StartCall
    <3>2. u \in [pc: {"start", "call"}, env: Environments, kind: RecordKind,
                 id: Nat, act: Activity, tries: Nat]
      BY <1>1, <3>1 DEF Tasks, Idle
    <3>3. QED
      BY <3>1, <3>2
  <2>5. ASSUME FindReferenceUnder(w) \/ AcquireForRollback(w) PROVE FALSE
    <3>1. u.pc \in {"reference", "acquire"}
          /\ \E pc \in {"acquire", "begin"} : t = [u EXCEPT !.pc = pc]
      BY <1>2, <2>5 DEF FindReferenceUnder, FindReference, AcquireForRollback
    <3>2. u \in [pc: {"record", "reference", "acquire", "begin"},
                 env: Environments, id: Nat]
      BY <1>1, <3>1 DEF Tasks, Idle
    <3>3. QED
      BY <3>1, <3>2
  <2>6. ASSUME \/ ReserveUnder(w) \/ RecordUnder(w) \/ GiveUpUnder(w)
               \/ \E req \in Requests : Submit(w, req)
               \/ \E d \in Store!DeploymentIds : RequestRollback(w, d)
               \/ CheckConflict(w) \/ TimeOut(w) \/ Begin(w) \/ Settle(w)
        PROVE  FALSE
    <3>1. \/ t = Idle
          \/ \E pc \in {"conflict", "reserve"} : \E req : t = Accepted(pc, req)
          \/ \E e, d : t = Considering("reference", e, d)
          \/ \E e, d, m, g : t = Moving(e, d, m, g)
          \/ t = Finishing(u, "timeout")
          \/ \E e, k, d, a, n : t = Doing("start", e, k, d, a, n)
      BY <1>2, <2>6 DEF ReserveUnder, Reserve, RecordUnder, Record, GiveUpUnder,
         GiveUp, Submit, RequestRollback, CheckConflict, TimeOut, Begin, Settle
    <3>2. /\ Idle.pc # "record" /\ Finishing(u, "timeout").pc # "record"
          /\ \A pc \in {"conflict", "reserve"} :
                 \A req : Accepted(pc, req).pc # "record"
          /\ \A e, d : Considering("reference", e, d).pc # "record"
          /\ \A e, d, m, g : Moving(e, d, m, g).pc # "record"
          /\ \A e, k, d, a, n : Doing("start", e, k, d, a, n).pc # "record"
      BY DEF Idle, Accepted, Moving, Considering, Finishing, Doing
    <3>3. QED
      BY <3>1, <3>2
  <2>7. QED
    BY <1>3, <2>1, <2>2, <2>3, <2>4, <2>5, <2>6 DEF Acts
<1>4. ASSUME NEW x \in Workers, Acts(x), x # w PROVE t = u
  BY <1>4, ActsMove
<1>5. ASSUME NEW p \in Processes, Crash(p) PROVE t = u
  BY <1>1, <1>5 DEF Crash, Idle
<1>6. /\ Surroundings => UNCHANGED worker \/ \E p \in Processes : Crash(p)
      /\ UNCHANGED hostedVars => UNCHANGED worker
      /\ \A r : BeginEffect(r) \/ CompleteEffect(r) => UNCHANGED worker
      /\ \A p, c : StartUnder(p, c) => UNCHANGED worker
  BY DEF Surroundings, Recover, RecoverDeployment, ReadOperations,
     RecoverOperation, Serve, RemoteEnds, Acknowledge, hostedVars, vars,
     BeginEffect, CompleteEffect, StartUnder, Start
<1>7. UNCHANGED worker => t = u
  OBVIOUS
<1>8. QED
  BY <1>3, <1>4, <1>5, <1>6, <1>7, HostedCases

(* No request is repeated under its key, or no other configuration makes a *)
(* difference to what a reference snapshots.                               *)
ContractsAgree ==
    \/ \A req \in Requests : req.key = NoKey
    \/ \A b, c \in Contracts : ReferenceFor(b) = ReferenceFor(c)

(* What is about to be recorded, and what was. *)
ContractInv ==
    /\ ConfigInv
    /\ \A w \in Workers :
           worker[w].pc = "record" =>
               ReferenceFor(ConfigOf(w)) = ReferenceFor(madeUnder[worker[w].id])
    /\ ReferenceOfItsContract

(* It goes on being so.                                                    *)
LEMMA ContractStep ==
    ASSUME ContractsAgree, ServiceInv, Served, HostedInv, ContractInv,
           [HostedNext]_hostedVars
    PROVE  ContractInv'
<1>1. /\ ColumnsTyped /\ files \in [Paths -> Bytes] /\ ColumnsTyped'
      /\ [Next]_vars
  BY ColumnsKept, HostedStepImplements DEF HostedInv, HostTyped
<1>2. ConfigInv'
  BY ConfigStep DEF ContractInv
<1>3. ASSUME NEW w \in Workers, worker'[w].pc = "record"
      PROVE  ReferenceFor(ConfigOf(w))' = ReferenceFor(madeUnder[worker[w].id])'
  <2>1. PICK u, t : u = worker[w] /\ t = worker'[w] /\ u \in Tasks
    BY DEF ServiceInv
  <2>2. t.pc = "record" /\ t # Idle
    BY <1>3, <2>1 DEF Idle
  <2>3. ConfigOf(w)' = ConfigOf(w)
    BY <1>1, <2>1, <2>2, ConfigKept DEF ColumnsTyped
  <2>4. ASSUME Drives(u) \/ u.pc = "record", t.id = u.id,
               ReferenceFor(ConfigOf(w)) = ReferenceFor(madeUnder[u.id])
        PROVE  ReferenceFor(ConfigOf(w))' = ReferenceFor(madeUnder[worker[w].id])'
    <3>1. u.id \in Store!DeploymentIds
      BY <2>1, <2>4 DEF ServiceInv, RecordOK, Names
    <3>2. madeUnder'[u.id] = madeUnder[u.id]
      BY <1>1, <3>1, ColumnsKept
    <3>3. QED
      BY <2>1, <2>3, <2>4, <3>2 DEF ReferenceFor, Snapshot, Fingerprint
  <2>5. CASE t = u
    BY <2>1, <2>2, <2>4, <2>5 DEF ContractInv
  <2>6. CASE Drives(u) /\ t.id = u.id
    BY <2>1, <2>4, <2>6 DEF ContractInv, ConfigInv
  <2>7. CASE Reuse(w)
    <3>1. \E req \in Requests : req.key # NoKey
      BY <2>1, <2>7, TaskFields DEF Reuse, Store!BoundTo, Idle
    <3>2. \A b, c \in Contracts : ReferenceFor(b) = ReferenceFor(c)
      BY <3>1 DEF ContractsAgree
    <3>3. t.id \in Store!DeploymentIds'
      BY <1>1, <2>1, <2>2, WorkersStep DEF RecordOK, Names
    <3>4. PICK b, c : b = ConfigOf(w)' /\ c = madeUnder'[t.id]
      OBVIOUS
    <3>5. b \in Contracts /\ c \in Contracts
      BY <1>1, <2>3, <3>3, <3>4, ConfigTyped
      DEF ColumnsTyped, Store!DeploymentIds
    <3>6. ReferenceFor(b) = ReferenceFor(c)
      BY <3>2, <3>5
    <3>7. QED
      BY <2>1, <3>4, <3>6 DEF ReferenceFor, Snapshot, Fingerprint
  <2>8. QED
    BY <2>1, <2>2, <2>5, <2>6, <2>7, RecordsFrom
<1>4. ASSUME NEW d \in Store!DeploymentIds', boundTo'[d] # NoReference
      PROVE  boundTo'[d] = ReferenceFor(madeUnder[d])'
  <2>1. CASE d \in Store!DeploymentIds
    <3>1. madeUnder'[d] = madeUnder[d]
      BY <1>1, <2>1, ColumnsKept
    <3>2. boundTo'[d] = boundTo[d] \/ boundTo'[d] = ReferenceFor(madeUnder[d])
      <4>1. ASSUME NEW w \in Workers, RecordUnder(w), worker[w].id = d,
                   boundTo'[d] = ReferenceFor(ConfigOf(w))
            PROVE  boundTo'[d] = ReferenceFor(madeUnder[d])
        BY <4>1 DEF RecordUnder, Record, ContractInv
      <4>2. QED
        BY <1>1, <2>1, <4>1, ColumnsKept
    <3>3. boundTo'[d] = ReferenceFor(madeUnder[d])
      BY <1>4, <2>1, <3>2 DEF ContractInv, ReferenceOfItsContract
    <3>4. QED
      BY <3>1, <3>3 DEF ReferenceFor, Snapshot, Fingerprint
  <2>2. CASE d \notin Store!DeploymentIds
    <3>1. PICK w \in Workers : ReserveUnder(w)
      BY <1>4, <2>2, ColumnSteps DEF Store!DeploymentIds
    <3>2. d = Len(deployments) + 1
      BY <1>4, <2>2, <3>1, ReservedRow
    <3>3. boundTo'[d] = NoReference
      BY <1>1, <3>1, <3>2, ReservedColumns
    <3>4. QED
      BY <1>4, <3>3
  <2>3. QED
    BY <2>1, <2>2
<1>5. ReferenceOfItsContract'
  BY <1>4 DEF ReferenceOfItsContract
<1>6. QED
  BY <1>2, <1>3, <1>5 DEF ContractInv

(* Every reference snapshots the contract its deployment was made under,   *)
(* in any number of processes, unless a request is repeated under its key  *)
(* by a process with another contract.  (That it may not be otherwise is   *)
(* what the run replayed_under_new_contract shows.)                        *)
THEOREM ReferencesSnapshotTheirContract ==
    ContractsAgree => (HostedSpec => []ReferenceOfItsContract)
<1> SUFFICES ASSUME ContractsAgree PROVE HostedSpec => []ReferenceOfItsContract
  OBVIOUS
<1>1. HostedInit => ContractInv
  <2> SUFFICES ASSUME HostedInit PROVE ContractInv
    OBVIOUS
  <2>1. \A w \in Workers : worker[w].pc = "idle"
    BY DEF HostedInit, Init, Idle
  <2>2. Store!DeploymentIds = {}
    BY DEF HostedInit, Init, Store!Init, Store!DeploymentIds
  <2>3. QED
    BY <2>1, <2>2 DEF ContractInv, ConfigInv, Drives, ReferenceOfItsContract
<1>2. ServiceInv /\ Served /\ HostedInv /\ ContractInv
          /\ [HostedNext]_hostedVars => ContractInv'
  BY ContractStep
<1>3. ContractInv => ReferenceOfItsContract
  BY DEF ContractInv
<1>4. QED
  BY <1>1, <1>2, <1>3, HostedServices, HostedInvCorrect, PTL DEF HostedSpec

(* With one process at a time, and references that snapshot the contract   *)
(* of their deployment: whenever the store would admit a rollback or runs  *)
(* one, the backup path of the snapshot holds what the deployment          *)
(* replaced, however often the configuration moved the backup, newer       *)
(* deployments reused the path and rollbacks failed meanwhile.             *)
THEOREM BackupKeptCorrect ==
    SingleInstance /\ ContractsAgree => (HostedSpec => []BackupKept)
<1> SUFFICES ASSUME SingleInstance, ContractsAgree PROVE HostedSpec => []BackupKept
  OBVIOUS
<1>1. Settled /\ HostInv /\ ReferenceOfItsContract => BackupKept
  BY TargetAsTold
<1>2. QED
  BY <1>1, HostInvCorrect, ReferencesSnapshotTheirContract, PTL

(* Under the same conditions, an explicit rollback of the latest deployment *)
(* that is reported as successful has left the target with what it held     *)
(* before that deployment, and runs it.                                     *)
THEOREM RollbackRestoresPreviousCorrect ==
    SingleInstance /\ ContractsAgree => (HostedSpec => []RollbackRestoresPrevious)
<1> SUFFICES ASSUME SingleInstance, ContractsAgree
             PROVE  HostedSpec => []RollbackRestoresPrevious
  OBVIOUS
<1>1. Settled /\ HostInv /\ ReferenceOfItsContract => RollbackRestoresPrevious
  BY TargetAsTold
<1>2. QED
  BY <1>1, HostInvCorrect, ReferencesSnapshotTheirContract, PTL
=============================================================================
