---------------------------- MODULE RunningProofs ----------------------------
(***************************************************************************)
(* Proofs about DeployService that need one process at a time to open the  *)
(* database: recovery runs before service, a running request is the only   *)
(* one to touch its record, and, if no reply is lost, the calls that may   *)
(* change a target are guarded by the store and come one at a time.        *)
(***************************************************************************)
EXTENDS ServiceProofs

(* The operations' counterpart of DeploymentFate. *)
LEMMA OperationFate ==
    ASSUME ServiceInv, [Next]_vars, NEW o \in Store!OperationIds
    PROVE  \/ operations'[o].state = operations[o].state
           \/ \E w \in Workers : Settle(w) /\ worker[w].id = o
           \/ \E p \in Processes :
                  RecoverOperation(p) /\ Store!RecoverOperation(o)
<1>1. P!TypeOK /\ o \in P!OperationIds
  BY SameInvariants, SameSets DEF ServiceInv
<1>2. CASE UNCHANGED operations
  BY <1>2
<1>3. ASSUME NEW w \in Workers, Begin(w)
      PROVE  operations'[o].state = operations[o].state
  <2>1. Store!BeginOperation(worker[w].id) /\ worker[w].id \in Store!DeploymentIds
    BY <1>3 DEF Begin, Store!BeginOperation, Store!EligibleSource
  <2>2. QED
    BY <1>1, <2>1, SameSets, SameActions, P!BeginEffect
<1>4. ASSUME NEW e \in Store!OperationIds, NEW s \in {"succeeded", "failed"},
             operations' = [operations EXCEPT ![e].state = s]
      PROVE  o # e => operations'[o].state = operations[o].state
  <2>1. e \in P!OperationIds
    BY SameSets
  <2>2. \A c \in P!OperationIds :
            operations'[c].state = IF c = e THEN s ELSE operations[c].state
    BY <1>1, <1>4, <2>1, P!CloseEffect
  <2>3. QED
    BY <1>1, <2>2
<1>5. ASSUME NEW w \in Workers, Settle(w)
      PROVE  worker[w].id = o \/ operations'[o].state = operations[o].state
  BY <1>4, <1>5 DEF Settle, Store!FinishOperation
<1>6. ASSUME NEW p \in Processes, RecoverOperation(p)
      PROVE  \/ operations'[o].state = operations[o].state
             \/ Store!RecoverOperation(o)
  <2>1. PICK e : Store!RecoverOperation(e) \/ UNCHANGED storeVars
    BY <1>6 DEF RecoverOperation
  <2>2. QED
    BY <1>4, <2>1 DEF Store!RecoverOperation, storeVars
<1>7. QED
  BY <1>2, <1>3, <1>5, <1>6
  DEF Next, Progress, Recover, vars, storeVars, Submit, CheckConflict,
      Reserve, Reuse, Record, Advance, StartCall, Reply, LoseReply, TimeOut,
      FinishAttempt, RequestRollback, FindReference, AcquireForRollback,
      GiveUp, RemoteEnds, Acknowledge, Start, ReadOperations,
      RecoverDeployment, Serve, Crash, Store!Reserve, Store!Transition,
      Store!RecordReference, Store!StartStep, Store!FinishStep,
      Store!RecoverDeployment, Store!Prune, Store!Acknowledge
-----------------------------------------------------------------------------
(* Processes.  At most one has the database open, and only a process that  *)
(* finished its startup serves requests.                                   *)

OneOpen ==
    \A p, q \in Processes : proc[p] # Stopped /\ proc[q] # Stopped => p = q

Served == \A w \in Workers : worker[w] # Idle => Up(Home[w])

(* The steps that touch the state of a process. *)
LEMMA ProcessSteps ==
    [Next]_vars =>
        \/ UNCHANGED proc
        \/ \E p \in Processes :
               \/ Start(p) \/ RecoverDeployment(p) \/ ReadOperations(p)
               \/ RecoverOperation(p) \/ Serve(p) \/ Crash(p)
BY DEF Next, Progress, Recover, vars, Submit, CheckConflict, Reserve, Reuse,
       Record, Advance, StartCall, Reply, LoseReply, TimeOut, FinishAttempt,
       RequestRollback, FindReference, AcquireForRollback, Begin, Settle,
       GiveUp, RemoteEnds, Acknowledge, Local

(* With one instance, a step leaves at most one process open.              *)
LEMMA OneOpenStep ==
    ASSUME SingleInstance, ServiceInv, OneOpen, [Next]_vars PROVE OneOpen'
<1>1. proc \in [Processes -> ProcStates]
  BY DEF ServiceInv
<1>2. CASE UNCHANGED proc
  BY <1>2 DEF OneOpen
<1>3. ASSUME NEW p \in Processes, Start(p) PROVE OneOpen'
  BY <1>1, <1>3 DEF Start, OneOpen
<1>4. ASSUME NEW p \in Processes, proc[p] # Stopped,
             \A q \in Processes \ {p} : proc'[q] = proc[q]
      PROVE  OneOpen'
  BY <1>4 DEF OneOpen
<1>5. ASSUME NEW p \in Processes,
             \/ RecoverDeployment(p) \/ ReadOperations(p)
             \/ RecoverOperation(p) \/ Serve(p) \/ Crash(p)
      PROVE  OneOpen'
  <2>1. proc[p] # Stopped
    BY <1>5 DEF RecoverDeployment, ReadOperations, RecoverOperation, Serve,
                Crash, Stopped
  <2>2. \A q \in Processes \ {p} : proc'[q] = proc[q]
    BY <1>1, <1>5 DEF RecoverDeployment, ReadOperations, RecoverOperation,
                      Serve, Crash
  <2>3. QED
    BY <1>4, <2>1, <2>2
<1>6. QED
  BY <1>2, <1>3, <1>5, ProcessSteps

(* A request is driven only by a process that serves.                      *)
LEMMA ServedStep ==
    ASSUME ServiceInv, Served, [Next]_vars PROVE Served'
<1>1. proc \in [Processes -> ProcStates] /\ worker \in [Workers -> Tasks]
      /\ Home \in [Workers -> Processes]
  BY ServiceAssumption DEF ServiceInv
<1>2. ASSUME NEW w \in Workers, NEW t, Moves(w, t) PROVE Served'
  BY <1>1, <1>2 DEF Moves, Continues, Acquires, GoTo, TryAcquire, Served, Up
<1>3. ASSUME NEW p \in Processes, Crash(p) PROVE Served'
  BY <1>1, <1>3 DEF Crash, Served, Up
<1>4. CASE UNCHANGED worker
  <2>1. CASE UNCHANGED proc
    BY <1>4, <2>1 DEF Served, Up
  <2>2. ASSUME NEW p \in Processes, ~Up(p),
               \A q \in Processes \ {p} : proc'[q] = proc[q]
        PROVE  Served'
    BY <1>1, <1>4, <2>2 DEF Served, Up
  <2>3. ASSUME NEW p \in Processes,
               \/ Start(p) \/ RecoverDeployment(p) \/ ReadOperations(p)
               \/ RecoverOperation(p) \/ Serve(p)
        PROVE  Served'
    <3>1. ~Up(p)
      BY <2>3 DEF Start, RecoverDeployment, ReadOperations, RecoverOperation,
                  Serve, Up, Stopped
    <3>2. \A q \in Processes \ {p} : proc'[q] = proc[q]
      BY <1>1, <2>3 DEF Start, RecoverDeployment, ReadOperations,
                        RecoverOperation, Serve
    <3>3. QED
      BY <2>2, <3>1, <3>2
  <2>4. QED
    BY <1>3, <2>1, <2>3, ProcessSteps
<1>5. QED
  BY <1>2, <1>3, <1>4, StepOfOne

(* A request is driven only by a process that serves, in every state.      *)
LEMMA ServedCorrect == Spec => []Served
<1>1. Init => Served
  BY DEF Init, Served
<1>2. QED
  BY <1>1, ServedStep, ServiceCorrect, PTL DEF Spec

(* With one instance, at most one process is open in every state.          *)
LEMMA OneOpenCorrect == ASSUME SingleInstance PROVE Spec => []OneOpen
<1>1. Init => OneOpen
  BY DEF Init, OneOpen
<1>2. ServiceInv /\ OneOpen /\ [Next]_vars => OneOpen'
  BY OneOpenStep
<1>3. QED
  BY <1>1, <1>2, ServiceCorrect, PTL DEF Spec

(* While a process recovers nobody is served. *)
LEMMA NobodyServed ==
    ASSUME ServiceInv, OneOpen, Served, NEW p \in Processes,
           proc[p].phase \in {"deployments", "operations"}
    PROVE  \A w \in Workers : worker[w] = Idle
BY ServiceAssumption DEF OneOpen, Served, Up, Stopped
-----------------------------------------------------------------------------
(* Recovery.  What recovery still has to do covers all that is active: of  *)
(* a process that recovers nobody else writes the store, and it drops a    *)
(* record from its list only when the record is closed.                    *)

Covers(s) ==
    /\ s.phase = "deployments" =>
           \A d \in Store!DeploymentIds :
               deployments[d].state \in NonTerminal =>
                   <<d, deployments[d].state>> \in s.todo
    /\ s.phase = "operations" =>
           /\ \A d \in Store!DeploymentIds : deployments[d].state \in Terminal
           /\ \A o \in Store!OperationIds :
                  operations[o].state = "started" => o \in s.todo

RecoveryComplete == \A p \in Processes : Covers(proc[p])

(* What recovery of a deployment does to its row.                          *)
LEMMA RecoveredDeployment ==
    ASSUME ServiceInv, NEW d, NEW from, Store!RecoverDeployment(d, from)
    PROVE  /\ d \in Store!DeploymentIds /\ deployments[d].state = from
           /\ deployments'[d].state = "failed"
           /\ UNCHANGED Store!DeploymentIds
<1>1. P!TypeOK /\ d \in P!DeploymentIds /\ P!RecoverDeployment(d, from)
  BY SameInvariants, SameSets, SameActions
  DEF ServiceInv, Store!RecoverDeployment, Store!StateIs
<1>2. "failed" \in P!DeploymentState
  BY DEF P!DeploymentState
<1>3. /\ P!DeploymentIds' = P!DeploymentIds
      /\ \A c \in P!DeploymentIds :
             deployments'[c].state =
                 IF c = d THEN "failed" ELSE deployments[c].state
  BY <1>1, <1>2, P!UpdateEffect DEF P!RecoverDeployment
<1>4. QED
  BY <1>1, <1>3 DEF P!DeploymentIds, Store!DeploymentIds, P!RecoverDeployment,
     P!StateIs

(* What recovery of a rollback does to its row.                            *)
LEMMA RecoveredOperation ==
    ASSUME ServiceInv, NEW o, Store!RecoverOperation(o)
    PROVE  operations'[o].state = "failed" /\ UNCHANGED Store!OperationIds
<1>1. P!TypeOK /\ o \in P!OperationIds /\ P!RecoverOperation(o)
  BY SameInvariants, SameSets, SameActions
  DEF ServiceInv, Store!RecoverOperation
<1>2. "failed" \in {"succeeded", "failed"}
  OBVIOUS
<1>3. /\ P!OperationIds' = P!OperationIds
      /\ \A c \in P!OperationIds :
             operations'[c].state = IF c = o THEN "failed" ELSE operations[c].state
  BY <1>1, <1>2, P!CloseEffect DEF P!RecoverOperation
<1>4. QED
  BY <1>1, <1>3 DEF P!OperationIds, Store!OperationIds

(* The steps that take a row into a table. *)
LEMMA RowSteps ==
    ServiceInv /\ [Next]_vars =>
        /\ \/ UNCHANGED Store!DeploymentIds
           \/ \E w \in Workers : Reserve(w)
        /\ \/ UNCHANGED Store!OperationIds
           \/ \E w \in Workers : Begin(w)
<1> SUFFICES ASSUME ServiceInv, [Next]_vars
             PROVE  /\ \/ UNCHANGED Store!DeploymentIds
                       \/ \E w \in Workers : Reserve(w)
                    /\ \/ UNCHANGED Store!OperationIds
                       \/ \E w \in Workers : Begin(w)
  OBVIOUS
<1>1. deployments' = deployments => UNCHANGED Store!DeploymentIds
  BY DEF Store!DeploymentIds
<1>2. operations' = operations => UNCHANGED Store!OperationIds
  BY DEF Store!OperationIds
<1>3. P!TypeOK
  BY SameInvariants DEF ServiceInv
<1>4. ASSUME NEW w \in Workers, Advance(w) PROVE UNCHANGED Store!DeploymentIds
  <2>1. /\ worker[w].id \in P!DeploymentIds /\ worker[w].goal \in P!DeploymentState
        /\ deployments' = [deployments EXCEPT ![worker[w].id].state = worker[w].goal]
    BY <1>4, SameSets DEF Advance, Store!Transition, Store!StateIs,
       Store!CanTransition, P!DeploymentState
  <2>2. P!DeploymentIds' = P!DeploymentIds
    BY <1>3, <2>1, P!UpdateEffect
  <2>3. QED
    BY <2>2 DEF P!DeploymentIds, Store!DeploymentIds
<1>5. ASSUME NEW w \in Workers, Settle(w) PROVE UNCHANGED Store!OperationIds
  <2>1. PICK s \in {"succeeded", "failed"} :
            /\ worker[w].id \in P!OperationIds
            /\ operations' = [operations EXCEPT ![worker[w].id].state = s]
    BY <1>5, SameSets DEF Settle, Store!FinishOperation
  <2>2. P!OperationIds' = P!OperationIds
    BY <1>3, <2>1, P!CloseEffect
  <2>3. QED
    BY <2>2 DEF P!OperationIds, Store!OperationIds
<1>6. ASSUME NEW p \in Processes, RecoverDeployment(p)
      PROVE  UNCHANGED Store!DeploymentIds
  BY <1>1, <1>6, RecoveredDeployment DEF RecoverDeployment, storeVars
<1>7. ASSUME NEW p \in Processes, RecoverOperation(p)
      PROVE  UNCHANGED Store!OperationIds
  BY <1>2, <1>7, RecoveredOperation DEF RecoverOperation, storeVars
<1>8. \/ UNCHANGED Store!DeploymentIds
      \/ \E w \in Workers : Reserve(w)
  BY <1>1, <1>4, <1>6
  DEF Next, Progress, Recover, vars, storeVars, Submit, CheckConflict, Reuse,
      Record, StartCall, Reply, LoseReply, TimeOut, FinishAttempt,
      RequestRollback, FindReference, AcquireForRollback, Begin, Settle,
      GiveUp, RemoteEnds, Acknowledge, Start, ReadOperations,
      RecoverOperation, Serve, Crash, Store!RecordReference,
      Store!BeginOperation, Store!FinishOperation, Store!StartStep,
      Store!FinishStep, Store!RecoverOperation, Store!Prune,
      Store!Acknowledge
<1>9. \/ UNCHANGED Store!OperationIds
      \/ \E w \in Workers : Begin(w)
  BY <1>2, <1>5, <1>7
  DEF Next, Progress, Recover, vars, storeVars, Submit, CheckConflict,
      Reserve, Reuse, Record, Advance, StartCall, Reply, LoseReply, TimeOut,
      FinishAttempt, RequestRollback, FindReference, AcquireForRollback,
      GiveUp, RemoteEnds, Acknowledge, Start, ReadOperations,
      RecoverDeployment, Serve, Crash, Store!Reserve, Store!Transition,
      Store!RecordReference, Store!StartStep, Store!FinishStep,
      Store!RecoverDeployment, Store!Prune, Store!Acknowledge
<1>10. QED
  BY <1>8, <1>9

(* With nobody served, records are only ever closed. *)
LEMMA OnlyClosed ==
    ASSUME ServiceInv, [Next]_vars, \A w \in Workers : worker[w] = Idle
    PROVE  /\ UNCHANGED <<Store!DeploymentIds, Store!OperationIds>>
           /\ \A d \in Store!DeploymentIds :
                  deployments'[d].state \in {deployments[d].state, "failed"}
           /\ \A o \in Store!OperationIds :
                  operations'[o].state \in {operations[o].state, "failed"}
<1>1. ASSUME NEW w \in Workers
      PROVE  ~Reserve(w) /\ ~Begin(w) /\ ~Advance(w) /\ ~Settle(w)
  BY DEF Idle, Reserve, Begin, Advance, Settle
<1>2. QED
  BY <1>1, RowSteps, DeploymentFate, OperationFate, RecoveredOperation

(* A process starts to serve only when recovery has left nothing behind.   *)
LEMMA RecoveryStep ==
    ASSUME ServiceInv, OneOpen, Served, RecoveryComplete, [Next]_vars
    PROVE  RecoveryComplete'
<1>1. proc \in [Processes -> ProcStates]
  BY DEF ServiceInv
<1>2. ASSUME NEW p \in Processes PROVE Covers(proc[p])'
  <2>1. PICK s, t : s = proc[p] /\ t = proc'[p]
    OBVIOUS
  <2>2. Covers(s) /\ s \in ProcStates
    BY <1>1, <2>1 DEF RecoveryComplete
  <2>3. "failed" \notin NonTerminal /\ "failed" \in Terminal /\ "failed" # "started"
    BY DEF NonTerminal, Terminal
  <2>4. CASE t.phase \notin {"deployments", "operations"}
    BY <2>1, <2>4 DEF Covers
  <2>5. ASSUME s.phase \in {"deployments", "operations"}
        PROVE  /\ UNCHANGED <<Store!DeploymentIds, Store!OperationIds>>
               /\ \A d \in Store!DeploymentIds :
                      deployments'[d].state \in {deployments[d].state, "failed"}
               /\ \A o \in Store!OperationIds :
                      operations'[o].state \in {operations[o].state, "failed"}
    <3>1. \A w \in Workers : worker[w] = Idle
      BY <2>1, <2>5, NobodyServed
    <3>2. QED
      BY <3>1, OnlyClosed
  <2>6. CASE t = s /\ s.phase \in {"deployments", "operations"}
    <3>1. Covers(t)'
      BY <2>2, <2>3, <2>5, <2>6 DEF Covers
    <3>2. QED
      BY <2>1, <3>1 DEF Covers
  <2>7. CASE Start(p)
    <3>1. t = [phase |-> "deployments",
               todo |-> {<<d, deployments[d].state>> :
                   d \in {d \in Store!DeploymentIds :
                              deployments[d].state \in NonTerminal}}]
      BY <1>1, <2>1, <2>7 DEF Start
    <3>2. Covers(t)
      BY <3>1 DEF Covers
    <3>3. UNCHANGED <<deployments, operations>>
      BY <2>7 DEF Start, storeVars
    <3>4. QED
      BY <2>1, <3>2, <3>3 DEF Covers, Store!DeploymentIds, Store!OperationIds
  <2>8. CASE RecoverDeployment(p)
    <3>1. PICK r \in s.todo :
              /\ \/ Store!RecoverDeployment(r[1], r[2])
                 \/ ~Store!StateIs(r[1], r[2]) /\ UNCHANGED storeVars
              /\ proc' = [proc EXCEPT ![p].todo = @ \ {r}]
      BY <2>1, <2>8 DEF RecoverDeployment
    <3>2. s.phase = "deployments"
      BY <2>1, <2>8 DEF RecoverDeployment
    <3>3. s \in [phase: {"deployments"}, todo: SUBSET (Nat \X DeploymentState)]
      BY <2>2, <3>2 DEF ProcStates
    <3>4. t = [s EXCEPT !.todo = @ \ {r}]
      BY <1>1, <2>1, <3>1
    <3>5. t.phase = "deployments" /\ t.todo = s.todo \ {r}
      BY <3>3, <3>4
    <3>6. ASSUME NEW d \in Store!DeploymentIds, deployments'[d].state \in NonTerminal
          PROVE  <<d, deployments'[d].state>> \in t.todo
      <4>1. deployments'[d].state = deployments[d].state
        BY <2>3, <2>5, <3>2, <3>6
      <4>2. <<d, deployments[d].state>> \in s.todo
        BY <2>2, <3>2, <3>6, <4>1 DEF Covers
      <4>3. ASSUME r = <<d, deployments[d].state>> PROVE FALSE
        <5>1. r[1] = d /\ r[2] = deployments[d].state
          BY <4>3
        <5>2. Store!StateIs(r[1], r[2])
          BY <5>1 DEF Store!StateIs
        <5>3. deployments'[d].state = "failed"
          BY <3>1, <5>1, <5>2, RecoveredDeployment
        <5>4. QED
          BY <2>3, <3>6, <5>3
      <4>4. QED
        BY <3>5, <4>1, <4>2, <4>3
    <3>7. Covers(t)'
      BY <2>5, <3>2, <3>5, <3>6 DEF Covers
    <3>8. QED
      BY <2>1, <3>7 DEF Covers
  <2>9. CASE ReadOperations(p)
    <3>1. t = [phase |-> "operations",
               todo |-> {o \in Store!OperationIds :
                             operations[o].state = "started"}]
      BY <1>1, <2>1, <2>9 DEF ReadOperations
    <3>2. s.phase = "deployments" /\ s.todo = {}
      BY <2>1, <2>9 DEF ReadOperations
    <3>3. \A d \in Store!DeploymentIds : deployments[d].state \in Terminal
      <4>1. P!TypeOK
        BY SameInvariants DEF ServiceInv
      <4>2. \A d \in Store!DeploymentIds : deployments[d].state \in DeploymentState
        BY <4>1, P!Rows, SameSets DEF P!DeploymentState, DeploymentState
      <4>3. QED
        BY <2>2, <3>2, <4>2 DEF Covers, NonTerminal
    <3>4. Covers(t)
      BY <3>1, <3>3 DEF Covers
    <3>5. UNCHANGED <<deployments, operations>>
      BY <2>9 DEF ReadOperations, storeVars
    <3>6. QED
      BY <2>1, <3>4, <3>5 DEF Covers, Store!DeploymentIds, Store!OperationIds
  <2>10. CASE RecoverOperation(p)
    <3>1. PICK o \in s.todo :
              /\ \/ Store!RecoverOperation(o)
                 \/ operations[o].state # "started" /\ UNCHANGED storeVars
              /\ proc' = [proc EXCEPT ![p].todo = @ \ {o}]
      BY <2>1, <2>10 DEF RecoverOperation
    <3>2. s.phase = "operations"
      BY <2>1, <2>10 DEF RecoverOperation
    <3>3. s \in [phase: {"operations"}, todo: SUBSET Nat]
      BY <2>2, <3>2 DEF ProcStates
    <3>4. t = [s EXCEPT !.todo = @ \ {o}]
      BY <1>1, <2>1, <3>1
    <3>5. t.phase = "operations" /\ t.todo = s.todo \ {o}
      BY <3>3, <3>4
    <3>6. operations'[o].state # "started"
      BY <2>3, <3>1, RecoveredOperation DEF storeVars
    <3>7. Covers(t)'
      BY <2>2, <2>3, <2>5, <3>2, <3>5, <3>6 DEF Covers
    <3>8. QED
      BY <2>1, <3>7 DEF Covers
  <2>11. CASE Serve(p) \/ Crash(p)
    <3>1. t \in {Stopped, [phase |-> "up", todo |-> {}]}
      BY <1>1, <2>1, <2>11 DEF Serve, Crash
    <3>2. QED
      BY <2>4, <3>1 DEF Stopped
  <2>12. ASSUME NEW q \in Processes, q # p,
                \/ Start(q) \/ RecoverDeployment(q) \/ ReadOperations(q)
                \/ RecoverOperation(q) \/ Serve(q) \/ Crash(q)
         PROVE  t = s
    BY <1>1, <2>1, <2>12 DEF Start, RecoverDeployment, ReadOperations,
       RecoverOperation, Serve, Crash
  <2>13. QED
    BY <2>1, <2>4, <2>6, <2>7, <2>8, <2>9, <2>10, <2>11, <2>12, ProcessSteps
<1>3. QED
  BY <1>2 DEF RecoveryComplete

(* What recovery has passed stays recovered, in every state.               *)
LEMMA RecoveryCompleteCorrect ==
    ASSUME SingleInstance PROVE Spec => []RecoveryComplete
<1>1. Init => RecoveryComplete
  BY DEF Init, RecoveryComplete, Covers, Stopped
<1>2. ServiceInv /\ OneOpen /\ Served /\ RecoveryComplete /\ [Next]_vars
          => RecoveryComplete'
  BY RecoveryStep
<1>3. QED
  BY <1>1, <1>2, ServiceCorrect, OneOpenCorrect, ServedCorrect, PTL DEF Spec

(* When a process begins to serve, every deployment and every rollback of  *)
(* an earlier process is closed.                                           *)
THEOREM RecoveredBeforeService == SingleInstance => (Spec => ServesRecovered)
<1> SUFFICES ASSUME SingleInstance PROVE Spec => ServesRecovered
  OBVIOUS
<1> DEFINE Recovered ==
               \A p \in Processes :
                   proc[p].phase # "up" /\ proc'[p].phase = "up" =>
                       /\ \A d \in DOMAIN deployments :
                              deployments[d].state \in Terminal
                       /\ \A o \in DOMAIN operations :
                              operations[o].state # "started"
<1>1. ServiceInv /\ RecoveryComplete /\ [Next]_vars => [Recovered]_vars
  <2> SUFFICES ASSUME ServiceInv, RecoveryComplete, [Next]_vars,
                      NEW p \in Processes,
                      proc[p].phase # "up", proc'[p].phase = "up"
               PROVE  /\ \A d \in DOMAIN deployments :
                             deployments[d].state \in Terminal
                      /\ \A o \in DOMAIN operations :
                             operations[o].state # "started"
    OBVIOUS
  <2>1. DOMAIN deployments = Store!DeploymentIds
        /\ DOMAIN operations = Store!OperationIds
    BY DEF ServiceInv, Store!TypeOK, Store!DeploymentIds, Store!OperationIds
  <2>2. proc \in [Processes -> ProcStates]
    BY DEF ServiceInv
  <2>3. ASSUME NEW q \in Processes, q # p,
               \/ Start(q) \/ RecoverDeployment(q) \/ ReadOperations(q)
               \/ RecoverOperation(q) \/ Serve(q) \/ Crash(q)
        PROVE  FALSE
    BY <2>2, <2>3 DEF Start, RecoverDeployment, ReadOperations,
       RecoverOperation, Serve, Crash
  <2>4. ASSUME \/ Start(p) \/ RecoverDeployment(p) \/ ReadOperations(p)
               \/ RecoverOperation(p) \/ Crash(p)
        PROVE  FALSE
    BY <2>2, <2>4 DEF Start, RecoverDeployment, ReadOperations,
       RecoverOperation, Crash, Stopped, ProcStates
  <2>5. Serve(p)
    BY <2>3, <2>4, ProcessSteps
  <2>6. QED
    BY <2>1, <2>5 DEF Serve, RecoveryComplete, Covers
<1>2. QED
  BY <1>1, ServiceCorrect, RecoveryCompleteCorrect, PTL DEF Spec, ServesRecovered
-----------------------------------------------------------------------------
(* Records.  Requests that run in one process have leases of different     *)
(* environments, so a record is driven by one request, and nobody else     *)
(* moves it while it is.                                                   *)

RunningInv == ServiceInv /\ LeasesExact /\ OneOpen /\ Served

(* What the proofs below use of every state of a single instance.          *)
LEMMA RunningCorrect == ASSUME SingleInstance PROVE Spec => []RunningInv
<1>1. ServiceInv /\ LeasesExact /\ OneOpen /\ Served => RunningInv
  BY DEF RunningInv
<1>2. QED
  BY <1>1, ServiceCorrect, LeasesCorrect, OneOpenCorrect, ServedCorrect, PTL

(* No two requests drive one record.                                       *)
LEMMA Alone ==
    ASSUME RunningInv, NEW w \in Workers, NEW x \in Workers,
           \/ /\ Drives(worker[w]) /\ Drives(worker[x])
              /\ worker[w].id = worker[x].id
           \/ /\ Operates(worker[w]) /\ Operates(worker[x])
              /\ worker[w].id = worker[x].id
    PROVE  w = x
<1>1. PICK t, u : t = worker[w] /\ u = worker[x]
  OBVIOUS
<1>2. t \in Tasks /\ u \in Tasks /\ RecordOK(t) /\ RecordOK(u)
  BY <1>1 DEF RunningInv, ServiceInv
<1>3. HoldsLease(t) /\ HoldsLease(u) /\ t # Idle /\ u # Idle
  BY <1>1 DEF Drives, Operates, HoldsLease, Idle
<1>4. t.env = u.env
  BY <1>1, <1>2 DEF RecordOK, Names
<1>5. t.env \in Environments
  BY <1>2, <1>3, TaskFields
<1>6. Home[w] \in Processes /\ Home[w] = Home[x]
  BY <1>1, <1>3, ServiceAssumption
  DEF RunningInv, OneOpen, Served, Up, Stopped
<1>7. QED
  BY <1>1, <1>3, <1>4, <1>5, <1>6 DEF RunningInv, LeasesExact, Holds

(* Only its own request moves a record that a request drives.              *)
LEMMA Undisturbed ==
    ASSUME RunningInv, [Next]_vars, NEW w \in Workers
    PROVE  /\ Drives(worker[w]) /\ ~Advance(w) =>
                  deployments'[worker[w].id].state
                      = deployments[worker[w].id].state
           /\ Operates(worker[w]) /\ ~Settle(w) =>
                  operations'[worker[w].id].state
                      = operations[worker[w].id].state
<1>1. PICK u : u = worker[w]
  OBVIOUS
<1>2. RecordOK(u) /\ ServiceInv
  BY <1>1 DEF RunningInv, ServiceInv
<1>3. \A x \in Workers : /\ Advance(x) => Drives(worker[x])
                         /\ Settle(x) => Operates(worker[x])
  BY DEF Advance, Settle, Drives, Operates
<1>4. ASSUME NEW p \in Processes, RecoverDeployment(p) \/ RecoverOperation(p)
      PROVE  ~Drives(u) /\ ~Operates(u)
  <2>1. u = Idle
    BY <1>1, <1>2, <1>4, NobodyServed
    DEF RunningInv, RecoverDeployment, RecoverOperation
  <2>2. QED
    BY <2>1 DEF Drives, Operates, Idle
<1>5. ASSUME Drives(u), ~Advance(w)
      PROVE  deployments'[u.id].state = deployments[u.id].state
  <2>1. u.id \in Store!DeploymentIds
    BY <1>2, <1>5 DEF RecordOK, Names
  <2>2. ASSUME NEW x \in Workers, Advance(x), worker[x].id = u.id PROVE FALSE
    BY <1>1, <1>3, <1>5, <2>2, Alone
  <2>3. QED
    BY <1>2, <1>4, <1>5, <2>1, <2>2, DeploymentFate
<1>6. ASSUME Operates(u), ~Settle(w)
      PROVE  operations'[u.id].state = operations[u.id].state
  <2>1. u.id \in Store!OperationIds
    BY <1>2, <1>6 DEF RecordOK
  <2>2. ASSUME NEW x \in Workers, Settle(x), worker[x].id = u.id PROVE FALSE
    BY <1>1, <1>3, <1>6, <2>2, Alone
  <2>3. QED
    BY <1>2, <1>4, <1>6, <2>1, <2>2, OperationFate
<1>7. QED
  BY <1>1, <1>5, <1>6

(* A worker that decides its record does not stay where it is. *)
LEMMA Decides ==
    ASSUME ServiceInv, NEW w \in Workers
    PROVE  /\ Advance(w) => /\ worker'[w].pc # "transition"
                            /\ deployments'[worker[w].id].state = worker[w].goal
           /\ Settle(w) => worker'[w] = Idle
<1>1. PICK u, t : u = worker[w] /\ t = worker'[w]
  OBVIOUS
<1>2. u \in Tasks /\ \A s : GoTo(w, s) => t = s
  BY <1>1 DEF ServiceInv, GoTo
<1>3. ASSUME Advance(w) PROVE t.pc # "transition"
  <2>1. /\ u.pc = "transition" /\ <<u.mem, u.goal>> \in CanTransition
        /\ t = AfterTransition(Home[w], u)
    BY <1>1, <1>2, <1>3 DEF Advance, Store!Transition, Store!CanTransition,
                            CanTransition
  <2>2. \A a, e, d : /\ Doing("start", e, "deployment", d, a, 1).pc = "start"
                     /\ Recording(e, d).pc = "record" /\ Idle.pc = "idle"
    BY DEF Doing, Recording, Idle
  <2>3. QED
    BY <1>2, <2>1, <2>2, AfterTransitionCases
<1>4. ASSUME Advance(w) PROVE deployments'[u.id].state = u.goal
  <2>1. P!TypeOK
    BY SameInvariants DEF ServiceInv
  <2>2. /\ u.id \in P!DeploymentIds /\ u.goal \in P!DeploymentState
        /\ deployments' = [deployments EXCEPT ![u.id].state = u.goal]
    BY <1>1, <1>4, SameSets DEF Advance, Store!Transition, Store!StateIs,
       Store!CanTransition, P!DeploymentState
  <2>3. \A c \in P!DeploymentIds :
            deployments'[c].state =
                IF c = u.id THEN u.goal ELSE deployments[c].state
    BY <2>1, <2>2, P!UpdateEffect
  <2>4. QED
    BY <2>2, <2>3
<1>5. ASSUME Settle(w) PROVE t = Idle
  BY <1>2, <1>5 DEF Settle
<1>6. QED
  BY <1>1, <1>3, <1>4, <1>5

(* The records that Reserve and Begin write. *)
LEMMA NewRecords ==
    ASSUME ServiceInv, NEW w \in Workers
    PROVE  /\ Reserve(w) =>
                  /\ Len(deployments) + 1 \notin Store!DeploymentIds
                  /\ deployments'[Len(deployments) + 1].state = "created"
           /\ Begin(w) =>
                  /\ Len(operations) + 1 \notin Store!OperationIds
                  /\ operations'[Len(operations) + 1].state = "started"
<1>1. P!TypeOK
  BY SameInvariants DEF ServiceInv
<1>2. ASSUME Reserve(w)
      PROVE  /\ Len(deployments) + 1 \notin Store!DeploymentIds
             /\ deployments'[Len(deployments) + 1].state = "created"
  <2>1. worker[w].req \in P!Request /\ P!Reserve(worker[w].req)
    BY <1>2, ServiceAssumption, SameSets, SameActions
    DEF Reserve, ServiceInv, Tasks, Idle
  <2>2. QED
    BY <1>1, <2>1, SameSets, P!ReserveEffect
<1>3. ASSUME Begin(w)
      PROVE  /\ Len(operations) + 1 \notin Store!OperationIds
             /\ operations'[Len(operations) + 1].state = "started"
  <2>1. worker[w].id \in P!DeploymentIds /\ P!BeginOperation(worker[w].id)
    BY <1>3, SameSets, SameActions
    DEF Begin, Store!BeginOperation, Store!EligibleSource
  <2>2. QED
    BY <1>1, <2>1, SameSets, P!BeginEffect
<1>4. QED
  BY <1>2, <1>3

(* What a task takes its record to be. *)
OnRecord(t) ==
    /\ t.pc = "transition" => deployments[t.id].state = t.mem
    /\ \/ t.pc = "finish"
       \/ t.pc \in {"start", "call"} /\ t.kind = "deployment"
       => deployments[t.id].state = StateDuring[t.act]
    /\ Operates(t) => operations[t.id].state = "started"

OnRecords == \A w \in Workers : OnRecord(worker[w])

(* A request remembers the state its record is in.                         *)
LEMMA OnRecordsStep ==
    ASSUME RunningInv, OnRecords, [Next]_vars PROVE OnRecords'
<1>1. ServiceInv
  BY DEF RunningInv
<1>2. ASSUME NEW w \in Workers PROVE OnRecord(worker[w])'
  <2>1. PICK u, t : u = worker[w] /\ t = worker'[w]
    OBVIOUS
  <2>2. Goes(w, u, t) /\ OnRecord(u) /\ u \in Tasks
    BY <1>1, <2>1, WorkerGoes DEF OnRecords, ServiceInv
  <2>3. CASE t = u
    <3>1. ASSUME Drives(u)
          PROVE  deployments'[u.id].state = deployments[u.id].state
      <4>1. ~Advance(w)
        BY <1>1, <2>1, <2>3, Decides DEF Advance
      <4>2. QED
        BY <2>1, <3>1, <4>1, Undisturbed
    <3>2. ASSUME Operates(u)
          PROVE  operations'[u.id].state = operations[u.id].state
      <4>1. ~Settle(w)
        <5>1. ~Operates(Idle)
          BY DEF Operates, Idle
        <5>2. QED
          BY <1>1, <2>1, <2>3, <3>2, <5>1, Decides
      <4>2. QED
        BY <2>1, <3>2, <4>1, Undisturbed
    <3>3. QED
      BY <2>1, <2>2, <2>3, <3>1, <3>2 DEF OnRecord, Drives, Operates
  <2>4. CASE Quiet(t)
    BY <2>1, <2>4 DEF Quiet, OnRecord, Operates
  <2>5. CASE Reserved(w, u, t)
    BY <1>1, <2>1, <2>5, NewRecords DEF Reserved, OnRecord, Operates
  <2>6. CASE Advanced(w, u, t)
    BY <1>1, <2>1, <2>6, Decides DEF Advanced, OnRecord, Operates, Same
  <2>7. CASE Called(w, u, t) \/ Answered(w, u, t) \/ RollbackAnswered(w, u, t)
    <3>1. UNCHANGED <<deployments, operations>>
      BY <2>7 DEF Called, Answered, RollbackAnswered, StartCall, Reply,
                  LoseReply, TimeOut, Store!StartStep, storeVars
    <3>2. QED
      BY <2>1, <2>2, <2>7, <3>1
      DEF Called, Answered, RollbackAnswered, Same, OnRecord, Operates
  <2>8. CASE AttemptRepeated(w, u, t) \/ AttemptDecided(w, u, t)
    <3>1. UNCHANGED deployments
      BY <2>8 DEF AttemptRepeated, AttemptDecided, FinishAttempt,
                  Store!FinishStep
    <3>2. QED
      BY <2>1, <2>2, <2>8, <3>1
      DEF AttemptRepeated, AttemptDecided, Same, OnRecord, Operates
  <2>9. CASE Began(w, u, t)
    BY <1>1, <2>1, <2>9, NewRecords DEF Began, OnRecord, Operates
  <2>10. QED
    BY <2>2, <2>3, <2>4, <2>5, <2>6, <2>7, <2>8, <2>9 DEF Goes
<1>3. QED
  BY <1>2 DEF OnRecords

(* A request remembers the state its record is in, in every state.         *)
LEMMA OnRecordsCorrect == ASSUME SingleInstance PROVE Spec => []OnRecords
<1>1. Init => OnRecords
  BY DEF Init, OnRecords, OnRecord, Operates, Idle
<1>2. RunningInv /\ OnRecords /\ [Next]_vars => OnRecords'
  BY OnRecordsStep
<1>3. QED
  BY <1>1, <1>2, RunningCorrect, PTL DEF Spec

(* With one process at a time, a request always knows the durable state of *)
(* the record it runs: nobody else closes the record meanwhile.            *)
THEOREM RunsOnRecord == SingleInstance => (Spec => []RunsOnItsRecord)
<1> SUFFICES ASSUME SingleInstance PROVE Spec => []RunsOnItsRecord
  OBVIOUS
<1>1. ServiceInv /\ OnRecords => RunsOnItsRecord
  <2> SUFFICES ASSUME ServiceInv, OnRecords, NEW w \in Workers
               PROVE  LET t == worker[w] IN
                      /\ t.pc = "transition" => deployments[t.id].state = t.mem
                      /\ t.pc = "finish" =>
                             deployments[t.id].state = StateDuring[t.act]
                      /\ t.pc \in {"start", "call"} =>
                             IF t.kind = "deployment"
                             THEN deployments[t.id].state = StateDuring[t.act]
                             ELSE operations[t.id].state = "started"
                      /\ t.pc = "settle" => operations[t.id].state = "started"
    BY DEF RunsOnItsRecord
  <2>1. worker[w] \in Tasks /\ OnRecord(worker[w])
    BY DEF ServiceInv, OnRecords
  <2>2. worker[w].pc \in {"start", "call"} => worker[w].kind \in RecordKind
    BY <2>1, TaskFields
  <2>3. QED
    BY <2>1, <2>2 DEF OnRecord, Operates, RecordKind
<1>2. QED
  BY <1>1, ServiceCorrect, OnRecordsCorrect, PTL
-----------------------------------------------------------------------------
(* Attempts.  Between two activities the deployment has no open attempt.   *)
BetweenAttempts(t) ==
    t.pc = "transition" \/ (t.pc = "start" /\ t.kind = "deployment")

AttemptsInv ==
    /\ AttemptsClosed
    /\ \A w \in Workers :
           BetweenAttempts(worker[w]) => worker[w].id \notin openAttempts

(* Attempts are opened by StartCall only. *)
LEMMA AttemptSteps ==
    [Next]_vars =>
        \/ openAttempts' \subseteq openAttempts
        \/ \E w \in Workers :
               /\ StartCall(w) /\ worker[w].kind = "deployment"
               /\ openAttempts' = openAttempts \cup {worker[w].id}
BY DEF Next, Progress, Recover, vars, storeVars, Submit, CheckConflict,
       Reserve, Reuse, Record, Advance, StartCall, Reply, LoseReply, TimeOut,
       FinishAttempt, RequestRollback, FindReference, AcquireForRollback,
       Begin, Settle, GiveUp, RemoteEnds, Acknowledge, Start,
       RecoverDeployment, ReadOperations, RecoverOperation, Serve, Crash,
       Store!Reserve, Store!Transition, Store!RecordReference,
       Store!BeginOperation, Store!FinishOperation, Store!StartStep,
       Store!FinishStep, Store!RecoverDeployment, Store!RecoverOperation,
       Store!Prune, Store!Acknowledge

(* An attempt is left open only by the request that runs its step.         *)
LEMMA AttemptsStep ==
    ASSUME RunningInv, OnRecords, AttemptsInv, [Next]_vars PROVE AttemptsInv'
<1>1. ServiceInv
  BY DEF RunningInv
<1>2. ASSUME NEW d \in openAttempts' PROVE deployments'[d].state \in NonTerminal
  <2>1. CASE d \in openAttempts
    <3>1. d \in Store!DeploymentIds /\ deployments[d].state \in NonTerminal
      BY <1>1, <2>1 DEF AttemptsInv, AttemptsClosed, ServiceInv, Store!TypeOK
    <3>2. ASSUME NEW w \in Workers, Advance(w), worker[w].id = d PROVE FALSE
      BY <2>1, <3>2 DEF AttemptsInv, BetweenAttempts, Advance
    <3>3. ASSUME Store!RecoverDeployment(d, deployments[d].state) PROVE FALSE
      BY <1>2, <3>3 DEF Store!RecoverDeployment
    <3>4. QED
      BY <1>1, <3>1, <3>2, <3>3, DeploymentFate
  <2>2. ASSUME NEW w \in Workers, StartCall(w), worker[w].kind = "deployment",
               d = worker[w].id
        PROVE  deployments'[d].state \in NonTerminal
    <3>1. worker[w].act \in Activity /\ worker[w].pc = "start"
      BY <1>1, <2>2, TaskFields DEF StartCall, ServiceInv
    <3>2. deployments[d].state = StateDuring[worker[w].act]
      BY <2>2, <3>1 DEF OnRecords, OnRecord
    <3>3. UNCHANGED deployments
      BY <2>2 DEF StartCall, Store!StartStep
    <3>4. QED
      BY <3>1, <3>2, <3>3, Tables
  <2>3. QED
    BY <2>1, <2>2, AttemptSteps
<1>3. ASSUME NEW w \in Workers, BetweenAttempts(worker[w])'
      PROVE  worker'[w].id \notin openAttempts'
  <2>1. PICK u, t : u = worker[w] /\ t = worker'[w]
    OBVIOUS
  <2>2. /\ Goes(w, u, t) /\ BetweenAttempts(t)
        /\ BetweenAttempts(u) => u.id \notin openAttempts
    BY <1>1, <1>3, <2>1, WorkerGoes DEF BetweenAttempts, AttemptsInv
  <2>3. ASSUME BetweenAttempts(u), t = u \/ Advanced(w, u, t)
        PROVE  t.id \notin openAttempts'
    <3>1. t.id = u.id /\ u.id \notin openAttempts
      BY <2>2, <2>3 DEF Advanced, Same
    <3>2. ASSUME NEW x \in Workers, StartCall(x), worker[x].kind = "deployment",
                 u.id = worker[x].id
          PROVE  FALSE
      <4>1. Drives(worker[x]) /\ Drives(u)
        BY <2>3, <3>2 DEF Drives, StartCall, BetweenAttempts
      <4>2. x = w
        BY <2>1, <3>2, <4>1, Alone
      <4>3. u.pc = "start" /\ t.pc = "call"
        <5>1. /\ u.pc = "start" /\ t = [u EXCEPT !.pc = "call"] /\ u \in Tasks
          BY <1>1, <2>1, <3>2, <4>2 DEF StartCall, GoTo, ServiceInv
        <5>2. QED
          BY <5>1 DEF Tasks, Idle
      <4>4. QED
        BY <2>2, <4>3 DEF BetweenAttempts
    <3>3. QED
      BY <3>1, <3>2, AttemptSteps
  <2>4. ASSUME Reserved(w, u, t) PROVE t.id \notin openAttempts'
    <3>1. t.id \notin Store!DeploymentIds
      BY <1>1, <2>4, NewRecords DEF Reserved
    <3>2. openAttempts \subseteq Store!DeploymentIds
      BY <1>1 DEF ServiceInv, Store!TypeOK
    <3>3. UNCHANGED openAttempts
      BY <2>4 DEF Reserved, Reserve, Store!Reserve
    <3>4. QED
      BY <3>1, <3>2, <3>3
  <2>5. ASSUME AttemptRepeated(w, u, t) \/ AttemptDecided(w, u, t)
        PROVE  t.id \notin openAttempts'
    <3>1. FinishAttempt(w) /\ t.id = u.id
      BY <2>5 DEF AttemptRepeated, AttemptDecided, Same
    <3>2. openAttempts' = openAttempts \ {u.id}
      BY <2>1, <3>1 DEF FinishAttempt, Store!FinishStep
    <3>3. QED
      BY <3>1, <3>2
  <2>6. t.id \notin openAttempts'
    <3>1. CASE Advanced(w, u, t)
      BY <2>3, <3>1 DEF Advanced, BetweenAttempts
    <3>2. ~Quiet(t) /\ ~Called(w, u, t) /\ ~Answered(w, u, t)
          /\ ~RollbackAnswered(w, u, t) /\ ~Began(w, u, t)
      BY <2>2 DEF BetweenAttempts, Quiet, Called, Answered, RollbackAnswered,
                  Began
    <3>3. QED
      BY <2>2, <2>3, <2>4, <2>5, <3>1, <3>2 DEF Goes
  <2>7. QED
    BY <2>1, <2>6
<1>4. QED
  BY <1>2, <1>3 DEF AttemptsInv, AttemptsClosed

(* An attempt is open only while its deployment is active: no path of the  *)
(* service and no recovery decides a deployment and forgets an attempt.    *)
THEOREM AttemptsCorrect == SingleInstance => (Spec => []AttemptsClosed)
<1> SUFFICES ASSUME SingleInstance PROVE Spec => []AttemptsClosed
  OBVIOUS
<1>1. Init => AttemptsInv
  BY DEF Init, Store!Init, AttemptsInv, AttemptsClosed
<1>2. RunningInv /\ OnRecords /\ AttemptsInv /\ [Next]_vars => AttemptsInv'
  BY AttemptsStep
<1>3. AttemptsInv => AttemptsClosed
  BY DEF AttemptsInv
<1>4. QED
  BY <1>1, <1>2, <1>3, RunningCorrect, OnRecordsCorrect, PTL DEF Spec
-----------------------------------------------------------------------------
(* Remote calls, when no error hides a call that still runs.               *)

OfRecord(c, t) ==
    /\ c.id = t.id
    /\ \/ c.kind = "deployment" /\ Drives(t)
       \/ c.kind = "rollback_operation" /\ Operates(t)

(* A running request knows of every call of its record that may still run: *)
(* it waits for it, or is about to act on its timeout.                     *)
KnowsCall(c, t) ==
    \/ t.pc = "call" /\ c = CallOf(t)
    \/ t.pc = "finish" /\ t.result = "timeout" /\ c.act = t.act

CallsKnown ==
    \A w \in Workers, c \in inflight :
        OfRecord(c, worker[w]) => KnowsCall(c, worker[w])

OneCallOfRecord ==
    \A b, c \in inflight : b.kind = c.kind /\ b.id = c.id => b = c

(* The record of a call is in the state it made the call in, or recovery   *)
(* closed it and its incident stands.                                      *)
HeldBy(c) ==
    \/ c.kind = "deployment" /\ deployments[c.id].state = StateDuring[c.act]
    \/ c.kind = "rollback_operation" /\ operations[c.id].state = "started"
    \/ \E i \in incidents : /\ i.kind = c.kind /\ i.subject = c.id
                            /\ i.status = "unresolved"

CallsHeld == \A c \in inflight : HeldBy(c)

(* While no reply is lost, a call that runs has a request waiting for it,  *)
(* or none that will ever act on its record.                               *)
LEMMA CallsKnownStep ==
    ASSUME ~TransportLoss, RunningInv, CallsKnown, [Next]_vars
    PROVE  CallsKnown'
<1>1. ServiceInv
  BY DEF RunningInv
<1>2. ASSUME NEW w \in Workers, NEW c \in inflight', OfRecord(c, worker'[w])
      PROVE  KnowsCall(c, worker'[w])
  <2>1. PICK u, t : u = worker[w] /\ t = worker'[w]
    OBVIOUS
  <2>2. Goes(w, u, t) /\ OfRecord(c, t) /\ u \in Tasks
    BY <1>1, <1>2, <2>1, WorkerGoes DEF ServiceInv
  <2>3. ASSUME c \in inflight PROVE KnowsCall(c, t)
    <3>1. OfRecord(c, u) => KnowsCall(c, u)
      BY <2>1, <2>3 DEF CallsKnown
    <3>2. CallOK(c)
      BY <1>1, <2>3 DEF ServiceInv
    <3>3. CASE t = u
      BY <2>2, <3>1, <3>3
    <3>4. CASE Quiet(t)
      BY <2>2, <3>4 DEF Quiet, OfRecord, Drives, Operates
    <3>5. CASE Reserved(w, u, t)
      <4>1. t.id \notin Store!DeploymentIds /\ ~Operates(t)
        BY <1>1, <3>5, NewRecords DEF Reserved, Operates
      <4>2. QED
        BY <2>2, <3>2, <4>1 DEF OfRecord, CallOK
    <3>6. CASE Began(w, u, t)
      <4>1. t.id \notin Store!OperationIds /\ ~Drives(t)
        BY <1>1, <3>6, NewRecords DEF Began, Drives
      <4>2. QED
        BY <2>2, <3>2, <4>1 DEF OfRecord, CallOK
    <3>7. CASE Advanced(w, u, t) \/ Called(w, u, t)
      <4>1. OfRecord(c, u) /\ u.pc \in {"transition", "start"}
        BY <2>2, <3>7 DEF Advanced, Called, Same, OfRecord, Drives, Operates
      <4>2. QED
        BY <3>1, <4>1 DEF KnowsCall
    <3>8. CASE Answered(w, u, t) \/ RollbackAnswered(w, u, t)
      <4>1. OfRecord(c, u) /\ u.pc = "call"
        BY <2>2, <3>8 DEF Answered, RollbackAnswered, Same, OfRecord, Drives,
                          Operates
      <4>2. c = CallOf(u)
        BY <3>1, <4>1 DEF KnowsCall
      <4>3. ~LoseReply(w)
        BY DEF LoseReply
      <4>4. \A r : ~Reply(w, r)
        BY <1>2, <2>1, <4>2 DEF Reply
      <4>5. Answered(w, u, t) /\ t.result = "timeout"
        BY <3>8, <4>3, <4>4 DEF Answered, RollbackAnswered
      <4>6. c.act = t.act /\ t.pc = "finish"
        BY <4>2, <4>5 DEF Answered, CallOf
      <4>7. QED
        BY <4>5, <4>6 DEF KnowsCall
    <3>9. CASE AttemptRepeated(w, u, t) \/ AttemptDecided(w, u, t)
      <4>1. OfRecord(c, u) /\ u.pc = "finish"
        BY <2>2, <3>9 DEF AttemptRepeated, AttemptDecided, Same, OfRecord,
                          Drives, Operates
      <4>2. u.result = "timeout" /\ c.act = u.act /\ c.act \in Mutating
        BY <3>1, <3>2, <4>1 DEF KnowsCall, CallOK
      <4>3. StateDuring[u.act] \in HasLiveMutationStarted
        BY <4>2 DEF Mutating, StateDuring, HasLiveMutationStarted
      <4>4. QED
        BY <3>9, <4>2, <4>3 DEF AttemptRepeated, AttemptDecided
    <3>10. QED
      BY <2>2, <3>3, <3>4, <3>5, <3>6, <3>7, <3>8, <3>9 DEF Goes
  <2>4. ASSUME NEW x \in Workers, StartCall(x), c = CallOf(worker[x])
        PROVE  KnowsCall(c, t)
    <3>1. PICK v : v = worker[x] /\ v \in Tasks
      BY <1>1 DEF ServiceInv
    <3>2. c.kind = v.kind /\ c.id = v.id /\ v.pc = "start"
      BY <2>4, <3>1 DEF CallOf, StartCall
    <3>3. v \in [pc: {"start", "call"}, env: Environments, kind: RecordKind,
                 id: Nat, act: Activity, tries: Nat]
      BY <3>1, <3>2 DEF Tasks, Idle
    <3>4. CASE x = w
      <4>1. t = [v EXCEPT !.pc = "call"]
        BY <1>1, <2>1, <2>4, <3>1, <3>4 DEF StartCall, GoTo, ServiceInv
      <4>2. t.pc = "call" /\ CallOf(t) = CallOf(v)
        BY <3>3, <4>1 DEF CallOf
      <4>3. QED
        BY <2>4, <3>1, <4>2 DEF KnowsCall
    <3>5. CASE x # w
      <4>1. t = u
        BY <1>1, <2>1, <2>4, <3>5 DEF StartCall, GoTo, ServiceInv
      <4>2. \/ Drives(v) /\ Drives(u) /\ v.id = u.id
            \/ Operates(v) /\ Operates(u) /\ v.id = u.id
        BY <2>2, <3>2, <4>1 DEF OfRecord, Drives, Operates
      <4>3. QED
        BY <2>1, <3>1, <3>5, <4>2, Alone
    <3>6. QED
      BY <3>4, <3>5
  <2>5. QED
    BY <1>1, <2>1, <2>3, <2>4, CallsStep
<1>3. QED
  BY <1>2 DEF CallsKnown, OfRecord, KnowsCall, CallOf, Drives, Operates

(* A record is mutated by one call at a time.                              *)
LEMMA OneCallStep ==
    ASSUME RunningInv, CallsKnown, OneCallOfRecord, [Next]_vars
    PROVE  OneCallOfRecord'
<1>1. ServiceInv
  BY DEF RunningInv
<1>2. CASE inflight' \subseteq inflight
  BY <1>2 DEF OneCallOfRecord
<1>3. ASSUME NEW w \in Workers, StartCall(w),
             inflight' = inflight \cup {CallOf(worker[w])}
      PROVE  OneCallOfRecord'
  <2>1. PICK c, u : c = CallOf(u) /\ u = worker[w] /\ u \in Tasks
    BY <1>1 DEF ServiceInv
  <2>2. c.kind = u.kind /\ c.id = u.id /\ u.pc = "start"
    BY <1>3, <2>1 DEF CallOf, StartCall
  <2>3. u.kind \in RecordKind
    BY <2>1, <2>2, TaskFields
  <2>4. ASSUME NEW b \in inflight, b.kind = c.kind, b.id = c.id PROVE FALSE
    <3>1. OfRecord(b, u)
      BY <2>2, <2>3, <2>4 DEF OfRecord, Drives, Operates, RecordKind
    <3>2. QED
      BY <2>1, <2>2, <3>1 DEF CallsKnown, KnowsCall
  <2>5. QED
    BY <1>3, <2>1, <2>4 DEF OneCallOfRecord
<1>4. QED
  BY <1>1, <1>2, <1>3, CallsStep

(* Incidents go only by acknowledgement. *)
LEMMA IncidentSteps ==
    [Next]_vars => \/ incidents \subseteq incidents'
                   \/ \E i \in incidents : Acknowledge(i)
BY DEF Next, Progress, Recover, vars, storeVars, Submit, CheckConflict,
       Reserve, Reuse, Record, Advance, StartCall, Reply, LoseReply, TimeOut,
       FinishAttempt, RequestRollback, FindReference, AcquireForRollback,
       Begin, Settle, GiveUp, RemoteEnds, Start, RecoverDeployment,
       ReadOperations, RecoverOperation, Serve, Crash, Store!Reserve,
       Store!Transition, Store!RecordReference, Store!BeginOperation,
       Store!FinishOperation, Store!StartStep, Store!FinishStep,
       Store!RecoverDeployment, Store!RecoverOperation, Store!Prune,
       Store!InsertIncident

(* Recovery of a rollback leaves an unresolved incident of it.             *)
LEMMA OperationRecoveryLeavesIncident ==
    ASSUME NEW o, Store!RecoverOperation(o)
    PROVE  \E i \in incidents' : /\ i.kind = "rollback_operation"
                                 /\ i.subject = o
                                 /\ i.status = "unresolved"
<1>1. PICK i : i = [kind |-> "rollback_operation", subject |-> o,
                    env |-> operations[o].env, status |-> "unresolved"]
  OBVIOUS
<1>2. /\ i.kind = "rollback_operation" /\ i.subject = o
      /\ i.status = "unresolved"
  BY <1>1
<1>3. i \in incidents'
  BY <1>1 DEF Store!RecoverOperation, Store!InsertIncident
<1>4. QED
  BY <1>2, <1>3

(* A call that mutates a target keeps its environment held.                *)
LEMMA CallsHeldStep ==
    ASSUME StoreInv, RunningInv, OnRecords, CallsKnown, CallsHeld, [Next]_vars
    PROVE  CallsHeld'
<1>1. ServiceInv
  BY DEF RunningInv
<1>2. ASSUME NEW c \in inflight' PROVE HeldBy(c)'
  <2>1. CASE c \in inflight
    <3>1. CallOK(c) /\ HeldBy(c)
      BY <1>1, <2>1 DEF ServiceInv, CallsHeld
    <3>2. \A w \in Workers : worker[w].id = c.id =>
              /\ c.kind = "deployment" => ~Advance(w)
              /\ c.kind = "rollback_operation" => ~Settle(w)
      BY <2>1 DEF CallsKnown, OfRecord, KnowsCall, Advance, Settle, Drives,
                  Operates
    <3>3. CASE /\ c.kind = "deployment"
               /\ deployments[c.id].state = StateDuring[c.act]
      <4>1. c.id \in Store!DeploymentIds /\ c.act \in Mutating
        BY <3>1, <3>3 DEF CallOK
      <4>2. CASE deployments'[c.id].state = deployments[c.id].state
        BY <3>3, <4>2 DEF HeldBy
      <4>3. CASE Store!RecoverDeployment(c.id, deployments[c.id].state)
        <5>1. Store!Disposition(StateDuring[c.act]) = "unresolved"
          BY <4>1 DEF Store!Disposition, Mutating, StateDuring,
                      Store!HasLiveMutationStarted
        <5>2. PICK i : /\ incidents' = incidents \cup {i}
                       /\ i.kind = "deployment" /\ i.subject = c.id
                       /\ i.status = Store!Disposition(deployments[c.id].state)
          BY <4>3, RecoveryLeavesIncident
        <5>3. QED
          BY <3>3, <5>1, <5>2 DEF HeldBy
      <4>4. QED
        BY <1>1, <3>2, <3>3, <4>1, <4>2, <4>3, DeploymentFate
    <3>4. CASE /\ c.kind = "rollback_operation"
               /\ operations[c.id].state = "started"
      <4>1. c.id \in Store!OperationIds
        BY <3>1, <3>4 DEF CallOK
      <4>2. CASE operations'[c.id].state = operations[c.id].state
        BY <3>4, <4>2 DEF HeldBy
      <4>3. CASE Store!RecoverOperation(c.id)
        BY <3>4, <4>3, OperationRecoveryLeavesIncident DEF HeldBy
      <4>4. QED
        BY <1>1, <3>2, <3>4, <4>1, <4>2, <4>3, OperationFate
    <3>5. ASSUME NEW i \in incidents, i.kind = c.kind, i.subject = c.id,
                 i.status = "unresolved"
          PROVE  HeldBy(c)'
      <4>1. i.env = c.env
        BY <3>1, <3>5 DEF StoreInv, Store!IncidentSubjectFailed, CallOK
      <4>2. ASSUME NEW j \in incidents, Acknowledge(j) PROVE i \in incidents'
        <5>1. i # j
          BY <2>1, <4>1, <4>2 DEF Acknowledge
        <5>2. QED
          BY <4>2, <5>1 DEF Acknowledge, Store!Acknowledge
      <4>3. i \in incidents'
        BY <4>2, IncidentSteps
      <4>4. QED
        BY <3>5, <4>3 DEF HeldBy
    <3>6. QED
      BY <3>1, <3>3, <3>4, <3>5 DEF HeldBy
  <2>2. ASSUME NEW w \in Workers, StartCall(w), c = CallOf(worker[w])
        PROVE  HeldBy(c)'
    <3>1. PICK u : u = worker[w] /\ u \in Tasks /\ OnRecord(u)
      BY <1>1 DEF ServiceInv, OnRecords
    <3>2. c.kind = u.kind /\ c.id = u.id /\ c.act = u.act /\ u.pc = "start"
      BY <2>2, <3>1 DEF CallOf, StartCall
    <3>3. u.kind \in RecordKind
      BY <3>1, <3>2, TaskFields
    <3>4. UNCHANGED <<deployments, operations>>
      BY <2>2 DEF StartCall, Store!StartStep, storeVars
    <3>5. QED
      BY <3>1, <3>2, <3>3, <3>4 DEF HeldBy, OnRecord, Operates, RecordKind
  <2>3. QED
    BY <1>1, <2>1, <2>2, CallsStep
<1>3. QED
  BY <1>2 DEF CallsHeld

CallsInv == CallsKnown /\ OneCallOfRecord /\ CallsHeld

(* The invariants of the remote calls hold in every state.                 *)
LEMMA CallsCorrect ==
    ASSUME SingleInstance, ~TransportLoss PROVE Spec => []CallsInv
<1>1. Init => CallsInv
  BY DEF Init, CallsInv, CallsKnown, OneCallOfRecord, CallsHeld
<1>2. StoreInv /\ RunningInv /\ OnRecords /\ CallsInv /\ [Next]_vars => CallsInv'
  BY CallsKnownStep, OneCallStep, CallsHeldStep DEF CallsInv
<1>3. QED
  BY <1>1, <1>2, StoreOfService, RunningCorrect, OnRecordsCorrect, PTL DEF Spec

(* While a call that changes the target may still run, its record holds    *)
(* the environment: it is active, or closed with an unresolved incident.   *)
THEOREM CallsGuardedCorrect ==
    SingleInstance /\ ~TransportLoss => (Spec => []CallsGuarded)
<1> SUFFICES ASSUME SingleInstance, ~TransportLoss PROVE Spec => []CallsGuarded
  OBVIOUS
<1>1. ServiceInv /\ CallsInv => CallsGuarded
  <2> SUFFICES ASSUME ServiceInv, CallsInv, NEW c \in inflight
               PROVE  \/ /\ c.kind = "deployment"
                         /\ deployments[c.id].state \in NonTerminal
                      \/ /\ c.kind = "rollback_operation"
                         /\ operations[c.id].state = "started"
                      \/ \E i \in incidents : /\ i.kind = c.kind
                                              /\ i.subject = c.id
                                              /\ i.status = "unresolved"
    BY DEF CallsGuarded
  <2>1. HeldBy(c) /\ c.act \in Activity
    BY DEF CallsInv, CallsHeld, ServiceInv, CallOK, Mutating, Activity
  <2>2. QED
    BY <2>1, Tables DEF HeldBy
<1>2. QED
  BY <1>1, ServiceCorrect, CallsCorrect, PTL

(* Two calls that may run at the same time are in different environments.  *)
THEOREM OneMutation ==
    SingleInstance /\ ~TransportLoss => (Spec => []OneMutationAtATime)
<1> SUFFICES ASSUME SingleInstance, ~TransportLoss
             PROVE  Spec => []OneMutationAtATime
  OBVIOUS
<1>1. StoreInv /\ ServiceInv /\ CallsInv => OneMutationAtATime
  <2> SUFFICES ASSUME StoreInv, ServiceInv, CallsInv, NEW b \in inflight,
                      NEW c \in inflight, b.env = c.env
               PROVE  b = c
    BY DEF OneMutationAtATime
  <2> DEFINE e == c.env
  <2>1. e \in Environments /\ Store!GuardExclusive
    BY DEF ServiceInv, CallOK, StoreInv
  <2>2. ASSUME NEW a \in inflight, a.env = e
        PROVE  \/ /\ a.kind = "deployment" /\ a.id \in Store!DeploymentIds
                  /\ deployments[a.id].state \in NonTerminal
                  /\ deployments[a.id].env = e
               \/ /\ a.kind = "rollback_operation" /\ a.id \in Store!OperationIds
                  /\ operations[a.id].state = "started"
                  /\ operations[a.id].env = e
               \/ \E i \in incidents : /\ i.kind = a.kind /\ i.subject = a.id
                                       /\ i.status = "unresolved" /\ i.env = e
    <3>1. HeldBy(a) /\ CallOK(a) /\ a.act \in Activity
      BY <2>2 DEF CallsInv, CallsHeld, ServiceInv, CallOK, Mutating, Activity
    <3>2. \A i \in incidents : i.kind = a.kind /\ i.subject = a.id => i.env = e
      BY <2>2, <3>1 DEF StoreInv, Store!IncidentSubjectFailed, CallOK
    <3>3. QED
      BY <2>2, <3>1, <3>2, Tables DEF HeldBy, CallOK
  <2>3. b.kind = c.kind /\ b.id = c.id
    <3>1. /\ ~(Store!DeploymentActive(e) /\ Store!RollbackStarted(e))
          /\ ~(Store!DeploymentActive(e) /\ Store!Quarantined(e))
          /\ ~(Store!RollbackStarted(e) /\ Store!Quarantined(e))
      BY <2>1 DEF Store!GuardExclusive, Store!HoldersExclude
    <3>2. ASSUME NEW a \in inflight, a.env = e
          PROVE  \/ /\ a.kind = "deployment" /\ a.id \in Store!DeploymentIds
                    /\ deployments[a.id].state \in NonTerminal
                    /\ deployments[a.id].env = e
                    /\ Store!DeploymentActive(e)
                 \/ /\ a.kind = "rollback_operation"
                    /\ a.id \in Store!OperationIds
                    /\ operations[a.id].state = "started"
                    /\ operations[a.id].env = e
                    /\ Store!RollbackStarted(e)
                 \/ \E i \in incidents :
                        /\ i.kind = a.kind /\ i.subject = a.id
                        /\ i.status = "unresolved" /\ i.env = e
                        /\ Store!Quarantined(e)
      <4>1. Store!NonTerminal = NonTerminal
        BY DEF Store!NonTerminal, NonTerminal, Store!DeploymentState,
               DeploymentState, Store!Terminal, Terminal
      <4>2. QED
        BY <2>2, <3>2, <4>1 DEF Store!DeploymentActive, Store!RollbackStarted,
                                Store!Quarantined
    <3>3. /\ Store!OneActiveDeployment /\ Store!OneStartedRollback
          /\ Store!OneQuarantine
      BY <2>1 DEF Store!GuardExclusive
    <3>4. CASE Store!DeploymentActive(e)
      <4>1. Store!NonTerminal = NonTerminal
        BY DEF Store!NonTerminal, NonTerminal, Store!DeploymentState,
               DeploymentState, Store!Terminal, Terminal
      <4>2. QED
        BY <3>1, <3>2, <3>3, <3>4, <4>1 DEF Store!OneActiveDeployment
    <3>5. CASE Store!RollbackStarted(e)
      BY <3>1, <3>2, <3>3, <3>5 DEF Store!OneStartedRollback
    <3>6. CASE Store!Quarantined(e)
      BY <3>1, <3>2, <3>3, <3>6 DEF Store!OneQuarantine
    <3>7. QED
      BY <3>2, <3>4, <3>5, <3>6
  <2>4. QED
    BY <2>3 DEF CallsInv, OneCallOfRecord
<1>2. QED
  BY <1>1, ServiceCorrect, StoreOfService, CallsCorrect, PTL
=============================================================================
