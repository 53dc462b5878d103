------------------------------ MODULE ToolProofs ------------------------------
(***************************************************************************)
(* Proofs about ToolAnswers: what clients were told stays true.  The final *)
(* states and the rollback references they were told of stand in any       *)
(* number of processes; that an answer which left the outcome open holds   *)
(* the environment needs one process at a time to open the database.       *)
(***************************************************************************)
EXTENDS ToolAnswers, RunningProofs

(* Telling clients changes nothing: the services step as in DeployService. *)
LEMMA AnswerIsStep == [AnswerNext]_answerVars => [Next]_vars
<1>1. ASSUME NEW w \in Workers,
             \/ ReuseTold(w) \/ AdvanceTold(w) \/ FinishAttemptTold(w)
             \/ RecordTold(w) \/ TimeOutTold(w) \/ SettleTold(w)
             \/ GiveUpTold(w)
      PROVE  Progress(w)
  BY <1>1 DEF ReuseTold, AdvanceTold, FinishAttemptTold, RecordTold,
              TimeOutTold, SettleTold, GiveUpTold, Progress
<1>2. ASSUME NEW p \in Processes, CrashTold(p) PROVE Crash(p)
  BY <1>2 DEF CrashTold
<1>3. ASSUME SilentStep PROVE Next
  BY <1>3 DEF SilentStep, Next, Progress
<1>4. ASSUME NEW w \in Workers, Progress(w) PROVE Next
  BY <1>4 DEF Next
<1>5. ASSUME NEW p \in Processes, Crash(p) PROVE Next
  BY <1>5 DEF Next
<1>6. UNCHANGED answerVars => UNCHANGED vars
  BY DEF answerVars
<1>7. QED
  BY <1>1, <1>2, <1>3, <1>4, <1>5, <1>6 DEF AnswerNext

(* So the theorems about DeployService hold of the services that answer.   *)
LEMMA AnswersImplement == AnswerSpec => Spec
<1>1. AnswerInit => Init
  BY DEF AnswerInit
<1>2. QED
  BY <1>1, AnswerIsStep, PTL DEF AnswerSpec, Spec
-----------------------------------------------------------------------------
(* What the answers say.                                                   *)

(* An answer names a record. *)
Named(a) ==
    \/ a.tool = "deploy_application" /\ a.id \in Store!DeploymentIds
       /\ a.state \in DeploymentState
    \/ a.tool = "rollback_deployment" /\ a.id \in Store!OperationIds
       /\ a.state \in Store!OperationState

(* Its final state is the record's. *)
Stands(a) ==
    /\ a.tool = "deploy_application" /\ a.state \in Terminal =>
           deployments[a.id].state = a.state
    /\ a.tool = "rollback_deployment" /\ a.state # "started" =>
           operations[a.id].state = a.state

(* Its rollback reference was recorded. *)
Referenced(a) ==
    a.rollback_reference_available =>
        a.tool = "deploy_application" /\ references[a.id] # "none"

ToldInv == \A a \in told : Named(a) /\ Stands(a) /\ Referenced(a)

(* A held outcome is what the store says of the deployment.                *)
HeldOK(w) ==
    IF worker[w].pc = "record"
    THEN /\ held[w].state \in RollbackEligible
         /\ deployments[worker[w].id].state = held[w].state
    ELSE held[w] = NothingHeld

HeldInv ==
    /\ held = [w \in Workers |-> held[w]]
    /\ \A w \in Workers : HeldOK(w)

(* The answers w may give in a step, one formula per place it answers.     *)
ToldOfReplay(w, a) ==
    \E d \in Store!BoundTo(worker[w].req.key) :
        /\ Reuse(w) /\ worker'[w] = Idle
        /\ a = DeployOutcome(d, deployments[d].state, TRUE, FALSE)
ToldOfDecision(w, a) ==
    /\ Advance(w) /\ worker'[w] = Idle
    /\ a = DeployOutcome(worker[w].id, worker[w].goal, FALSE, FALSE)
ToldOfTimeout(w, a) ==
    /\ FinishAttempt(w) /\ worker'[w] = Idle
    /\ a = DeployOutcome(worker[w].id, StateDuring[worker[w].act],
                         FALSE, FALSE)
ToldOfReference(w, a) ==
    /\ Record(w)
    /\ a = DeployOutcome(worker[w].id, held[w].state, held[w].replay, TRUE)
ToldWithoutReference(w, a) ==
    /\ GiveUp(w) /\ worker[w].pc = "record"
    /\ a = DeployOutcome(worker[w].id, held[w].state, held[w].replay, FALSE)
ToldOfExpiry(w, a) ==
    /\ TimeOut(w) /\ worker'[w] = Idle
    /\ a = RollbackOutcome(worker[w].id, "started")
ToldOfRollback(w, a) ==
    /\ Settle(w)
    /\ a = RollbackOutcome(worker[w].id, operations'[worker[w].id].state)

Told(w, a) ==
    \/ ToldOfReplay(w, a) \/ ToldOfDecision(w, a) \/ ToldOfTimeout(w, a)
    \/ ToldOfReference(w, a) \/ ToldWithoutReference(w, a)
    \/ ToldOfExpiry(w, a) \/ ToldOfRollback(w, a)

(* Every answer is given by one of them.                                   *)
LEMMA NewAnswers ==
    ASSUME [AnswerNext]_answerVars, NEW a \in told'
    PROVE  a \in told \/ \E w \in Workers : Told(w, a)
<1>1. \A w \in Workers : \A o : Tells(w, o) =>
          told' = told \/ (worker'[w] = Idle /\ told' = told \cup {o})
  BY DEF Tells
<1>2. ASSUME NEW w \in Workers, ReuseTold(w) PROVE a \in told \/ Told(w, a)
  BY <1>1, <1>2 DEF ReuseTold, Told, ToldOfReplay
<1>3. ASSUME NEW w \in Workers, AdvanceTold(w) PROVE a \in told \/ Told(w, a)
  BY <1>1, <1>3 DEF AdvanceTold, Told, ToldOfDecision
<1>4. ASSUME NEW w \in Workers, FinishAttemptTold(w)
      PROVE  a \in told \/ Told(w, a)
  BY <1>1, <1>4 DEF FinishAttemptTold, Told, ToldOfTimeout
<1>5. ASSUME NEW w \in Workers, RecordTold(w) PROVE a \in told \/ Told(w, a)
  BY <1>1, <1>5 DEF RecordTold, Told, ToldOfReference
<1>6. ASSUME NEW w \in Workers, TimeOutTold(w) PROVE a \in told \/ Told(w, a)
  BY <1>1, <1>6 DEF TimeOutTold, Told, ToldOfExpiry
<1>7. ASSUME NEW w \in Workers, SettleTold(w) PROVE a \in told \/ Told(w, a)
  BY <1>1, <1>7 DEF SettleTold, Told, ToldOfRollback
<1>8. ASSUME NEW w \in Workers, GiveUpTold(w) PROVE a \in told \/ Told(w, a)
  BY <1>1, <1>8 DEF GiveUpTold, Told, ToldWithoutReference
<1>9. QED
  BY <1>2, <1>3, <1>4, <1>5, <1>6, <1>7, <1>8
  DEF AnswerNext, CrashTold, SilentStep, answerVars
-----------------------------------------------------------------------------
(* What the store keeps, said of the services.                             *)
LEMMA ServiceHistory ==
    ASSUME ServiceInv, [Next]_vars
    PROVE  /\ Store!DeploymentIds \subseteq Store!DeploymentIds'
           /\ Store!OperationIds \subseteq Store!OperationIds'
           /\ \A d \in Store!DeploymentIds :
                  /\ deployments[d].state \in Terminal
                         => deployments'[d] = deployments[d]
                  /\ references[d] # "none" => references'[d] # "none"
           /\ \A o \in Store!OperationIds :
                  operations[o].state # "started"
                      => operations'[o] = operations[o]
           /\ \A i \in incidents : i.status # "unresolved" => i \in incidents'
<1>1. P!TypeOK
  BY SameInvariants DEF ServiceInv
<1>2. [P!Next]_(P!storeVars)
  BY StoreStep, SameNext
<1>3. P!HistoryKept /\ P!RecordsKept
  BY <1>1, <1>2, P!HistoryStep, P!RecordsStay
<1>4. \A d \in P!DeploymentIds : references[d] \in P!ReferenceState
  BY <1>1, P!Rows
<1>5. P!DeploymentIds \subseteq P!DeploymentIds'
      /\ P!OperationIds \subseteq P!OperationIds'
  BY <1>3 DEF P!RecordsKept
<1>6. Terminal = P!Terminal
  BY DEF Terminal, P!Terminal
<1>7. \A d \in P!DeploymentIds :
          /\ deployments[d].state \in Terminal
                 => deployments'[d] = deployments[d]
          /\ references[d] # "none" => references'[d] # "none"
  BY <1>3, <1>4, <1>6 DEF P!HistoryKept, P!ReferenceState
<1>8. /\ \A o \in P!OperationIds :
             operations[o].state # "started" => operations'[o] = operations[o]
      /\ \A i \in incidents : i.status # "unresolved" => i \in incidents'
  BY <1>3 DEF P!HistoryKept
<1>9. /\ Store!DeploymentIds = P!DeploymentIds
      /\ Store!OperationIds = P!OperationIds
      /\ Store!DeploymentIds' = P!DeploymentIds'
      /\ Store!OperationIds' = P!OperationIds'
  BY DEF Store!DeploymentIds, P!DeploymentIds, Store!OperationIds,
         P!OperationIds
<1>10. QED
  BY <1>5, <1>7, <1>8, <1>9

(* What a worker holds still stands while it does not move.                *)
LEMMA StillHeld ==
    ASSUME ServiceInv, HeldInv, [Next]_vars, NEW x \in Workers,
           worker'[x] = worker[x], held'[x] = held[x]
    PROVE  HeldOK(x)'
<1>1. HeldOK(x) /\ RecordOK(worker[x])
  BY DEF HeldInv, ServiceInv
<1>2. CASE worker[x].pc = "record"
  <2>1. worker[x].id \in Store!DeploymentIds
    BY <1>1, <1>2 DEF RecordOK, Names
  <2>2. deployments'[worker[x].id] = deployments[worker[x].id]
    BY <1>1, <1>2, <2>1, ServiceHistory DEF HeldOK, RollbackEligible, Terminal
  <2>3. QED
    BY <1>1, <1>2, <2>2 DEF HeldOK
<1>3. QED
  BY <1>1, <1>2 DEF HeldOK, NothingHeld

(* w moves to t and answers, or holds what it will answer.                 *)
LEMMA HeldByTeller ==
    ASSUME ServiceInv, HeldInv, [Next]_vars, NEW w \in Workers, NEW t,
           worker' = [worker EXCEPT ![w] = t], NEW o, Tells(w, o),
           t.pc = "record" => /\ o.state \in RollbackEligible
                              /\ deployments'[t.id].state = o.state
    PROVE  HeldInv'
<1>1. /\ worker'[w] = t
      /\ \A x \in Workers : x # w => worker'[x] = worker[x]
  BY DEF ServiceInv
<1>2. Idle.pc = "idle"
  BY DEF Idle
<1>3. PICK h : /\ held' = [held EXCEPT ![w] = h]
               /\ t.pc = "record" => h = [state |-> o.state,
                                          replay |-> o.idempotent_replay]
               /\ t.pc # "record" => h = NothingHeld
  BY <1>1, <1>2 DEF Tells
<1>4. /\ held' = [x \in Workers |-> held'[x]] /\ held'[w] = h
      /\ \A x \in Workers : x # w => held'[x] = held[x]
  BY <1>3 DEF HeldInv
<1>5. HeldOK(w)'
  BY <1>1, <1>3, <1>4 DEF HeldOK
<1>6. QED
  BY <1>1, <1>4, <1>5, StillHeld DEF HeldInv

(* w moves to t without a word.                                            *)
LEMMA HeldSilently ==
    ASSUME ServiceInv, HeldInv, [Next]_vars, NEW w \in Workers, NEW t,
           worker' = [worker EXCEPT ![w] = t], UNCHANGED held,
           worker[w].pc # "record", t.pc # "record"
    PROVE  HeldInv'
<1>1. /\ worker'[w] = t
      /\ \A x \in Workers : x # w => worker'[x] = worker[x]
  BY DEF ServiceInv
<1>2. HeldOK(w)'
  BY <1>1 DEF HeldInv, HeldOK, NothingHeld
<1>3. QED
  BY <1>1, <1>2, StillHeld DEF HeldInv

(* Returned remembers the state for as long as the reference is recorded.  *)
LEMMA ReturnedRecords ==
    ASSUME NEW p, NEW e, NEW d, NEW s, Returned(p, e, d, s).pc = "record"
    PROVE  Returned(p, e, d, s).id = d /\ s \in RollbackEligible
BY DEF Returned, Recording, Idle

(* The requests that answer. *)
LEMMA HeldByAnswers ==
    ASSUME ServiceInv, StoreInv, HeldInv, [Next]_vars, NEW w \in Workers
    PROVE  /\ ReuseTold(w) => HeldInv'
           /\ AdvanceTold(w) => HeldInv'
           /\ FinishAttemptTold(w) => HeldInv'
           /\ RecordTold(w) => HeldInv'
           /\ TimeOutTold(w) => HeldInv'
           /\ SettleTold(w) => HeldInv'
           /\ GiveUpTold(w) => HeldInv'
<1>1. /\ worker[w] \in Tasks /\ HeldOK(w) /\ Idle.pc = "idle"
  BY DEF ServiceInv, HeldInv, Idle
<1>2. ASSUME ReuseTold(w) PROVE HeldInv'
  <2>1. PICK d \in Store!BoundTo(worker[w].req.key) :
            worker' = [worker EXCEPT ![w] =
                           Returned(Home[w], worker[w].env, d,
                                    deployments[d].state)]
    BY <1>2 DEF ReuseTold, Reuse, GoTo
  <2>2. PICK e \in Store!BoundTo(worker[w].req.key) :
            Tells(w, DeployOutcome(e, deployments[e].state, TRUE, FALSE))
    BY <1>2 DEF ReuseTold
  <2>3. d = e
    BY DEF Store!BoundTo, StoreInv, Store!IdentityStable
  <2>4. PICK env, s, t, o : /\ env = worker[w].env /\ s = deployments[d].state
                            /\ t = Returned(Home[w], env, d, s)
                            /\ o = DeployOutcome(d, s, TRUE, FALSE)
    OBVIOUS
  <2>5. worker' = [worker EXCEPT ![w] = t] /\ Tells(w, o)
    BY <2>1, <2>2, <2>3, <2>4
  <2>6. UNCHANGED deployments
    BY <1>2 DEF ReuseTold, Reuse, storeVars
  <2>7. t.pc = "record" => t.id = d /\ s \in RollbackEligible
    BY <2>4, ReturnedRecords
  <2>8. o.state = s
    BY <2>4 DEF DeployOutcome
  <2>9. QED
    BY <2>4, <2>5, <2>6, <2>7, <2>8, HeldByTeller
<1>3. ASSUME AdvanceTold(w) PROVE HeldInv'
  <2>1. PICK u, t, o : /\ u = worker[w] /\ t = AfterTransition(Home[w], u)
                       /\ o = DeployOutcome(u.id, u.goal, FALSE, FALSE)
    OBVIOUS
  <2>2. worker' = [worker EXCEPT ![w] = t] /\ Tells(w, o) /\ Advance(w)
    BY <1>3, <2>1 DEF AdvanceTold, Advance, GoTo
  <2>3. deployments'[u.id].state = u.goal
    BY <2>1, <2>2, Decides
  <2>4. \A a : Doing("start", u.env, "deployment", u.id, a, 1).pc = "start"
    BY DEF Doing
  <2>5. AfterTransition(Home[w], u).pc = "record" =>
            AfterTransition(Home[w], u).id = u.id /\ u.goal \in RollbackEligible
    BY <2>4, ReturnedRecords DEF AfterTransition
  <2>6. o.state = u.goal
    BY <2>1 DEF DeployOutcome
  <2>7. QED
    BY <2>1, <2>2, <2>3, <2>5, <2>6, HeldByTeller
<1>4. ASSUME FinishAttemptTold(w) PROVE HeldInv'
  <2>1. PICK t, o : /\ t = AfterAttempt(Home[w], worker[w])
                    /\ worker' = [worker EXCEPT ![w] = t] /\ Tells(w, o)
                    /\ worker[w].pc = "finish"
    BY <1>4 DEF FinishAttemptTold, FinishAttempt, GoTo
  <2>2. /\ \A e, d, a, n :
               Doing("start", e, "deployment", d, a, n).pc = "start"
        /\ \A e, d, m, g : Moving(e, d, m, g).pc = "transition"
    BY DEF Doing, Moving
  <2>3. t.pc # "record"
    BY <1>1, <2>1, <2>2, AfterAttemptCases
  <2>4. QED
    BY <2>1, <2>3, HeldByTeller
<1>5. ASSUME NEW o, GoTo(w, Idle), Tells(w, o)
      PROVE  HeldInv'
  <2>1. worker' = [worker EXCEPT ![w] = Idle]
    BY <1>5 DEF GoTo
  <2>2. PICK t : t = Idle
    OBVIOUS
  <2>3. QED
    BY <1>1, <1>5, <2>1, <2>2, HeldByTeller
<1>6. ASSUME RecordTold(w) PROVE HeldInv'
  <2>1. PICK o : /\ o = DeployOutcome(worker[w].id, held[w].state,
                                      held[w].replay, TRUE)
                 /\ Tells(w, o) /\ GoTo(w, Idle)
    BY <1>6 DEF RecordTold, Record
  <2>2. QED
    BY <1>5, <2>1
<1>7. ASSUME TimeOutTold(w) PROVE HeldInv'
  <2>1. PICK o : Tells(w, o)
    BY <1>7 DEF TimeOutTold
  <2>2. CASE GoTo(w, Idle)
    BY <1>5, <2>1, <2>2
  <2>3. CASE GoTo(w, Finishing(worker[w], "timeout"))
    <3>1. PICK t : t = Finishing(worker[w], "timeout")
      OBVIOUS
    <3>2. worker' = [worker EXCEPT ![w] = t] /\ t.pc # "record"
      BY <2>3, <3>1 DEF GoTo, Finishing
    <3>3. QED
      BY <2>1, <3>2, HeldByTeller
  <2>4. QED
    BY <1>7, <2>2, <2>3 DEF TimeOutTold, TimeOut
<1>8. ASSUME SettleTold(w) PROVE HeldInv'
  <2>1. GoTo(w, Idle) /\ worker[w].pc = "settle"
    BY <1>8 DEF SettleTold, Settle
  <2>2. ASSUME NEW o, o = RollbackOutcome(worker[w].id,
                                          operations'[worker[w].id].state),
               Tells(w, o)
        PROVE  HeldInv'
    BY <1>5, <2>1, <2>2
  <2>3. CASE UNCHANGED held
    BY <1>1, <2>1, <2>3, HeldSilently DEF GoTo
  <2>4. QED
    BY <1>8, <2>2, <2>3 DEF SettleTold
<1>9. ASSUME GiveUpTold(w) PROVE HeldInv'
  <2>1. GoTo(w, Idle)
    BY <1>9 DEF GiveUpTold, GiveUp
  <2>2. CASE worker[w].pc = "record"
    <3>1. PICK o : /\ o = DeployOutcome(worker[w].id, held[w].state,
                                        held[w].replay, FALSE)
                   /\ Tells(w, o)
      BY <1>9, <2>2 DEF GiveUpTold
    <3>2. QED
      BY <1>5, <2>1, <3>1
  <2>3. CASE worker[w].pc # "record"
    BY <1>1, <1>9, <2>1, <2>3, HeldSilently DEF GiveUpTold, GoTo
  <2>4. QED
    BY <2>2, <2>3
<1>10. QED
  BY <1>2, <1>3, <1>4, <1>6, <1>7, <1>8, <1>9

(* A request that says nothing neither begins nor ends a recording.        *)
LEMMA HeldInSilence ==
    ASSUME ServiceInv, HeldInv, [Next]_vars, SilentStep
    PROVE  HeldInv'
<1>1. UNCHANGED held
  BY DEF SilentStep
<1>2. ASSUME UNCHANGED worker PROVE HeldInv'
  BY <1>1, <1>2, StillHeld DEF HeldInv
<1>3. ASSUME NEW w \in Workers, NEW t, worker' = [worker EXCEPT ![w] = t],
             worker[w].pc # "record", t.pc # "record"
      PROVE  HeldInv'
  BY <1>1, <1>3, HeldSilently
<1>4. /\ \A pc, r : Accepted(pc, r).pc = pc
      /\ \A e, d, m, g : Moving(e, d, m, g).pc = "transition"
      /\ \A e, k, d, a, n : Doing("start", e, k, d, a, n).pc = "start"
      /\ \A e, d : Considering("reference", e, d).pc = "reference"
      /\ \A t, r : Finishing(t, r).pc = "finish"
      /\ \A e, d, s : Settling(e, d, s).pc = "settle"
      /\ Idle.pc = "idle"
  BY DEF Accepted, Moving, Doing, Considering, Finishing, Settling, Idle
<1>5. ASSUME NEW w \in Workers, NEW req \in Requests, Submit(w, req)
      PROVE  HeldInv'
  <2>1. PICK t : t = Accepted("conflict", req)
    OBVIOUS
  <2>2. t.pc = "conflict"
    BY <2>1 DEF Accepted
  <2>3. worker' = [worker EXCEPT ![w] = t] /\ worker[w].pc = "idle"
    BY <1>5, <2>1 DEF Submit, TryAcquire, Idle
  <2>4. QED
    BY <1>3, <2>2, <2>3
<1>6. ASSUME NEW w \in Workers, NEW d, RequestRollback(w, d) PROVE HeldInv'
  BY <1>3, <1>4, <1>6 DEF RequestRollback, GoTo
<1>7. ASSUME NEW w \in Workers, CheckConflict(w) \/ Reserve(w) \/ Begin(w)
      PROVE  HeldInv'
  BY <1>3, <1>4, <1>7 DEF CheckConflict, Reserve, Begin, GoTo
<1>8. ASSUME NEW w \in Workers, NEW q \in {"call", "acquire", "begin"},
             worker[w].pc \in {"start", "reference", "acquire"},
             worker' = [worker EXCEPT ![w] = [worker[w] EXCEPT !.pc = q]]
      PROVE  HeldInv'
  <2>1. PICK u : u = worker[w] /\ u \in Tasks
    BY DEF ServiceInv
  <2>2. [u EXCEPT !.pc = q].pc = q
    BY <1>8, <2>1 DEF Tasks, Idle
  <2>3. QED
    BY <1>3, <1>8, <2>1, <2>2
<1>9. ASSUME NEW w \in Workers,
             StartCall(w) \/ FindReference(w) \/ AcquireForRollback(w)
      PROVE  HeldInv'
  BY <1>8, <1>9 DEF StartCall, FindReference, AcquireForRollback, TryAcquire,
                    GoTo
<1>10. ASSUME NEW w \in Workers, NEW r \in {"ok", "failed"},
              Reply(w, r) \/ (LoseReply(w) /\ r = "failed")
       PROVE  HeldInv'
  <2>1. PICK u : u = worker[w] /\ u \in Tasks /\ u.pc = "call"
    BY <1>10 DEF ServiceInv, Reply, LoseReply
  <2>2. AfterReply(u, r).pc # "record"
    BY <1>4, <2>1, AfterReplyCases, TaskFields DEF RecordKind
  <2>3. QED
    BY <1>3, <1>10, <2>1, <2>2 DEF Reply, LoseReply, GoTo
<1>11. ASSUME NEW p \in Processes, Start(p) \/ Recover(p) PROVE UNCHANGED worker
  BY <1>11 DEF Start, Recover, RecoverDeployment, ReadOperations,
               RecoverOperation, Serve
<1>12. ASSUME NEW c, RemoteEnds(c) \/ Acknowledge(c) PROVE UNCHANGED worker
  BY <1>12 DEF RemoteEnds, Acknowledge
<1>13. QED
  BY <1>2, <1>5, <1>6, <1>7, <1>9, <1>10, <1>11, <1>12 DEF SilentStep

(* What is held stands, in every step.                                     *)
LEMMA HeldStep ==
    ASSUME ServiceInv, StoreInv, HeldInv, [AnswerNext]_answerVars
    PROVE  HeldInv'
<1>1. [Next]_vars
  BY AnswerIsStep
<1>2. ASSUME NEW p \in Processes, CrashTold(p) PROVE HeldInv'
  <2>1. /\ worker' = [w \in Workers |-> IF Home[w] = p THEN Idle ELSE worker[w]]
        /\ held' = [w \in Workers |->
                        IF Home[w] = p THEN NothingHeld ELSE held[w]]
    BY <1>2 DEF CrashTold, Crash
  <2>2. Idle.pc # "record"
    BY DEF Idle
  <2>3. held' = [w \in Workers |-> held'[w]]
    BY <2>1
  <2>4. ASSUME NEW w \in Workers PROVE HeldOK(w)'
    <3>1. CASE Home[w] = p
      BY <2>1, <2>2, <3>1 DEF HeldOK
    <3>2. CASE Home[w] # p
      BY <1>1, <2>1, <3>2, StillHeld
    <3>3. QED
      BY <3>1, <3>2
  <2>5. QED
    BY <2>3, <2>4 DEF HeldInv
<1>3. CASE UNCHANGED answerVars
  BY <1>1, <1>3, StillHeld DEF answerVars, vars, HeldInv
<1>4. QED
  BY <1>1, <1>2, <1>3, HeldByAnswers, HeldInSilence DEF AnswerNext
-----------------------------------------------------------------------------
(* What was told.                                                          *)

(* An answer goes on being true, whatever happens next.                    *)
LEMMA ToldStays ==
    ASSUME ServiceInv, [Next]_vars, NEW a,
           Named(a), Stands(a), Referenced(a)
    PROVE  (Named(a) /\ Stands(a) /\ Referenced(a))'
<1>1. Named(a)'
  BY ServiceHistory DEF Named, Store!OperationState
<1>2. Stands(a)'
  BY ServiceHistory DEF Named, Stands
<1>3. Referenced(a)'
  BY ServiceHistory DEF Named, Referenced
<1>4. QED
  BY <1>1, <1>2, <1>3

(* An answer is true when it is given.                                     *)
LEMMA ToldTruly ==
    ASSUME ServiceInv, HeldInv, [Next]_vars, NEW w \in Workers,
           NEW a, Told(w, a)
    PROVE  (Named(a) /\ Stands(a) /\ Referenced(a))'
<1>1. PICK u : u = worker[w] /\ u \in Tasks /\ RecordOK(u)
  BY DEF ServiceInv
<1>2. P!TypeOK /\ Store!DeploymentIds = P!DeploymentIds
      /\ Store!OperationIds = P!OperationIds
  BY SameInvariants, SameSets DEF ServiceInv
<1>3. \A d \in Store!DeploymentIds : deployments[d].state \in DeploymentState
  BY <1>2, P!Rows DEF DeploymentState, P!DeploymentState
<1>4. /\ Store!DeploymentIds \subseteq Store!DeploymentIds'
      /\ Store!OperationIds \subseteq Store!OperationIds'
  BY ServiceHistory
<1>5. CASE ToldOfReplay(w, a)
  <2>1. PICK d \in Store!DeploymentIds :
            a = DeployOutcome(d, deployments[d].state, TRUE, FALSE)
    BY <1>5 DEF ToldOfReplay, Store!BoundTo
  <2>2. UNCHANGED storeVars
    BY <1>5 DEF ToldOfReplay, Reuse
  <2>3. QED
    BY <1>3, <1>4, <2>1, <2>2
    DEF storeVars, DeployOutcome, Named, Stands, Referenced
<1>6. CASE ToldOfDecision(w, a)
  <2>1. u.id \in Store!DeploymentIds /\ u.goal \in DeploymentState
    BY <1>1, <1>6, TaskFields
    DEF ToldOfDecision, Advance, RecordOK, Names, Drives
  <2>2. deployments'[u.id].state = u.goal
    BY <1>1, <1>6, Decides DEF ToldOfDecision
  <2>3. a = DeployOutcome(u.id, u.goal, FALSE, FALSE)
    BY <1>1, <1>6 DEF ToldOfDecision
  <2>4. QED
    BY <1>4, <2>1, <2>2, <2>3
    DEF DeployOutcome, Named, Stands, Referenced
<1>7. CASE ToldOfTimeout(w, a)
  <2>1. u.id \in Store!DeploymentIds /\ u.act \in Activity
    BY <1>1, <1>7, TaskFields
    DEF ToldOfTimeout, FinishAttempt, RecordOK, Names, Drives
  <2>2. StateDuring[u.act] \in DeploymentState \ Terminal
    BY <2>1, Tables DEF NonTerminal
  <2>3. a = DeployOutcome(u.id, StateDuring[u.act], FALSE, FALSE)
    BY <1>1, <1>7 DEF ToldOfTimeout
  <2>4. QED
    BY <1>4, <2>1, <2>2, <2>3
    DEF DeployOutcome, Named, Stands, Referenced
<1>8. ASSUME u.pc = "record"
      PROVE  /\ u.id \in Store!DeploymentIds
             /\ held[w].state \in RollbackEligible
             /\ deployments'[u.id].state = held[w].state
  <2>1. u.id \in Store!DeploymentIds
    BY <1>1, <1>8 DEF RecordOK, Names
  <2>2. /\ held[w].state \in RollbackEligible
        /\ deployments[u.id].state = held[w].state
    BY <1>1, <1>8 DEF HeldInv, HeldOK
  <2>3. QED
    BY <2>1, <2>2, ServiceHistory DEF RollbackEligible, Terminal
<1>9. CASE ToldOfReference(w, a)
  <2>1. u.pc = "record" /\ Store!RecordReference(u.id)
    BY <1>1, <1>9 DEF ToldOfReference, Record
  <2>2. u.id \in P!DeploymentIds /\ P!RecordReference(u.id)
    BY <1>2, <1>8, <2>1, SameActions
  <2>3. references'[u.id] = "active"
    BY <1>2, <2>2, P!RecordEffect
  <2>4. a = DeployOutcome(u.id, held[w].state, held[w].replay, TRUE)
    BY <1>1, <1>9 DEF ToldOfReference
  <2>5. QED
    BY <1>4, <1>8, <2>1, <2>3, <2>4
    DEF DeployOutcome, Named, Stands, Referenced, RollbackEligible,
        DeploymentState
<1>10. CASE ToldWithoutReference(w, a)
  <2>1. /\ a = DeployOutcome(u.id, held[w].state, held[w].replay, FALSE)
        /\ u.pc = "record"
    BY <1>1, <1>10 DEF ToldWithoutReference
  <2>2. QED
    BY <1>4, <1>8, <2>1
    DEF DeployOutcome, Named, Stands, Referenced, RollbackEligible,
        DeploymentState
<1>11. CASE ToldOfExpiry(w, a)
  <2>1. a = RollbackOutcome(u.id, "started")
    BY <1>1, <1>11 DEF ToldOfExpiry
  <2>2. u.pc \in {"start", "call"} /\ u.kind = "rollback_operation"
    <3>1. worker'[w] = Idle /\ Finishing(u, "timeout") # Idle
      BY <1>11 DEF ToldOfExpiry, Finishing, Idle
    <3>2. \A t : GoTo(w, t) => worker'[w] = t
      BY DEF GoTo, ServiceInv
    <3>3. QED
      BY <1>1, <1>11, <3>1, <3>2 DEF ToldOfExpiry, TimeOut
  <2>3. u.id \in Store!OperationIds
    BY <1>1, <2>2 DEF RecordOK, Operates
  <2>4. QED
    BY <1>4, <2>1, <2>3
    DEF RollbackOutcome, Named, Stands, Referenced, Store!OperationState
<1>12. CASE ToldOfRollback(w, a)
  <2>1. /\ u.id \in Store!OperationIds /\ u.outcome \in {"succeeded", "failed"}
        /\ Store!FinishOperation(u.id, u.outcome)
    BY <1>1, <1>12, TaskFields
    DEF ToldOfRollback, Settle, RecordOK, Operates
  <2>2. PICK o \in P!OperationIds, s \in {"succeeded", "failed"} :
            /\ o = u.id /\ s = u.outcome
            /\ operations' = [operations EXCEPT ![o].state = s]
    BY <1>2, <2>1 DEF Store!FinishOperation
  <2>3. operations'[u.id].state = u.outcome
    <3>1. \A c \in P!OperationIds :
              operations'[c].state = IF c = o THEN s ELSE operations[c].state
      BY <1>2, <2>2, P!CloseEffect
    <3>2. QED
      BY <2>2, <3>1
  <2>4. a = RollbackOutcome(u.id, u.outcome)
    BY <1>1, <1>12, <2>3 DEF ToldOfRollback
  <2>5. QED
    BY <1>4, <2>1, <2>3, <2>4
    DEF RollbackOutcome, Named, Stands, Referenced, Store!OperationState
<1>13. QED
  BY <1>5, <1>6, <1>7, <1>9, <1>10, <1>11, <1>12 DEF Told

(* Everything told is true in every state.                                 *)
LEMMA ToldCorrect == AnswerSpec => [](HeldInv /\ ToldInv)
<1>1. AnswerInit => HeldInv /\ ToldInv
  <2>1. Idle.pc # "record"
    BY DEF Idle
  <2>2. QED
    BY <2>1 DEF AnswerInit, Init, HeldInv, HeldOK, ToldInv
<1>2. ServiceInv /\ StoreInv /\ HeldInv /\ ToldInv /\ [AnswerNext]_answerVars
          => (HeldInv /\ ToldInv)'
  BY AnswerIsStep, HeldStep, NewAnswers, ToldStays, ToldTruly DEF ToldInv
<1>3. QED
  BY <1>1, <1>2, AnswersImplement, ServiceCorrect, StoreOfService, PTL
  DEF AnswerSpec
-----------------------------------------------------------------------------
(* The type invariant of the answers.                                      *)
THEOREM AnswersTyped == AnswerSpec => []AnswersTypeOK
<1>1. TypeOK /\ HeldInv /\ ToldInv => AnswersTypeOK
  BY DEF AnswersTypeOK, HeldInv, HeldOK, ToldInv, Named
<1>2. QED
  BY <1>1, AnswersImplement, ServiceTypeCorrect, ToldCorrect, PTL

(* A final state that a client was told stays what the store says, in any  *)
(* number of processes, whatever stops, restarts, recovers and is lost.    *)
THEOREM AnswersStandCorrect == AnswerSpec => []AnswersStand
<1>1. ToldInv => AnswersStand
  BY DEF ToldInv, Stands, AnswersStand
<1>2. QED
  BY <1>1, ToldCorrect, PTL

(* A rollback reference that a client was told of can be used for as long  *)
(* as its deployment is the latest and was not rolled back.                *)
THEOREM ReferenceToldCorrect == AnswerSpec => []ReferenceToldIsKept
<1>1. ServiceInv /\ P!ReferenceInv /\ P!ConsumedByOneRollback
          /\ P!SupersededOlder /\ ToldInv => ReferenceToldIsKept
  <2> SUFFICES ASSUME ServiceInv, P!ReferenceInv, P!ConsumedByOneRollback,
                      P!SupersededOlder, ToldInv, NEW a \in told,
                      a.rollback_reference_available,
                      Store!EligibleSource(a.id),
                      \A o \in Store!OperationIds :
                          operations[o].source = a.id
                              => operations[o].state # "succeeded"
               PROVE  references[a.id] = "active" /\ Store!ReferenceVisible(a.id)
    BY DEF ReferenceToldIsKept
  <2>1. references[a.id] # "none"
    BY DEF ToldInv, Referenced
  <2>2. P!TypeOK /\ a.id \in P!DeploymentIds /\ P!IsLatest(a.id)
    BY SameInvariants, SameSets
    DEF ServiceInv, Store!EligibleSource, Store!IsLatest, P!IsLatest
  <2>3. references[a.id] # "consumed"
    BY <2>2, SameSets DEF P!ConsumedByOneRollback
  <2>4. references[a.id] # "superseded"
    BY <2>2 DEF P!SupersededOlder
  <2>5. references[a.id] = "active"
    BY <2>1, <2>2, <2>3, <2>4, P!Rows DEF P!ReferenceState
  <2>6. a.id \notin pruned
    BY <2>5 DEF P!ReferenceInv, P!PrunedInactive
  <2>7. QED
    BY <2>5, <2>6 DEF Store!ReferenceVisible
<1>2. QED
  BY <1>1, AnswersImplement, ServiceCorrect, ReferencesOfService, ToldCorrect,
     PTL
-----------------------------------------------------------------------------
(* Answers that left the outcome open.                                     *)

(* The record is open past its first side effect, and no request is on it. *)
StillOpen(a) ==
    \/ /\ a.tool = "deploy_application"
       /\ deployments[a.id].state \in NonTerminal \cap HasLiveMutationStarted
       /\ \A w \in Workers : Drives(worker[w]) => worker[w].id # a.id
    \/ /\ a.tool = "rollback_deployment"
       /\ operations[a.id].state = "started"
       /\ \A w \in Workers : Operates(worker[w]) => worker[w].id # a.id

(* Recovery has closed the record, and left its effects to an operator.    *)
Reported(a) ==
    \E i \in incidents : /\ i.kind = KindOf(a) /\ i.subject = a.id
                         /\ i.status \in {"unresolved", "acknowledged"}

OpenInv == \A a \in told : Unfinished(a) => StillOpen(a) \/ Reported(a)

(* Nobody takes up a record that is there already.                         *)
LEMMA DrivenBefore ==
    ASSUME ServiceInv, [Next]_vars, NEW w \in Workers
    PROVE  /\ Drives(worker'[w]) =>
                  \/ Drives(worker[w]) /\ worker'[w].id = worker[w].id
                  \/ worker'[w].id = Len(deployments) + 1
           /\ Operates(worker'[w]) =>
                  \/ Operates(worker[w]) /\ worker'[w].id = worker[w].id
                  \/ worker'[w].id = Len(operations) + 1
<1>1. PICK u, t : u = worker[w] /\ t = worker'[w] /\ Goes(w, u, t)
  BY WorkerGoes
<1>2. /\ Drives(t) => \/ Drives(u) /\ t.id = u.id
                      \/ t.id = Len(deployments) + 1
      /\ Operates(t) => \/ Operates(u) /\ t.id = u.id
                        \/ t.id = Len(operations) + 1
  BY <1>1 DEF Goes, Quiet, Same, Reserved, Advanced, Called, Answered,
              RollbackAnswered, AttemptRepeated, AttemptDecided, Began,
              Drives, Operates
<1>3. QED
  BY <1>1, <1>2

(* An incident that calls for an operator stays, until acknowledged.       *)
LEMMA ReportedStays ==
    ASSUME [Next]_vars, NEW a, Reported(a)
    PROVE  Reported(a)'
<1>1. PICK i \in incidents : /\ i.kind = KindOf(a) /\ i.subject = a.id
                             /\ i.status \in {"unresolved", "acknowledged"}
  BY DEF Reported
<1>2. CASE incidents \subseteq incidents'
  BY <1>1, <1>2 DEF Reported, KindOf
<1>3. ASSUME NEW j \in incidents, Acknowledge(j) PROVE Reported(a)'
  <2>1. incidents' = (incidents \ {j}) \cup {[j EXCEPT !.status = "acknowledged"]}
    BY <1>3 DEF Acknowledge, Store!Acknowledge
  <2>2. CASE i = j
    <3>1. PICK k : k = [j EXCEPT !.status = "acknowledged"]
      OBVIOUS
    <3>2. k.kind = j.kind /\ k.subject = j.subject
      BY <3>1
    <3>3. k.status = "acknowledged"
      BY <1>3, <3>1 DEF Acknowledge, Store!Acknowledge
    <3>4. QED
      BY <1>1, <2>1, <2>2, <3>1, <3>2, <3>3 DEF Reported, KindOf
  <2>3. CASE i # j
    BY <1>1, <2>1, <2>3 DEF Reported, KindOf
  <2>4. QED
    BY <2>2, <2>3
<1>4. QED
  BY <1>2, <1>3, IncidentSteps

(* Only recovery closes a record that no request is on.                    *)
LEMMA OpenStays ==
    ASSUME ServiceInv, [Next]_vars, NEW a, Named(a), StillOpen(a)
    PROVE  (StillOpen(a) \/ Reported(a))'
<1>1. CASE a.tool = "deploy_application"
  <2>1. /\ a.id \in Store!DeploymentIds
        /\ deployments[a.id].state \in NonTerminal \cap HasLiveMutationStarted
        /\ \A w \in Workers : Drives(worker[w]) => worker[w].id # a.id
    BY <1>1 DEF Named, StillOpen
  <2>2. a.id # Len(deployments) + 1
    BY <2>1, SameInvariants, P!Rows DEF ServiceInv, Store!DeploymentIds
  <2>3. \A w \in Workers : Drives(worker'[w]) => worker'[w].id # a.id
    BY <2>1, <2>2, DrivenBefore
  <2>4. CASE deployments'[a.id].state = deployments[a.id].state
    BY <1>1, <2>1, <2>3, <2>4 DEF StillOpen
  <2>5. CASE Store!RecoverDeployment(a.id, deployments[a.id].state)
    <3>1. PICK i : /\ incidents' = incidents \cup {i}
                   /\ i.kind = "deployment" /\ i.subject = a.id
                   /\ i.status = Store!Disposition(deployments[a.id].state)
      BY <2>5, RecoveryLeavesIncident
    <3>2. i.status = "unresolved"
      BY <2>1, <3>1 DEF Store!Disposition, Store!HasLiveMutationStarted,
                        HasLiveMutationStarted
    <3>3. QED
      BY <1>1, <3>1, <3>2 DEF Reported, KindOf
  <2>6. \A w \in Workers : Advance(w) => worker[w].id # a.id
    BY <2>1 DEF Advance, Drives
  <2>7. QED
    BY <2>1, <2>4, <2>5, <2>6, DeploymentFate
<1>2. CASE a.tool = "rollback_deployment"
  <2>1. /\ a.id \in Store!OperationIds
        /\ operations[a.id].state = "started"
        /\ \A w \in Workers : Operates(worker[w]) => worker[w].id # a.id
    BY <1>2 DEF Named, StillOpen
  <2>2. a.id # Len(operations) + 1
    BY <2>1, SameInvariants, P!Rows DEF ServiceInv, Store!OperationIds
  <2>3. \A w \in Workers : Operates(worker'[w]) => worker'[w].id # a.id
    BY <2>1, <2>2, DrivenBefore
  <2>4. CASE operations'[a.id].state = operations[a.id].state
    BY <1>2, <2>1, <2>3, <2>4 DEF StillOpen
  <2>5. CASE Store!RecoverOperation(a.id)
    BY <1>2, <2>5, OperationRecoveryLeavesIncident DEF Reported, KindOf
  <2>6. \A w \in Workers : Settle(w) => worker[w].id # a.id
    BY <2>1 DEF Settle, Operates
  <2>7. QED
    BY <2>1, <2>4, <2>5, <2>6, OperationFate
<1>3. QED
  BY <1>1, <1>2 DEF Named

(* A request leaves its record open by a timeout only, past the first side *)
(* effect, and it was the only request on that record.                     *)
LEMMA LeftOpen ==
    ASSUME RunningInv, HeldInv, OnRecords, [Next]_vars, NEW w \in Workers,
           NEW a, Told(w, a), Unfinished(a)
    PROVE  StillOpen(a)'
<1>1. PICK u : u = worker[w] /\ u \in Tasks /\ RecordOK(u) /\ OnRecord(u)
  BY DEF RunningInv, ServiceInv, OnRecords
<1>2. ~ToldOfReplay(w, a)
  BY DEF ToldOfReplay, DeployOutcome, Unfinished
<1>3. ~ToldOfDecision(w, a)
  <2> SUFFICES ASSUME ToldOfDecision(w, a) PROVE FALSE
    OBVIOUS
  <2>1. /\ u.pc = "transition" /\ <<u.mem, u.goal>> \in CanTransition
        /\ a = DeployOutcome(u.id, u.goal, FALSE, FALSE)
    BY <1>1 DEF ToldOfDecision, Advance, Store!Transition,
                Store!CanTransition, CanTransition
  <2>2. AfterTransition(Home[w], u) = Idle
    BY <1>1 DEF ToldOfDecision, Advance, GoTo, RunningInv, ServiceInv
  <2>3. \A x \in Activity :
            Doing("start", u.env, "deployment", u.id, x, 1) # Idle
    BY DEF Doing, Idle
  <2>4. u.goal \in Terminal
    BY <1>1, <2>1, <2>2, <2>3, AfterTransitionCases
  <2>5. QED
    BY <2>1, <2>4 DEF DeployOutcome, Unfinished, NonTerminal
<1>4. ~ToldOfReference(w, a) /\ ~ToldWithoutReference(w, a)
  <2>1. u.pc = "record" => held[w].state \in Terminal
    BY <1>1 DEF HeldInv, HeldOK, RollbackEligible, Terminal
  <2>2. QED
    BY <1>1, <2>1 DEF ToldOfReference, ToldWithoutReference, Record,
                      DeployOutcome, Unfinished, NonTerminal
<1>5. ~ToldOfRollback(w, a)
  <2> SUFFICES ASSUME ToldOfRollback(w, a) PROVE FALSE
    OBVIOUS
  <2>1. PICK o \in P!OperationIds, s \in {"succeeded", "failed"} :
            /\ o = u.id /\ operations' = [operations EXCEPT ![o].state = s]
    BY <1>1, SameSets, TaskFields
    DEF ToldOfRollback, Settle, Store!FinishOperation
  <2>2. P!TypeOK
    BY SameInvariants DEF RunningInv, ServiceInv
  <2>3. \A c \in P!OperationIds :
            operations'[c].state = IF c = o THEN s ELSE operations[c].state
    BY <2>1, <2>2, P!CloseEffect
  <2>4. a = RollbackOutcome(u.id, s)
    BY <1>1, <2>1, <2>3 DEF ToldOfRollback
  <2>5. QED
    BY <2>1, <2>4 DEF RollbackOutcome, Unfinished
<1>6. ASSUME NEW x \in Workers, worker'[w] = Idle, GoTo(w, Idle)
      PROVE  /\ Drives(worker'[x]) =>
                    Drives(worker[x]) /\ worker'[x] = worker[x] /\ x # w
             /\ Operates(worker'[x]) =>
                    Operates(worker[x]) /\ worker'[x] = worker[x] /\ x # w
  <2>1. ~Drives(Idle) /\ ~Operates(Idle)
    BY DEF Drives, Operates, Idle
  <2>2. x # w => worker'[x] = worker[x]
    BY <1>6 DEF GoTo, RunningInv, ServiceInv
  <2>3. QED
    BY <1>6, <2>1, <2>2
<1>7. CASE ToldOfTimeout(w, a)
  <2>1. /\ u.pc = "finish" /\ AfterAttempt(Home[w], u) = Idle /\ GoTo(w, Idle)
        /\ worker'[w] = Idle
        /\ a = DeployOutcome(u.id, StateDuring[u.act], FALSE, FALSE)
    BY <1>1, <1>7 DEF ToldOfTimeout, FinishAttempt, GoTo, RunningInv, ServiceInv
  <2>2. /\ \A e, d, x, n : Doing("start", e, "deployment", d, x, n) # Idle
        /\ \A e, d, m, g : Moving(e, d, m, g) # Idle
    BY DEF Doing, Moving, Idle
  <2>3. StateDuring[u.act] \in HasLiveMutationStarted
    BY <1>1, <2>1, <2>2, AfterAttemptCases
  <2>4. StateDuring[u.act] \in NonTerminal
    BY <1>1, <2>1, TaskFields, Tables
  <2>5. deployments'[u.id].state = StateDuring[u.act]
    BY <1>1, <1>7, <2>1 DEF ToldOfTimeout, FinishAttempt, Store!FinishStep,
                            OnRecord
  <2>6. \A x \in Workers : Drives(worker'[x]) => worker'[x].id # u.id
    BY <1>1, <1>6, <2>1, Alone DEF Drives
  <2>7. QED
    BY <2>1, <2>3, <2>4, <2>5, <2>6 DEF StillOpen, DeployOutcome
<1>8. CASE ToldOfExpiry(w, a)
  <2>1. a = RollbackOutcome(u.id, "started") /\ worker'[w] = Idle
        /\ UNCHANGED operations
    BY <1>1, <1>8 DEF ToldOfExpiry, TimeOut, storeVars
  <2>2. Operates(u) /\ GoTo(w, Idle)
    <3>1. Finishing(u, "timeout") # Idle
      BY DEF Finishing, Idle
    <3>2. \A t : GoTo(w, t) => worker'[w] = t
      BY DEF GoTo, RunningInv, ServiceInv
    <3>3. QED
      BY <1>1, <1>8, <2>1, <3>1, <3>2 DEF ToldOfExpiry, TimeOut, Operates
  <2>3. operations'[u.id].state = "started"
    BY <1>1, <2>1, <2>2 DEF OnRecord
  <2>4. \A x \in Workers : Operates(worker'[x]) => worker'[x].id # u.id
    BY <1>1, <1>6, <2>1, <2>2, Alone
  <2>5. QED
    BY <2>1, <2>3, <2>4 DEF StillOpen, RollbackOutcome
<1>9. QED
  BY <1>2, <1>3, <1>4, <1>5, <1>7, <1>8 DEF Told

(* An answer that leaves the outcome open is a promise: until an operator  *)
(* acknowledged what became of it, nothing else changes its environment.   *)
THEOREM OpenAnswersHold ==
    SingleInstance => (AnswerSpec => []OpenAnswerHoldsEnvironment)
<1> SUFFICES ASSUME SingleInstance
             PROVE  AnswerSpec => []OpenAnswerHoldsEnvironment
  OBVIOUS
<1>1. AnswerInit => OpenInv
  BY DEF AnswerInit, OpenInv
<1>2. RunningInv /\ OnRecords /\ HeldInv /\ ToldInv /\ OpenInv
          /\ [AnswerNext]_answerVars => OpenInv'
  <2> SUFFICES ASSUME RunningInv, OnRecords, HeldInv, ToldInv, OpenInv,
                      [AnswerNext]_answerVars, NEW a \in told', Unfinished(a)
               PROVE  (StillOpen(a) \/ Reported(a))'
    BY DEF OpenInv, Unfinished
  <2>1. [Next]_vars /\ ServiceInv
    BY AnswerIsStep DEF RunningInv
  <2>2. CASE a \in told
    BY <2>1, <2>2, OpenStays, ReportedStays DEF ToldInv, OpenInv
  <2>3. ASSUME NEW w \in Workers, Told(w, a) PROVE StillOpen(a)'
    BY <2>1, <2>3, LeftOpen
  <2>4. QED
    BY <2>2, <2>3, NewAnswers
<1>3. StoreInv /\ ToldInv /\ OpenInv => OpenAnswerHoldsEnvironment
  <2> SUFFICES ASSUME StoreInv, ToldInv, OpenInv, NEW a \in told, Unfinished(a),
                      ~\E i \in incidents : /\ i.kind = KindOf(a)
                                            /\ i.subject = a.id
                                            /\ i.status = "acknowledged"
               PROVE  /\ \A d \in Store!DeploymentIds :
                             /\ deployments[d].env = EnvOf(a)
                             /\ KindOf(a) = "deployment" => d # a.id
                             => deployments[d].state \in Terminal
                      /\ \A o \in Store!OperationIds :
                             /\ operations[o].env = EnvOf(a)
                             /\ KindOf(a) = "rollback_operation" => o # a.id
                             => operations[o].state # "started"
    BY DEF OpenAnswerHoldsEnvironment
  <2>1. Named(a) /\ (StillOpen(a) \/ Reported(a))
    BY DEF ToldInv, OpenInv
  <2>2. P!TypeOK /\ P!GuardExclusive /\ P!IncidentSubjectFailed
    BY SameInvariants DEF StoreInv
  <2>3. /\ Store!DeploymentIds = P!DeploymentIds
        /\ Store!OperationIds = P!OperationIds
        /\ NonTerminal = P!NonTerminal /\ Terminal = P!Terminal
    BY SameSets DEF NonTerminal, P!NonTerminal, DeploymentState,
       P!DeploymentState, Terminal, P!Terminal
  <2>4. \A d \in P!DeploymentIds :
            /\ deployments[d].env \in Environments
            /\ deployments[d].state \notin NonTerminal
                   => deployments[d].state \in Terminal
    BY <2>2, <2>3, P!Rows DEF P!NonTerminal
  <2>5. \A o \in P!OperationIds : operations[o].env \in Environments
    BY <2>2, P!Rows
  <2>6. CASE StillOpen(a) /\ a.tool = "deploy_application"
    <3>1. a.id \in P!DeploymentIds /\ deployments[a.id].state \in P!NonTerminal
      BY <2>1, <2>3, <2>6 DEF Named, StillOpen
    <3>2. EnvOf(a) = deployments[a.id].env /\ KindOf(a) = "deployment"
      BY <2>6 DEF EnvOf, KindOf
    <3>3. P!DeploymentActive(EnvOf(a)) /\ EnvOf(a) \in Environments
      BY <2>4, <3>1, <3>2 DEF P!DeploymentActive
    <3>4. ~P!RollbackStarted(EnvOf(a))
      BY <2>2, <3>3 DEF P!GuardExclusive, P!HoldersExclude
    <3>5. \A d \in P!DeploymentIds :
              deployments[d].env = EnvOf(a) /\ d # a.id
                  => deployments[d].state \notin P!NonTerminal
      BY <2>2, <3>1, <3>2 DEF P!GuardExclusive, P!OneActiveDeployment
    <3>6. QED
      BY <2>3, <2>4, <3>2, <3>4, <3>5 DEF P!RollbackStarted
  <2>7. CASE StillOpen(a) /\ a.tool = "rollback_deployment"
    <3>1. a.id \in P!OperationIds /\ operations[a.id].state = "started"
      BY <2>1, <2>3, <2>7 DEF Named, StillOpen
    <3>2. EnvOf(a) = operations[a.id].env /\ KindOf(a) = "rollback_operation"
      BY <2>7 DEF EnvOf, KindOf
    <3>3. P!RollbackStarted(EnvOf(a)) /\ EnvOf(a) \in Environments
      BY <2>5, <3>1, <3>2 DEF P!RollbackStarted
    <3>4. ~P!DeploymentActive(EnvOf(a))
      BY <2>2, <3>3 DEF P!GuardExclusive, P!HoldersExclude
    <3>5. \A o \in P!OperationIds :
              operations[o].env = EnvOf(a) /\ o # a.id
                  => operations[o].state # "started"
      BY <2>2, <3>1, <3>2 DEF P!GuardExclusive, P!OneStartedRollback
    <3>6. QED
      BY <2>3, <2>4, <3>2, <3>4, <3>5 DEF P!DeploymentActive
  <2>8. CASE Reported(a)
    <3>1. PICK i \in incidents : /\ i.kind = KindOf(a) /\ i.subject = a.id
                                 /\ i.status = "unresolved"
      BY <2>8 DEF Reported
    <3>2. i.env = EnvOf(a)
      BY <2>1, <2>2, <3>1
      DEF P!IncidentSubjectFailed, EnvOf, KindOf, Named
    <3>3. EnvOf(a) \in Environments
      BY <2>2, <3>1, <3>2, P!Rows
    <3>4. P!Quarantined(EnvOf(a))
      BY <3>1, <3>2 DEF P!Quarantined
    <3>5. ~P!DeploymentActive(EnvOf(a)) /\ ~P!RollbackStarted(EnvOf(a))
      BY <2>2, <3>3, <3>4 DEF P!GuardExclusive, P!HoldersExclude
    <3>6. QED
      BY <2>3, <2>4, <3>5 DEF P!DeploymentActive, P!RollbackStarted
  <2>9. QED
    BY <2>1, <2>6, <2>7, <2>8 DEF Named
<1>4. QED
  BY <1>1, <1>2, <1>3, AnswersImplement, RunningCorrect, OnRecordsCorrect,
     StoreOfService, ToldCorrect, PTL DEF AnswerSpec
=============================================================================
