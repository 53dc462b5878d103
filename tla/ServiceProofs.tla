---------------------------- MODULE ServiceProofs ----------------------------
(***************************************************************************)
(* Proofs about DeployService that hold of any number of processes, over   *)
(* any transport: the services use the store through its transactions      *)
(* only, leases are returned on every path, what recovery discarded never  *)
(* reaches its target, and a failure past the replacement of the artifact  *)
(* is rolled back where that can be done.                                  *)
(***************************************************************************)
EXTENDS DeployService, SequenceTheorems, FiniteSetTheorems, TLAPS

(* What is proved of the store.  DeployService names the definitions of    *)
(* the store Store!X, the proofs about the store P!X; the lemmas Same...   *)
(* say that these are the same.                                            *)
P == INSTANCE MutationStoreProofs

(* The store of the services and the store of the proofs have the same     *)
(* sets.                                                                   *)
LEMMA SameSets ==
    /\ Store!DeploymentState = P!DeploymentState
    /\ Store!NonTerminal = P!NonTerminal
    /\ Store!Terminal = P!Terminal
    /\ Store!CanTransition = P!CanTransition
    /\ Store!RollbackEligible = P!RollbackEligible
    /\ Store!HasLiveMutationStarted = P!HasLiveMutationStarted
    /\ Store!Request = P!Request
    /\ Store!DeploymentRow = P!DeploymentRow
    /\ Store!OperationRow = P!OperationRow
    /\ Store!ReferenceState = P!ReferenceState
    /\ Store!IncidentRow = P!IncidentRow
    /\ Store!DeploymentIds = P!DeploymentIds
    /\ Store!OperationIds = P!OperationIds
    /\ Store!storeVars = P!storeVars
BY DEF Store!DeploymentState, P!DeploymentState, Store!NonTerminal,
       P!NonTerminal, Store!Terminal, P!Terminal, Store!CanTransition,
       P!CanTransition, Store!RollbackEligible, P!RollbackEligible,
       Store!HasLiveMutationStarted, P!HasLiveMutationStarted, Store!Request,
       P!Request, Store!Release, P!Release, Store!DeploymentRow,
       P!DeploymentRow, Store!OperationRow, P!OperationRow,
       Store!ReferenceState, P!ReferenceState, Store!OperationState,
       P!OperationState, Store!IncidentRow, P!IncidentRow,
       Store!DeploymentIds, P!DeploymentIds, Store!OperationIds,
       P!OperationIds, Store!storeVars, P!storeVars

(* They have the same guards.                                              *)
LEMMA SameGuards ==
    /\ \A e : Store!DeploymentActive(e) <=> P!DeploymentActive(e)
    /\ \A e : Store!RollbackStarted(e) <=> P!RollbackStarted(e)
    /\ \A e : Store!Quarantined(e) <=> P!Quarantined(e)
<1>1. \A e : Store!DeploymentActive(e) <=> P!DeploymentActive(e)
  BY SameSets DEF Store!DeploymentActive, P!DeploymentActive
<1>2. \A e : Store!RollbackStarted(e) <=> P!RollbackStarted(e)
  BY SameSets DEF Store!RollbackStarted, P!RollbackStarted
<1>3. \A e : Store!Quarantined(e) <=> P!Quarantined(e)
  BY DEF Store!Quarantined, P!Quarantined
<1>4. QED
  BY <1>1, <1>2, <1>3

(* They have the same initial states and the same invariants.              *)
LEMMA SameInvariants ==
    /\ Store!Init <=> P!Init
    /\ Store!TypeOK <=> P!TypeOK
    /\ Store!GuardExclusive <=> P!GuardExclusive
    /\ Store!IncidentSubjectFailed <=> P!IncidentSubjectFailed
    /\ Store!IdentityStable <=> P!IdentityStable
<1>1. Store!Init <=> P!Init
  BY DEF Store!Init, P!Init
<1>2. Store!TypeOK <=> P!TypeOK
  BY SameSets DEF Store!TypeOK, P!TypeOK
<1>3. Store!GuardExclusive <=> P!GuardExclusive
  BY SameSets, SameGuards
  DEF Store!GuardExclusive, P!GuardExclusive, Store!OneActiveDeployment,
      P!OneActiveDeployment, Store!OneStartedRollback, P!OneStartedRollback,
      Store!OneQuarantine, P!OneQuarantine, Store!HoldersExclude,
      P!HoldersExclude
<1>4. Store!IncidentSubjectFailed <=> P!IncidentSubjectFailed
  BY SameSets DEF Store!IncidentSubjectFailed, P!IncidentSubjectFailed
<1>5. Store!IdentityStable <=> P!IdentityStable
  BY SameSets DEF Store!IdentityStable, P!IdentityStable
<1>6. QED
  BY <1>1, <1>2, <1>3, <1>4, <1>5

(* They have the same actions.                                             *)
LEMMA SameActions ==
    /\ \A req : Store!Reserve(req) <=> P!Reserve(req)
    /\ \A d, from, to : Store!Transition(d, from, to) <=> P!Transition(d, from, to)
    /\ \A d : Store!StartStep(d) <=> P!StartStep(d)
    /\ \A d : Store!FinishStep(d) <=> P!FinishStep(d)
    /\ \A d : Store!RecordReference(d) <=> P!RecordReference(d)
    /\ \A d : Store!BeginOperation(d) <=> P!BeginOperation(d)
    /\ \A o, outcome :
           Store!FinishOperation(o, outcome) <=> P!FinishOperation(o, outcome)
    /\ \A batch : Store!Prune(batch) <=> P!Prune(batch)
    /\ \A d, from : Store!RecoverDeployment(d, from) <=> P!RecoverDeployment(d, from)
    /\ \A o : Store!RecoverOperation(o) <=> P!RecoverOperation(o)
    /\ \A i : Store!Acknowledge(i) <=> P!Acknowledge(i)
<1>1. \A req : Store!Reserve(req) <=> P!Reserve(req)
  BY SameSets, SameGuards
  DEF Store!Reserve, P!Reserve, Store!MayReserve, P!MayReserve,
      Store!MayInsertDeployment, P!MayInsertDeployment, Store!BoundTo,
      P!BoundTo, Store!VersionConflict, P!VersionConflict
<1>2. \A d, from, to : Store!Transition(d, from, to) <=> P!Transition(d, from, to)
  BY SameSets DEF Store!Transition, P!Transition, Store!StateIs, P!StateIs
<1>3. \A d : Store!StartStep(d) <=> P!StartStep(d)
  BY SameSets DEF Store!StartStep, P!StartStep
<1>4. \A d : Store!FinishStep(d) <=> P!FinishStep(d)
  BY SameSets DEF Store!FinishStep, P!FinishStep
<1>5. \A d : Store!EligibleSource(d) <=> P!EligibleSource(d)
  BY SameSets DEF Store!EligibleSource, P!EligibleSource, Store!IsLatest,
                  P!IsLatest
<1>6. \A d : Store!RecordReference(d) <=> P!RecordReference(d)
  BY <1>5, SameSets DEF Store!RecordReference, P!RecordReference
<1>7. \A d : Store!BeginOperation(d) <=> P!BeginOperation(d)
  BY <1>5, SameGuards DEF Store!BeginOperation, P!BeginOperation,
                          Store!MayInsertOperation, P!MayInsertOperation
<1>8. \A o, outcome :
          Store!FinishOperation(o, outcome) <=> P!FinishOperation(o, outcome)
  BY SameSets DEF Store!FinishOperation, P!FinishOperation
<1>9. \A batch : Store!Prune(batch) <=> P!Prune(batch)
  BY SameSets DEF Store!Prune, P!Prune, Store!Prunable, P!Prunable,
                  Store!Cardinality, P!Cardinality
<1>10. \A kind, subject, e, status :
          Store!InsertIncident(kind, subject, e, status)
              <=> P!InsertIncident(kind, subject, e, status)
  BY SameGuards DEF Store!InsertIncident, P!InsertIncident
<1>11. \A d, from : Store!RecoverDeployment(d, from) <=> P!RecoverDeployment(d, from)
  BY <1>10, SameSets DEF Store!RecoverDeployment, P!RecoverDeployment,
                         Store!StateIs, P!StateIs, Store!Disposition,
                         P!Disposition
<1>12. \A o : Store!RecoverOperation(o) <=> P!RecoverOperation(o)
  BY <1>10, SameSets DEF Store!RecoverOperation, P!RecoverOperation
<1>13. \A i : Store!Acknowledge(i) <=> P!Acknowledge(i)
  BY DEF Store!Acknowledge, P!Acknowledge
<1>14. QED
  BY <1>1, <1>2, <1>3, <1>4, <1>6, <1>7, <1>8, <1>9, <1>11, <1>12, <1>13

(* They have the same steps.                                               *)
LEMMA SameNext == [Store!Next]_(Store!storeVars) <=> [P!Next]_(P!storeVars)
BY SameActions, SameSets DEF Store!Next, P!Next, Store!Prunable, P!Prunable,
                             Store!storeVars, P!storeVars

(* They are the same specification, so the store's theorems hold of both.  *)
LEMMA SameSpec == Store!Spec <=> P!Spec
BY SameNext, SameInvariants, PTL DEF Store!Spec, P!Spec

(* What every run of the store satisfies. *)
StoreInv ==
    /\ Store!TypeOK
    /\ Store!GuardExclusive
    /\ Store!IncidentSubjectFailed
    /\ Store!IdentityStable

(* What was proved of the store holds of the services' store.              *)
LEMMA StoreCorrect == Store!Spec => []StoreInv
<1>1. P!TypeOK /\ P!GuardExclusive /\ P!IncidentSubjectFailed /\ P!IdentityStable
          => StoreInv
  BY SameInvariants DEF StoreInv
<1>2. QED
  BY <1>1, SameSpec, P!TypeCorrect, P!GuardCorrect, P!IncidentsCorrect,
     P!IdentityCorrect, PTL
-----------------------------------------------------------------------------
(* Where a worker may stand, and where it goes from there.                 *)

Activity == {"preflight", "precheck", "stage", "backup", "install", "restart",
             "verify", "restore", "reactivate", "reverify"}

RecordKind == {"deployment", "rollback_operation"}

Tasks ==
    {Idle}
    \cup {t \in [pc: {"conflict", "reserve"}, env: Environments, req: Requests] :
              t.env = t.req.env}
    \cup [pc: {"transition"}, env: Environments, id: Nat,
          mem: DeploymentState, goal: DeploymentState]
    \cup [pc: {"start", "call"}, env: Environments, kind: RecordKind, id: Nat,
          act: Activity, tries: Nat]
    \cup [pc: {"finish"}, env: Environments, id: Nat, act: Activity, tries: Nat,
          result: {"ok", "failed", "timeout"}]
    \cup [pc: {"record", "reference", "acquire", "begin"}, env: Environments,
          id: Nat]
    \cup [pc: {"settle"}, env: Environments, id: Nat,
          outcome: {"succeeded", "failed"}]

(* The worker orchestrates deployment t.id, or operation t.id. *)
Drives(t) == \/ t.pc \in {"transition", "finish"}
             \/ t.pc \in {"start", "call"} /\ t.kind = "deployment"
Operates(t) == \/ t.pc = "settle"
               \/ t.pc \in {"start", "call"} /\ t.kind = "rollback_operation"
Names(t) == Drives(t) \/ t.pc \in {"record", "reference", "acquire", "begin"}

(* The tables of DeployService, read off: each activity belongs to an      *)
(* active state past "created", and each such state begins with one.       *)
LEMMA Tables ==
    /\ \A a \in Activity : StateDuring[a] \in NonTerminal \ {"created"}
    /\ \A g \in NonTerminal \ {"created"} :
           /\ FirstActivity[g] \in Activity
           /\ StateDuring[FirstActivity[g]] = g
           /\ StateAfter[g] \in DeploymentState
           /\ StateAfter[g] # "failed"
    /\ \A p, e, a : /\ a \in Activity
                 /\ FollowsWithin(p, e, a) # "none"
                 => /\ FollowsWithin(p, e, a) \in Activity
                    /\ StateDuring[FollowsWithin(p, e, a)] = StateDuring[a]
    /\ \A a : FollowsInRollback(a) # "none" => FollowsInRollback(a) \in Activity
<1>1. \A a \in Activity : StateDuring[a] \in NonTerminal \ {"created"}
  BY DEF Activity, StateDuring, NonTerminal, DeploymentState, Terminal
<1>2. \A g \in NonTerminal \ {"created"} :
          /\ FirstActivity[g] \in Activity
          /\ StateDuring[FirstActivity[g]] = g
          /\ StateAfter[g] \in DeploymentState
          /\ StateAfter[g] # "failed"
  BY DEF Activity, StateDuring, FirstActivity, StateAfter, NonTerminal,
         DeploymentState, Terminal
<1>3. \A p, e, a : /\ a \in Activity
               /\ FollowsWithin(p, e, a) # "none"
               => /\ FollowsWithin(p, e, a) \in Activity
                  /\ StateDuring[FollowsWithin(p, e, a)] = StateDuring[a]
  BY DEF Activity, StateDuring, FollowsWithin
<1>4. \A a : FollowsInRollback(a) # "none" => FollowsInRollback(a) \in Activity
  BY DEF Activity, FollowsInRollback
<1>5. QED
  BY <1>1, <1>2, <1>3, <1>4

(* An error returns the request, or records a failure before it does.      *)
LEMMA ReturnedCases ==
    ASSUME NEW p, NEW e, NEW d, NEW s
    PROVE  Returned(p, e, d, s) \in {Idle, Recording(e, d)}
BY DEF Returned

(* After a persisted transition. *)
LEMMA AfterTransitionCases ==
    ASSUME NEW p, NEW t \in Tasks, t.pc = "transition",
           <<t.mem, t.goal>> \in CanTransition
    PROVE  \/ /\ t.goal \in Terminal
              /\ AfterTransition(p, t) \in {Idle, Recording(t.env, t.id)}
           \/ /\ t.goal \in NonTerminal \ {"created"}
              /\ \E a \in Activity :
                     /\ StateDuring[a] = t.goal
                     /\ AfterTransition(p, t)
                            = Doing("start", t.env, "deployment", t.id, a, 1)
<1>1. t.goal \in DeploymentState \ {"created"}
  BY DEF CanTransition, DeploymentState
<1>2. CASE t.goal \in Terminal
  BY <1>2, ReturnedCases DEF AfterTransition
<1>3. CASE t.goal \in NonTerminal \ {"created"}
  BY <1>3, Tables DEF AfterTransition, NonTerminal
<1>4. QED
  BY <1>1, <1>2, <1>3 DEF NonTerminal

(* Another attempt of the same activity.                                   *)
LEMMA TriedAgain ==
    ASSUME NEW t \in [pc: {"start", "call"}, env: Environments, kind: RecordKind,
                      id: Nat, act: Activity, tries: Nat]
    PROVE  [t EXCEPT !.pc = "start", !.tries = @ + 1]
               = Doing("start", t.env, t.kind, t.id, t.act, t.tries + 1)
<1>1. PICK u : u = [t EXCEPT !.pc = "start"]
  OBVIOUS
<1>2. /\ u \in [pc: {"start"}, env: Environments, kind: RecordKind, id: Nat,
                act: Activity, tries: Nat]
      /\ u.env = t.env /\ u.kind = t.kind /\ u.id = t.id
      /\ u.act = t.act /\ u.tries = t.tries
  BY <1>1
<1>3. [u EXCEPT !.tries = @ + 1]
          = [pc |-> "start", env |-> t.env, kind |-> t.kind, id |-> t.id,
             act |-> t.act, tries |-> t.tries + 1]
  BY <1>2
<1>4. [t EXCEPT !.pc = "start", !.tries = @ + 1] = [u EXCEPT !.tries = @ + 1]
  BY <1>1, <1>2
<1>5. QED
  BY <1>3, <1>4 DEF Doing

(* After a reply, or what the worker takes for one. *)
LEMMA AfterReplyCases ==
    ASSUME NEW t \in Tasks, t.pc = "call", NEW result \in {"ok", "failed"}
    PROVE  \/ /\ t.kind = "deployment"
              /\ AfterReply(t, result) = Finishing(t, result)
           \/ /\ t.kind = "rollback_operation"
              /\ \/ \E a \in Activity, n \in Nat :
                        AfterReply(t, result)
                            = Doing("start", t.env, t.kind, t.id, a, n)
                 \/ \E outcome \in {"succeeded", "failed"} :
                        AfterReply(t, result) = Settling(t.env, t.id, outcome)
<1>1. t \in [pc: {"start", "call"}, env: Environments, kind: RecordKind,
             id: Nat, act: Activity, tries: Nat]
  BY DEF Tasks, Idle
<1>2. CASE t.kind = "deployment"
  BY <1>2 DEF AfterReply
<1>3. CASE t.kind = "rollback_operation"
  <2>1. AfterReply(t, result) = RollbackAfterReply(t, result)
    BY <1>3 DEF AfterReply
  <2>2. CASE result = "ok" /\ FollowsInRollback(t.act) # "none"
    <3>1. RollbackAfterReply(t, result)
              = Doing("start", t.env, t.kind, t.id, FollowsInRollback(t.act), 1)
      BY <2>2 DEF RollbackAfterReply, RetriesVerification
    <3>2. FollowsInRollback(t.act) \in Activity /\ 1 \in Nat
      BY <2>2, Tables
    <3>3. QED
      BY <1>3, <2>1, <3>1, <3>2
  <2>3. CASE result = "ok" /\ FollowsInRollback(t.act) = "none"
    <3>1. RollbackAfterReply(t, result) = Settling(t.env, t.id, "succeeded")
      BY <2>3 DEF RollbackAfterReply, RetriesVerification
    <3>2. QED
      BY <1>3, <2>1, <3>1
  <2>4. CASE result = "failed" /\ RetriesVerification(t, result)
    <3>1. RollbackAfterReply(t, result) = [t EXCEPT !.pc = "start", !.tries = @ + 1]
      BY <2>4 DEF RollbackAfterReply, RetriesVerification
    <3>2. [t EXCEPT !.pc = "start", !.tries = @ + 1]
              = Doing("start", t.env, t.kind, t.id, t.act, t.tries + 1)
      BY <1>1, TriedAgain
    <3>3. t.act \in Activity /\ t.tries + 1 \in Nat
      BY <1>1
    <3>4. QED
      BY <1>3, <2>1, <3>1, <3>2, <3>3
  <2>5. CASE result = "failed" /\ ~RetriesVerification(t, result)
    <3>1. RollbackAfterReply(t, result) = Settling(t.env, t.id, "failed")
      BY <2>5 DEF RollbackAfterReply, RetriesVerification
    <3>2. QED
      BY <1>3, <2>1, <3>1
  <2>6. QED
    BY <2>2, <2>3, <2>4, <2>5
<1>4. QED
  BY <1>1, <1>2, <1>3 DEF RecordKind

(* After a finished attempt: another activity of the same state, the way   *)
(* out of that state, or nothing, when a call past the first side effect   *)
(* timed out.  A way out to "failed", once the artifact may have been      *)
(* replaced, means that there is no rollback task.                         *)
LEMMA AfterAttemptCases ==
    ASSUME NEW p, NEW t \in Tasks, t.pc = "finish"
    PROVE  LET s == StateDuring[t.act] IN
           \/ /\ t.result # "timeout"
              /\ \E a \in Activity, n \in Nat :
                     /\ StateDuring[a] = s
                     /\ AfterAttempt(p, t)
                            = Doing("start", t.env, "deployment", t.id, a, n)
           \/ /\ t.result = "timeout" /\ s \in HasLiveMutationStarted
              /\ AfterAttempt(p, t) = Idle
           \/ /\ t.result = "timeout" => s \notin HasLiveMutationStarted
              /\ \E g \in DeploymentState :
                     /\ AfterAttempt(p, t) = Moving(t.env, t.id, s, g)
                     /\ g = "failed" /\ s \in HasLiveArtifactReplacementStarted
                            => t.env \notin RollbackConfigured[p]
<1> DEFINE s == StateDuring[t.act]
           next == FollowsWithin(p, t.env, t.act)
<1>1. t \in [pc: {"finish"}, env: Environments, id: Nat, act: Activity,
             tries: Nat, result: {"ok", "failed", "timeout"}]
  BY DEF Tasks, Idle
<1>2. s \in NonTerminal \ {"created"}
  BY <1>1, Tables
<1>3. CASE t.result = "ok" /\ next # "none"
  <2>1. AfterAttempt(p, t) = Doing("start", t.env, "deployment", t.id, next, 1)
    BY <1>3 DEF AfterAttempt, RetriesVerification
  <2>2. next \in Activity /\ StateDuring[next] = s
    BY <1>1, <1>3, Tables
  <2>3. QED
    BY <1>3, <2>1, <2>2
<1>4. CASE t.result = "ok" /\ next = "none"
  <2>1. AfterAttempt(p, t) = Moving(t.env, t.id, s, StateAfter[s])
    BY <1>4 DEF AfterAttempt, RetriesVerification
  <2>2. StateAfter[s] \in DeploymentState /\ StateAfter[s] # "failed"
    BY <1>2, Tables
  <2>3. QED
    BY <1>4, <2>1, <2>2
<1>5. CASE t.result # "ok" /\ RetriesVerification(t, t.result)
  <2>1. AfterAttempt(p, t)
            = Doing("start", t.env, "deployment", t.id, t.act, t.tries + 1)
    BY <1>5 DEF AfterAttempt, RetriesVerification
  <2>2. t.result # "timeout" /\ t.act \in Activity /\ t.tries + 1 \in Nat
    BY <1>1, <1>5 DEF RetriesVerification
  <2>3. QED
    BY <2>1, <2>2
<1>6. CASE /\ t.result # "ok" /\ ~RetriesVerification(t, t.result)
           /\ t.result = "timeout" /\ s \in HasLiveMutationStarted
  BY <1>6 DEF AfterAttempt, RetriesVerification
<1>7. CASE /\ t.result # "ok" /\ ~RetriesVerification(t, t.result)
           /\ ~(t.result = "timeout" /\ s \in HasLiveMutationStarted)
  <2> DEFINE tried == RequiresRollbackAfterFailure(StepOf[t.act],
                                                   t.env \in RollbackConfigured[p])
             g == CASE t.act \in Recovering -> "rollback_failed"
                    [] t.act \notin Recovering /\ tried -> "rolling_back"
                    [] OTHER -> "failed"
  <2>1. AfterAttempt(p, t) = Moving(t.env, t.id, s, g)
    BY <1>7 DEF AfterAttempt, RetriesVerification
  <2>2. g \in DeploymentState
    BY DEF DeploymentState
  <2>3. ASSUME g = "failed", s \in HasLiveArtifactReplacementStarted
        PROVE  t.env \notin RollbackConfigured[p]
    <3>1. t.act \notin Recovering /\ ~tried
      BY <2>3
    <3>2. t.act \in {"install", "restart", "verify"}
      BY <1>1, <2>3, <3>1 DEF Activity, StateDuring, Recovering,
         HasLiveArtifactReplacementStarted, HasLiveMutationStarted
    <3>3. LifecycleOrder[StepOf[t.act]] >= FirstLiveMutation
      BY <3>2 DEF StepOf, LifecycleOrder, FirstLiveMutation, Step
    <3>4. QED
      BY <3>1, <3>3 DEF RequiresRollbackAfterFailure
  <2> HIDE DEF g
  <2>4. QED
    BY <1>7, <2>1, <2>2, <2>3
<1>8. QED
  BY <1>1, <1>3, <1>4, <1>5, <1>6, <1>7
-----------------------------------------------------------------------------
(* Types: a worker names records that exist, of its environment.           *)

RecordOK(t) ==
    /\ Names(t) => /\ t.id \in Store!DeploymentIds
                   /\ deployments[t.id].env = t.env
    /\ Operates(t) => /\ t.id \in Store!OperationIds
                      /\ operations[t.id].env = t.env

CallOK(c) ==
    /\ c \in [kind: RecordKind, id: Nat, env: Environments, act: Mutating]
    /\ c.kind = "deployment" => /\ c.id \in Store!DeploymentIds
                                /\ deployments[c.id].env = c.env
    /\ c.kind = "rollback_operation" => /\ c.id \in Store!OperationIds
                                        /\ operations[c.id].env = c.env

ProcStates ==
    [phase: {"down", "up"}, todo: {{}}]
    \cup [phase: {"deployments"}, todo: SUBSET (Nat \X DeploymentState)]
    \cup [phase: {"operations"}, todo: SUBSET Nat]

ServiceInv ==
    /\ Store!TypeOK
    /\ worker \in [Workers -> Tasks]
    /\ \A w \in Workers : RecordOK(worker[w])
    /\ leases \in [Processes -> SUBSET Environments]
    /\ proc \in [Processes -> ProcStates]
    /\ \A c \in inflight : CallOK(c)
    /\ crashes \in 0 .. MaxCrashes

(* Services that have not started satisfy ServiceInv.                      *)
LEMMA ServiceInit == Init => Store!Init /\ ServiceInv
<1> SUFFICES ASSUME Init PROVE Store!Init /\ ServiceInv
  OBVIOUS
<1>1. Store!Init /\ Store!TypeOK
  BY P!TypeInit, SameInvariants DEF Init
<1>2. worker \in [Workers -> Tasks] /\ \A w \in Workers : worker[w] = Idle
  BY DEF Init, Tasks
<1>3. ~Names(Idle) /\ ~Operates(Idle)
  BY DEF Names, Drives, Operates, Idle
<1>4. proc \in [Processes -> ProcStates]
  BY DEF Init, ProcStates, Stopped
<1>5. crashes \in 0 .. MaxCrashes
  BY ServiceAssumption DEF Init
<1>6. QED
  BY <1>1, <1>2, <1>3, <1>4, <1>5 DEF Init, ServiceInv, RecordOK

(* Whatever a step does, it is one transaction of the store, or none.      *)
LEMMA StoreStep == ServiceInv /\ [Next]_vars => [Store!Next]_(Store!storeVars)
<1> SUFFICES ASSUME ServiceInv, [Next]_vars
             PROVE  Store!Next \/ UNCHANGED storeVars
  BY DEF storeVars, Store!storeVars
<1> USE DEF Store!Next
<1>1. ASSUME NEW w \in Workers, Reserve(w) PROVE Store!Next
  <2>1. worker[w].req \in Requests
    BY <1>1 DEF Reserve, ServiceInv, Tasks, Idle
  <2>2. QED
    BY <1>1, <2>1, ServiceAssumption DEF Reserve
<1>2. ASSUME NEW w \in Workers, Record(w) PROVE Store!Next
  BY <1>2 DEF Record, Store!RecordReference, Store!EligibleSource
<1>3. ASSUME NEW w \in Workers, Advance(w) PROVE Store!Next
  <2>1. Store!Transition(worker[w].id, worker[w].mem, worker[w].goal)
    BY <1>3 DEF Advance
  <2>2. /\ worker[w].id \in Store!DeploymentIds
        /\ worker[w].mem \in Store!DeploymentState
        /\ worker[w].goal \in Store!DeploymentState
    BY <2>1 DEF Store!Transition, Store!StateIs, Store!CanTransition,
                Store!DeploymentState
  <2>3. QED
    BY <2>1, <2>2
<1>4. ASSUME NEW w \in Workers, StartCall(w)
      PROVE  Store!Next \/ UNCHANGED storeVars
  BY <1>4 DEF StartCall, Store!StartStep
<1>5. ASSUME NEW w \in Workers, FinishAttempt(w) PROVE Store!Next
  BY <1>5 DEF FinishAttempt, Store!FinishStep, ServiceInv, Store!TypeOK
<1>6. ASSUME NEW w \in Workers, Begin(w) PROVE Store!Next
  BY <1>6 DEF Begin, Store!BeginOperation, Store!EligibleSource
<1>7. ASSUME NEW w \in Workers, Settle(w) PROVE Store!Next
  BY <1>7 DEF Settle, Store!FinishOperation
<1>8. ASSUME NEW p \in Processes, RecoverDeployment(p)
      PROVE  Store!Next \/ UNCHANGED storeVars
  <2>1. PICK r : Store!RecoverDeployment(r[1], r[2]) \/ UNCHANGED storeVars
    BY <1>8 DEF RecoverDeployment
  <2>2. Store!RecoverDeployment(r[1], r[2]) =>
            r[1] \in Store!DeploymentIds /\ r[2] \in Store!DeploymentState
    BY DEF Store!RecoverDeployment, Store!StateIs, Store!NonTerminal
  <2>3. QED
    BY <2>1, <2>2
<1>9. ASSUME NEW p \in Processes, RecoverOperation(p)
      PROVE  Store!Next \/ UNCHANGED storeVars
  BY <1>9 DEF RecoverOperation, Store!RecoverOperation
<1>10. ASSUME NEW p \in Processes, Serve(p) PROVE Store!Next
  BY <1>10 DEF Serve
<1>11. ASSUME NEW i \in incidents, Acknowledge(i) PROVE Store!Next
  BY <1>11 DEF Acknowledge
<1>12. QED
  BY <1>1, <1>2, <1>3, <1>4, <1>5, <1>6, <1>7, <1>8, <1>9, <1>10, <1>11
  DEF Next, vars, Progress, Recover, Submit, CheckConflict, Reuse, TimeOut,
      FindReference, AcquireForRollback, GiveUp, RequestRollback, Reply,
      LoseReply, Start, ReadOperations, Crash, RemoteEnds

(* What a transaction leaves as it was for those that remember a record.   *)
LEMMA RecordsStay ==
    ServiceInv /\ [Next]_vars =>
        /\ Store!TypeOK'
        /\ P!RecordsKept
        /\ \A t : RecordOK(t) => RecordOK(t)'
        /\ \A c : CallOK(c) => CallOK(c)'
<1> SUFFICES ASSUME ServiceInv, [Next]_vars
             PROVE  /\ Store!TypeOK'
                    /\ P!RecordsKept
                    /\ \A t : RecordOK(t) => RecordOK(t)'
                    /\ \A c : CallOK(c) => CallOK(c)'
  OBVIOUS
<1>1. P!TypeOK /\ [P!Next]_(P!storeVars)
  BY StoreStep, SameNext, SameInvariants DEF ServiceInv
<1>2. P!TypeOK' /\ P!RecordsKept
  BY <1>1, P!TypeStep, P!RecordsStay
<1>3. Store!TypeOK'
  BY <1>2, SameInvariants, PTL
<1>4. /\ Store!DeploymentIds \subseteq Store!DeploymentIds'
      /\ \A d \in Store!DeploymentIds : deployments'[d].env = deployments[d].env
      /\ Store!OperationIds \subseteq Store!OperationIds'
      /\ \A o \in Store!OperationIds : operations'[o].env = operations[o].env
  BY <1>2 DEF P!RecordsKept, P!DeploymentIds, P!OperationIds,
              Store!DeploymentIds, Store!OperationIds
<1>5. QED
  BY <1>2, <1>3, <1>4 DEF RecordOK, CallOK, Names, Drives, Operates
-----------------------------------------------------------------------------
(* Every step of a worker takes it to a task of which the following holds; *)
(* no other step but a crash touches the workers.                          *)

(* w goes on at t, and does not take a lease without TryAcquire. *)
Continues(w, t) ==
    /\ GoTo(w, t)
    /\ HoldsLease(t) => HoldsLease(worker[w]) /\ t.env = worker[w].env

Acquires(w, t) ==
    /\ TryAcquire(w, t)
    /\ ~HoldsLease(worker[w]) /\ HoldsLease(t)
    /\ worker[w] # Idle \/ Up(Home[w])

Moves(w, t) ==
    /\ t \in Tasks
    /\ RecordOK(t)'
    /\ Continues(w, t) \/ Acquires(w, t)
    /\ worker[w] # Idle \/ Up(Home[w])
    /\ UNCHANGED <<proc, crashes>>

(* The tasks that the actions lead to are tasks. *)
LEMMA TasksBuilt ==
    /\ Idle \in Tasks
    /\ \A e \in Environments, d \in Nat :
           /\ \A m, g \in DeploymentState : Moving(e, d, m, g) \in Tasks
           /\ \A k \in RecordKind, a \in Activity, n \in Nat :
                  Doing("start", e, k, d, a, n) \in Tasks
           /\ Recording(e, d) \in Tasks
           /\ Considering("reference", e, d) \in Tasks
           /\ \A s \in {"succeeded", "failed"} : Settling(e, d, s) \in Tasks
    /\ \A t \in Tasks : t.pc = "call" =>
           \A r \in {"ok", "failed", "timeout"} : Finishing(t, r) \in Tasks
<1>1. \A t \in Tasks : t.pc = "call" =>
          /\ t.env \in Environments /\ t.id \in Nat /\ t.act \in Activity
          /\ t.tries \in Nat
  BY DEF Tasks, Idle
<1>2. \A t \in Tasks : t.pc = "call" =>
          \A r \in {"ok", "failed", "timeout"} :
              Finishing(t, r) \in
                  [pc: {"finish"}, env: Environments, id: Nat, act: Activity,
                   tries: Nat, result: {"ok", "failed", "timeout"}]
  BY <1>1 DEF Finishing
<1>3. \A e \in Environments, d \in Nat :
          /\ \A m, g \in DeploymentState : Moving(e, d, m, g) \in
                 [pc: {"transition"}, env: Environments, id: Nat,
                  mem: DeploymentState, goal: DeploymentState]
          /\ \A k \in RecordKind, a \in Activity, n \in Nat :
                 Doing("start", e, k, d, a, n) \in
                     [pc: {"start", "call"}, env: Environments, kind: RecordKind,
                      id: Nat, act: Activity, tries: Nat]
          /\ \A s \in {"succeeded", "failed"} : Settling(e, d, s) \in
                 [pc: {"settle"}, env: Environments, id: Nat,
                  outcome: {"succeeded", "failed"}]
  BY DEF Moving, Doing, Settling
<1>4. \A e \in Environments, d \in Nat :
          /\ Recording(e, d) \in
                 [pc: {"record", "reference", "acquire", "begin"},
                  env: Environments, id: Nat]
          /\ Considering("reference", e, d) \in
                 [pc: {"record", "reference", "acquire", "begin"},
                  env: Environments, id: Nat]
  BY DEF Recording, Considering
<1>5. \A t \in Tasks : t.pc = "call" =>
          \A r \in {"ok", "failed", "timeout"} : Finishing(t, r) \in Tasks
  <2>1. [pc: {"finish"}, env: Environments, id: Nat, act: Activity,
         tries: Nat, result: {"ok", "failed", "timeout"}] \subseteq Tasks
    BY DEF Tasks
  <2>2. QED
    BY <1>2, <2>1
<1>6. \A e \in Environments, d \in Nat :
          /\ \A m, g \in DeploymentState : Moving(e, d, m, g) \in Tasks
          /\ \A k \in RecordKind, a \in Activity, n \in Nat :
                 Doing("start", e, k, d, a, n) \in Tasks
          /\ \A s \in {"succeeded", "failed"} : Settling(e, d, s) \in Tasks
  BY <1>3 DEF Tasks
<1>7. \A e \in Environments, d \in Nat :
          /\ Recording(e, d) \in Tasks
          /\ Considering("reference", e, d) \in Tasks
  BY <1>4 DEF Tasks
<1>8. QED
  BY <1>5, <1>6, <1>7 DEF Tasks

(* The fields of a task. *)
LEMMA TaskFields ==
    ASSUME NEW t \in Tasks
    PROVE  /\ t.pc \in {"idle", "conflict", "reserve", "transition", "start",
                        "call", "finish", "record", "reference", "acquire",
                        "begin", "settle"}
           /\ t.pc = "idle" <=> t = Idle
           /\ t.pc # "idle" => t.env \in Environments
           /\ t.pc \in {"conflict", "reserve"} =>
                  t.req \in Requests /\ t.env = t.req.env
           /\ t.pc \notin {"idle", "conflict", "reserve"} => t.id \in Nat
           /\ t.pc = "transition" =>
                  t.mem \in DeploymentState /\ t.goal \in DeploymentState
           /\ t.pc \in {"start", "call"} => t.kind \in RecordKind
           /\ t.pc \in {"start", "call", "finish"} =>
                  t.act \in Activity /\ t.tries \in Nat
           /\ t.pc = "finish" => t.result \in {"ok", "failed", "timeout"}
           /\ t.pc = "settle" => t.outcome \in {"succeeded", "failed"}
BY DEF Tasks, Idle

(* A request that ends. *)
LEMMA Ends ==
    ASSUME ServiceInv, NEW w \in Workers, worker[w].pc # "idle", GoTo(w, Idle),
           UNCHANGED <<proc, crashes>>
    PROVE  Moves(w, Idle)
<1>1. worker[w] # Idle
  BY DEF Idle
<1>2. ~HoldsLease(Idle) /\ ~Names(Idle) /\ ~Operates(Idle)
  BY DEF HoldsLease, Idle, Names, Drives, Operates
<1>3. QED
  BY <1>1, <1>2, TasksBuilt DEF Moves, Continues, RecordOK

(* One that goes on, with the lease it has or with none.                   *)
LEMMA GoesOn ==
    ASSUME ServiceInv, NEW w \in Workers, NEW t \in Tasks, GoTo(w, t),
           worker[w].pc # "idle",
           HoldsLease(t) => HoldsLease(worker[w]) /\ t.env = worker[w].env,
           RecordOK(t)', UNCHANGED <<proc, crashes>>
    PROVE  Moves(w, t)
<1>1. worker[w] # Idle
  BY DEF Idle
<1>2. QED
  BY <1>1 DEF Moves, Continues

(* A task about a record of the store that is there before the step.       *)
LEMMA SameRecord ==
    ASSUME ServiceInv, [Next]_vars, NEW w \in Workers, NEW t,
           t.id = worker[w].id, t.env = worker[w].env,
           Names(t) => Names(worker[w]), Operates(t) => Operates(worker[w])
    PROVE  RecordOK(t)'
<1>1. RecordOK(worker[w])
  BY DEF ServiceInv
<1>2. RecordOK(t)
  BY <1>1 DEF RecordOK
<1>3. QED
  BY <1>2, RecordsStay

(* How a request moves before its deployment runs.                         *)
LEMMA MovesBeforeRun ==
    ASSUME ServiceInv, [Next]_vars, NEW w \in Workers
    PROVE  /\ \A req \in Requests : Submit(w, req) => \E t : Moves(w, t)
           /\ CheckConflict(w) => \E t : Moves(w, t)
           /\ Reserve(w) => \E t : Moves(w, t)
           /\ Reuse(w) => \E t : Moves(w, t)
           /\ Record(w) => \E t : Moves(w, t)
<1> DEFINE u == worker[w]
<1>1. u \in Tasks
  BY DEF ServiceInv
<1>2. ASSUME NEW req \in Requests, Submit(w, req) PROVE \E t : Moves(w, t)
  <2> DEFINE t == Accepted("conflict", req)
  <2>1. req.env \in Environments
    BY ServiceAssumption DEF Store!Request
  <2>2. t \in [pc: {"conflict", "reserve"}, env: Environments, req: Requests]
        /\ t.env = t.req.env /\ t.pc = "conflict"
    BY <2>1 DEF Accepted
  <2>3. t \in Tasks
    BY <2>2 DEF Tasks
  <2>4. HoldsLease(t) /\ ~Names(t) /\ ~Operates(t) /\ ~HoldsLease(Idle)
    BY <2>2 DEF HoldsLease, Names, Drives, Operates, Idle
  <2>5. QED
    BY <1>2, <2>3, <2>4 DEF Submit, Moves, Acquires, RecordOK, Local
<1>3. ASSUME CheckConflict(w) PROVE \E t : Moves(w, t)
  <2> DEFINE t == Accepted("reserve", u.req)
  <2>1. u.pc = "conflict" /\ u.req \in Requests /\ u.env = u.req.env
        /\ u.env \in Environments
    BY <1>1, <1>3, TaskFields DEF CheckConflict
  <2>2. t \in [pc: {"conflict", "reserve"}, env: Environments, req: Requests]
        /\ t.env = t.req.env /\ t.pc = "reserve" /\ t.env = u.env
    BY <2>1 DEF Accepted
  <2>3. t \in Tasks
    BY <2>2 DEF Tasks
  <2>4. HoldsLease(u) /\ ~Names(t) /\ ~Operates(t)
    BY <2>1, <2>2 DEF HoldsLease, Names, Drives, Operates
  <2>5. QED
    BY <1>3, <2>1, <2>2, <2>3, <2>4, GoesOn DEF CheckConflict, RecordOK, Local
<1>4. ASSUME Reserve(w) PROVE \E t : Moves(w, t)
  <2>0. PICK n, t : /\ n = Len(deployments) + 1
                    /\ t = Moving(u.env, n, "created", "prechecking")
    OBVIOUS
  <2>1. u.pc = "reserve" /\ u.req \in Requests /\ u.env = u.req.env
        /\ u.env \in Environments
    BY <1>1, <1>4, TaskFields DEF Reserve
  <2>2. u.req \in P!Request /\ P!Reserve(u.req) /\ P!TypeOK
    BY <1>4, <2>1, ServiceAssumption, SameSets, SameActions, SameInvariants
    DEF Reserve, ServiceInv
  <2>3. /\ P!DeploymentIds' = P!DeploymentIds \cup {n}
        /\ deployments'[n].env = u.req.env
    BY <2>0, <2>2, P!ReserveEffect
  <2>4. n \in Store!DeploymentIds' /\ deployments'[n].env = u.env
    BY <2>1, <2>3 DEF P!DeploymentIds, Store!DeploymentIds
  <2>5. n \in Nat
    BY <2>0, <2>2, P!Rows
  <2>6. t \in Tasks
    BY <2>0, <2>1, <2>5, TasksBuilt DEF DeploymentState
  <2>7. t.id = n /\ t.env = u.env /\ t.pc = "transition"
    BY <2>0 DEF Moving
  <2>8. RecordOK(t)' /\ HoldsLease(u)
    BY <2>1, <2>4, <2>7 DEF RecordOK, Operates, HoldsLease
  <2>9. QED
    BY <1>4, <2>0, <2>1, <2>6, <2>7, <2>8, GoesOn DEF Reserve, Local
<1>5. ASSUME Reuse(w) PROVE \E t : Moves(w, t)
  <2>1. u.pc = "reserve" /\ u.env = u.req.env /\ u.env \in Environments
    BY <1>1, <1>5, TaskFields DEF Reuse
  <2>2. PICK d \in Store!BoundTo(u.req.key) :
            /\ Store!Replays(u.req, d)
            /\ GoTo(w, Returned(Home[w], u.env, d, deployments[d].state))
    BY <1>5 DEF Reuse
  <2>3. d \in Store!DeploymentIds /\ deployments[d].env = u.env
    BY <2>1, <2>2 DEF Store!BoundTo, Store!Replays, Store!SameRequestIdentity
  <2>4. d \in Nat
    BY <2>3 DEF Store!DeploymentIds
  <2>5. PICK t : t = Recording(u.env, d)
    OBVIOUS
  <2>6. t.pc = "record" /\ t.id = d /\ t.env = u.env
    BY <2>5 DEF Recording
  <2>7. RecordOK(t)
    BY <2>3, <2>6 DEF RecordOK, Operates
  <2>8. ~HoldsLease(t) /\ t \in Tasks /\ RecordOK(t)'
    BY <2>1, <2>4, <2>5, <2>6, <2>7, RecordsStay, TasksBuilt DEF HoldsLease
  <2>9. GoTo(w, Idle) \/ GoTo(w, t)
    BY <2>2, <2>5, ReturnedCases
  <2>10. UNCHANGED <<proc, crashes>> /\ u.pc # "idle"
    BY <1>5, <2>1 DEF Reuse, Local
  <2>11. QED
    BY <2>8, <2>9, <2>10, GoesOn, Ends
<1>6. ASSUME Record(w) PROVE \E t : Moves(w, t)
  BY <1>6, Ends DEF Record, Local
<1>7. QED
  BY <1>2, <1>3, <1>4, <1>5, <1>6

(* How a request moves that drives a deployment.                           *)
LEMMA MovesOfDeployment ==
    ASSUME ServiceInv, [Next]_vars, NEW w \in Workers
    PROVE  /\ Advance(w) => \E t : Moves(w, t)
           /\ StartCall(w) => \E t : Moves(w, t)
           /\ \A r \in {"ok", "failed"} : Reply(w, r) => \E t : Moves(w, t)
           /\ LoseReply(w) => \E t : Moves(w, t)
           /\ TimeOut(w) => \E t : Moves(w, t)
           /\ FinishAttempt(w) => \E t : Moves(w, t)
<1>1. PICK u : u = worker[w]
  OBVIOUS
<1>2. u \in Tasks
  BY <1>1 DEF ServiceInv
(* w goes on with the record it names. *)
<1>3. ASSUME NEW t \in Tasks, GoTo(w, t), UNCHANGED <<proc, crashes>>,
             HoldsLease(u), u.pc # "idle", t.id = u.id, t.env = u.env,
             Names(t) => Names(u), Operates(t) => Operates(u)
      PROVE  Moves(w, t)
  BY <1>1, <1>3, SameRecord, GoesOn
<1>4. ASSUME Advance(w) PROVE \E t : Moves(w, t)
  <2>1. /\ u.pc = "transition" /\ <<u.mem, u.goal>> \in CanTransition
        /\ GoTo(w, AfterTransition(Home[w], u)) /\ UNCHANGED <<proc, crashes>>
    BY <1>1, <1>4 DEF Advance, Local, Store!Transition, Store!CanTransition,
                      CanTransition
  <2>2. u.env \in Environments /\ u.id \in Nat /\ HoldsLease(u) /\ Names(u)
    BY <1>2, <2>1, TaskFields DEF HoldsLease, Names, Drives
  <2>3. CASE AfterTransition(Home[w], u) = Idle
    BY <1>1, <2>1, <2>3, Ends
  <2>4. CASE AfterTransition(Home[w], u) = Recording(u.env, u.id)
    <3>1. PICK t : t = Recording(u.env, u.id)
      OBVIOUS
    <3>2. t \in Tasks /\ t.id = u.id /\ t.env = u.env /\ t.pc = "record"
      BY <2>2, <3>1, TasksBuilt DEF Recording
    <3>3. ~Operates(t)
      BY <3>2 DEF Operates
    <3>4. QED
      BY <1>3, <2>1, <2>2, <2>4, <3>1, <3>2, <3>3
  <2>5. ASSUME NEW a \in Activity,
               AfterTransition(Home[w], u) = Doing("start", u.env, "deployment", u.id, a, 1)
        PROVE  \E t : Moves(w, t)
    <3>1. PICK t : t = Doing("start", u.env, "deployment", u.id, a, 1)
      OBVIOUS
    <3>2. t \in Tasks
      BY <2>2, <3>1, TasksBuilt DEF RecordKind
    <3>3. t.id = u.id /\ t.env = u.env /\ t.pc = "start" /\ t.kind = "deployment"
      BY <3>1 DEF Doing
    <3>4. ~Operates(t)
      BY <3>3 DEF Operates
    <3>5. QED
      BY <1>3, <2>1, <2>2, <2>5, <3>1, <3>2, <3>3, <3>4
  <2>6. QED
    BY <1>2, <2>1, <2>3, <2>4, <2>5, AfterTransitionCases
<1>5. ASSUME StartCall(w) PROVE \E t : Moves(w, t)
  <2>1. PICK t : t = [u EXCEPT !.pc = "call"]
    OBVIOUS
  <2>2. u.pc = "start" /\ GoTo(w, t) /\ UNCHANGED <<proc, crashes>>
    BY <1>1, <1>5, <2>1 DEF StartCall, Local
  <2>3. u \in [pc: {"start", "call"}, env: Environments, kind: RecordKind,
               id: Nat, act: Activity, tries: Nat]
    BY <1>2, <2>2 DEF Tasks, Idle
  <2>4. /\ t \in [pc: {"start", "call"}, env: Environments, kind: RecordKind,
                  id: Nat, act: Activity, tries: Nat]
        /\ t.id = u.id /\ t.env = u.env /\ t.kind = u.kind /\ t.pc = "call"
    BY <2>1, <2>3
  <2>5. t \in Tasks
    BY <2>4 DEF Tasks
  <2>6. HoldsLease(u) /\ (Names(t) => Names(u)) /\ (Operates(t) => Operates(u))
    BY <2>2, <2>4 DEF HoldsLease, Names, Drives, Operates
  <2>7. QED
    BY <1>3, <2>2, <2>4, <2>5, <2>6
<1>6. ASSUME u.pc = "call", NEW r \in {"ok", "failed", "timeout"},
             GoTo(w, Finishing(u, r)), u.kind = "deployment",
             UNCHANGED <<proc, crashes>>
      PROVE  \E t : Moves(w, t)
  <2>1. PICK t : t = Finishing(u, r)
    OBVIOUS
  <2>2. t \in Tasks
    BY <1>2, <1>6, <2>1, TasksBuilt
  <2>3. t.id = u.id /\ t.env = u.env /\ t.pc = "finish"
    BY <2>1 DEF Finishing
  <2>4. HoldsLease(u) /\ Names(u) /\ ~Operates(t)
    BY <1>6, <2>3 DEF HoldsLease, Names, Drives, Operates
  <2>5. QED
    BY <1>3, <1>6, <2>1, <2>2, <2>3, <2>4
<1>7. ASSUME u.pc = "call", NEW r \in {"ok", "failed"}, GoTo(w, AfterReply(u, r)),
             UNCHANGED <<proc, crashes>>
      PROVE  \E t : Moves(w, t)
  <2>1. u.env \in Environments /\ u.id \in Nat /\ HoldsLease(u)
    BY <1>2, <1>7, TaskFields DEF HoldsLease
  <2>2. CASE u.kind = "deployment"
    BY <1>2, <1>6, <1>7, <2>2, AfterReplyCases
  <2>3. ASSUME u.kind = "rollback_operation", NEW a \in Activity, NEW n \in Nat,
               AfterReply(u, r) = Doing("start", u.env, u.kind, u.id, a, n)
        PROVE  \E t : Moves(w, t)
    <3>1. PICK t : t = Doing("start", u.env, u.kind, u.id, a, n)
      OBVIOUS
    <3>2. t \in Tasks
      BY <2>1, <2>3, <3>1, TasksBuilt DEF RecordKind
    <3>3. t.id = u.id /\ t.env = u.env /\ t.pc = "start" /\ t.kind = u.kind
      BY <3>1 DEF Doing
    <3>4. ~Names(t) /\ Operates(u)
      BY <1>7, <2>3, <3>3 DEF Names, Drives, Operates
    <3>5. QED
      BY <1>3, <1>7, <2>1, <2>3, <3>1, <3>2, <3>3, <3>4
  <2>4. ASSUME u.kind = "rollback_operation",
               NEW outcome \in {"succeeded", "failed"},
               AfterReply(u, r) = Settling(u.env, u.id, outcome)
        PROVE  \E t : Moves(w, t)
    <3>1. PICK t : t = Settling(u.env, u.id, outcome)
      OBVIOUS
    <3>2. t \in Tasks
      BY <2>1, <3>1, TasksBuilt
    <3>3. t.id = u.id /\ t.env = u.env /\ t.pc = "settle"
      BY <3>1 DEF Settling
    <3>4. ~Names(t) /\ Operates(u)
      BY <1>7, <2>4, <3>3 DEF Names, Drives, Operates
    <3>5. QED
      BY <1>3, <1>7, <2>1, <2>4, <3>1, <3>2, <3>3, <3>4
  <2>5. QED
    BY <1>2, <1>7, <2>2, <2>3, <2>4, AfterReplyCases
<1>8. ASSUME NEW r \in {"ok", "failed"}, Reply(w, r) PROVE \E t : Moves(w, t)
  BY <1>1, <1>7, <1>8 DEF Reply, Local
<1>9. ASSUME LoseReply(w) PROVE \E t : Moves(w, t)
  BY <1>1, <1>7, <1>9 DEF LoseReply, Local
<1>10. ASSUME TimeOut(w) PROVE \E t : Moves(w, t)
  <2>1. UNCHANGED <<proc, crashes>>
    BY <1>10 DEF TimeOut, Local
  <2>2. CASE /\ u.pc = "call" /\ u.kind = "deployment"
             /\ GoTo(w, Finishing(u, "timeout"))
    BY <1>6, <2>1, <2>2
  <2>3. CASE u.pc \in {"start", "call"} /\ GoTo(w, Idle)
    BY <1>1, <2>1, <2>3, Ends
  <2>4. QED
    BY <1>1, <1>10, <2>2, <2>3 DEF TimeOut
<1>11. ASSUME FinishAttempt(w) PROVE \E t : Moves(w, t)
  <2>1. /\ u.pc = "finish" /\ GoTo(w, AfterAttempt(Home[w], u))
        /\ UNCHANGED <<proc, crashes>>
    BY <1>1, <1>11 DEF FinishAttempt, Local
  <2>2. /\ u.env \in Environments /\ u.id \in Nat /\ HoldsLease(u) /\ Names(u)
        /\ StateDuring[u.act] \in DeploymentState
    BY <1>2, <2>1, TaskFields, Tables DEF HoldsLease, Names, Drives, NonTerminal
  <2>3. ASSUME NEW a \in Activity, NEW n \in Nat,
               AfterAttempt(Home[w], u) = Doing("start", u.env, "deployment", u.id, a, n)
        PROVE  \E t : Moves(w, t)
    <3>1. PICK t : t = Doing("start", u.env, "deployment", u.id, a, n)
      OBVIOUS
    <3>2. t \in Tasks
      BY <2>2, <3>1, TasksBuilt DEF RecordKind
    <3>3. t.id = u.id /\ t.env = u.env /\ t.pc = "start" /\ t.kind = "deployment"
      BY <3>1 DEF Doing
    <3>4. ~Operates(t)
      BY <3>3 DEF Operates
    <3>5. QED
      BY <1>3, <2>1, <2>2, <2>3, <3>1, <3>2, <3>3, <3>4
  <2>4. ASSUME NEW g \in DeploymentState,
               AfterAttempt(Home[w], u) = Moving(u.env, u.id, StateDuring[u.act], g)
        PROVE  \E t : Moves(w, t)
    <3>1. PICK t : t = Moving(u.env, u.id, StateDuring[u.act], g)
      OBVIOUS
    <3>2. t \in Tasks
      BY <2>2, <3>1, TasksBuilt
    <3>3. t.id = u.id /\ t.env = u.env /\ t.pc = "transition"
      BY <3>1 DEF Moving
    <3>4. ~Operates(t)
      BY <3>3 DEF Operates
    <3>5. QED
      BY <1>3, <2>1, <2>2, <2>4, <3>1, <3>2, <3>3, <3>4
  <2>5. CASE AfterAttempt(Home[w], u) = Idle
    BY <1>1, <2>1, <2>5, Ends
  <2>6. QED
    BY <1>2, <2>1, <2>3, <2>4, <2>5, AfterAttemptCases
<1>12. QED
  BY <1>4, <1>5, <1>8, <1>9, <1>10, <1>11

(* How a request moves that rolls back.                                    *)
LEMMA MovesOfRollback ==
    ASSUME ServiceInv, [Next]_vars, NEW w \in Workers
    PROVE  /\ \A d \in Store!DeploymentIds :
                  RequestRollback(w, d) => \E t : Moves(w, t)
           /\ FindReference(w) => \E t : Moves(w, t)
           /\ AcquireForRollback(w) => \E t : Moves(w, t)
           /\ Begin(w) => \E t : Moves(w, t)
           /\ Settle(w) => \E t : Moves(w, t)
           /\ GiveUp(w) => \E t : Moves(w, t)
<1>1. PICK u : u = worker[w]
  OBVIOUS
<1>2. u \in Tasks
  BY <1>1 DEF ServiceInv
<1>3. P!TypeOK
  BY SameInvariants DEF ServiceInv
<1>4. ASSUME NEW d \in Store!DeploymentIds, RequestRollback(w, d)
      PROVE  \E t : Moves(w, t)
  <2>1. d \in Nat /\ deployments[d].env \in Environments
    BY <1>3, P!Rows DEF Store!DeploymentIds, P!DeploymentIds
  <2>2. PICK t : t = Considering("reference", deployments[d].env, d)
    OBVIOUS
  <2>3. t \in Tasks
    BY <2>1, <2>2, TasksBuilt
  <2>4. t.pc = "reference" /\ t.id = d /\ t.env = deployments[d].env
    BY <2>2 DEF Considering
  <2>5. RecordOK(t) /\ ~HoldsLease(t)
    BY <2>4 DEF RecordOK, Operates, HoldsLease
  <2>6. RecordOK(t)'
    BY <2>5, RecordsStay
  <2>7. QED
    BY <1>4, <2>2, <2>3, <2>5, <2>6 DEF RequestRollback, Moves, Continues, Local
<1>5. ASSUME u.pc \in {"reference", "acquire"}, NEW pc \in {"acquire", "begin"}
      PROVE  \E t : /\ t = [u EXCEPT !.pc = pc] /\ t \in Tasks /\ t.pc = pc
                    /\ t.id = u.id /\ t.env = u.env /\ RecordOK(t)'
  <2>1. u \in [pc: {"record", "reference", "acquire", "begin"},
               env: Environments, id: Nat]
    BY <1>2, <1>5 DEF Tasks, Idle
  <2>2. PICK t : t = [u EXCEPT !.pc = pc]
    OBVIOUS
  <2>3. /\ t \in [pc: {"record", "reference", "acquire", "begin"},
                  env: Environments, id: Nat]
        /\ t.pc = pc /\ t.id = u.id /\ t.env = u.env
    BY <2>1, <2>2
  <2>4. t \in Tasks
    BY <2>3 DEF Tasks
  <2>5. Names(u) /\ ~Operates(t)
    BY <1>5, <2>3 DEF Names, Drives, Operates
  <2>6. RecordOK(t)'
    BY <1>1, <2>3, <2>5, SameRecord
  <2>7. QED
    BY <2>2, <2>3, <2>4, <2>6
<1>6. ASSUME FindReference(w) PROVE \E t : Moves(w, t)
  <2>1. /\ u.pc = "reference" /\ GoTo(w, [u EXCEPT !.pc = "acquire"])
        /\ UNCHANGED <<proc, crashes>>
    BY <1>1, <1>6 DEF FindReference, Local
  <2>2. PICK t : /\ t = [u EXCEPT !.pc = "acquire"] /\ t \in Tasks
                 /\ t.pc = "acquire" /\ RecordOK(t)'
    BY <1>5, <2>1
  <2>3. ~HoldsLease(t)
    BY <2>2 DEF HoldsLease
  <2>4. QED
    BY <1>1, <2>1, <2>2, <2>3, GoesOn
<1>7. ASSUME AcquireForRollback(w) PROVE \E t : Moves(w, t)
  <2>1. /\ u.pc = "acquire" /\ TryAcquire(w, [u EXCEPT !.pc = "begin"])
        /\ UNCHANGED <<proc, crashes>>
    BY <1>1, <1>7 DEF AcquireForRollback, Local
  <2>2. PICK t : /\ t = [u EXCEPT !.pc = "begin"] /\ t \in Tasks
                 /\ t.pc = "begin" /\ RecordOK(t)'
    BY <1>5, <2>1
  <2>3. HoldsLease(t) /\ ~HoldsLease(u) /\ u # Idle
    BY <2>1, <2>2 DEF HoldsLease, Idle
  <2>4. QED
    BY <1>1, <2>1, <2>2, <2>3 DEF Moves, Acquires
<1>8. ASSUME Begin(w) PROVE \E t : Moves(w, t)
  <2>1. PICK n, t : /\ n = Len(operations) + 1
                    /\ t = Doing("start", u.env, "rollback_operation", n,
                                 "preflight", 1)
    OBVIOUS
  <2>2. /\ u.pc = "begin" /\ P!BeginOperation(u.id) /\ GoTo(w, t)
        /\ UNCHANGED <<proc, crashes>>
    BY <1>1, <1>8, <2>1, SameActions DEF Begin, Local
  <2>3. Names(u) /\ HoldsLease(u) /\ u.env \in Environments
    BY <1>2, <2>2, TaskFields DEF Names, HoldsLease
  <2>4. u.id \in P!DeploymentIds /\ deployments[u.id].env = u.env
    BY <1>1, <2>3, SameSets DEF ServiceInv, RecordOK
  <2>5. /\ P!OperationIds' = P!OperationIds \cup {n}
        /\ operations'[n].env = u.env
    BY <1>3, <2>1, <2>2, <2>4, P!BeginEffect
  <2>6. n \in Store!OperationIds'
    BY <2>5 DEF P!OperationIds, Store!OperationIds
  <2>7. n \in Nat
    BY <1>3, <2>1, P!Rows
  <2>8. t \in Tasks
    BY <2>1, <2>3, <2>7, TasksBuilt DEF RecordKind, Activity
  <2>9. /\ t.pc = "start" /\ t.kind = "rollback_operation" /\ t.id = n
        /\ t.env = u.env
    BY <2>1 DEF Doing
  <2>10. RecordOK(t)'
    BY <2>5, <2>6, <2>9 DEF RecordOK, Names, Drives
  <2>11. QED
    BY <1>1, <2>2, <2>3, <2>8, <2>9, <2>10, GoesOn
<1>9. ASSUME Settle(w) PROVE \E t : Moves(w, t)
  BY <1>9, Ends DEF Settle, Local
<1>10. ASSUME GiveUp(w) PROVE \E t : Moves(w, t)
  <2>1. u.pc # "idle"
    BY <1>1, <1>2, <1>10, TaskFields DEF GiveUp, Refused, CallsRepository
  <2>2. QED
    BY <1>1, <1>10, <2>1, Ends DEF GiveUp, Local
<1>11. QED
  BY <1>4, <1>6, <1>7, <1>8, <1>9, <1>10

(* Every step leaves the workers and the leases alone, or is the step of   *)
(* one worker, or is the end of a process.                                 *)
LEMMA StepOfOne ==
    ServiceInv /\ [Next]_vars =>
        \/ UNCHANGED <<worker, leases, crashes>>
        \/ \E w \in Workers : \E t : Moves(w, t)
        \/ \E p \in Processes : Crash(p)
<1> SUFFICES ASSUME ServiceInv, [Next]_vars
             PROVE  \/ UNCHANGED <<worker, leases, crashes>>
                    \/ \E w \in Workers : \E t : Moves(w, t)
                    \/ \E p \in Processes : Crash(p)
  OBVIOUS
<1>1. CASE UNCHANGED vars
  BY <1>1 DEF vars
<1>2. ASSUME NEW w \in Workers,
             \/ \E req \in Requests : Submit(w, req)
             \/ \E d \in Store!DeploymentIds : RequestRollback(w, d)
             \/ Progress(w)
             \/ \E result \in {"ok", "failed"} : Reply(w, result)
             \/ LoseReply(w)
      PROVE  \E t : Moves(w, t)
  BY <1>2, MovesBeforeRun, MovesOfDeployment, MovesOfRollback DEF Progress
<1>3. ASSUME NEW p \in Processes, Start(p) \/ Recover(p)
      PROVE  UNCHANGED <<worker, leases, crashes>>
  BY <1>3 DEF Start, Recover, RecoverDeployment, ReadOperations,
              RecoverOperation, Serve
<1>4. ASSUME (\E c \in inflight : RemoteEnds(c))
             \/ (\E i \in incidents : Acknowledge(i))
      PROVE  UNCHANGED <<worker, leases, crashes>>
  BY <1>4 DEF RemoteEnds, Acknowledge, Local
<1>5. QED
  BY <1>1, <1>2, <1>3, <1>4 DEF Next
-----------------------------------------------------------------------------
(* ServiceInv is inductive.                                                *)

(* A step keeps the types of the requests, and each on a record that is    *)
(* there.                                                                  *)
LEMMA WorkersStep ==
    ServiceInv /\ [Next]_vars =>
        /\ worker' \in [Workers -> Tasks]
        /\ \A w \in Workers : RecordOK(worker[w])'
        /\ leases' \in [Processes -> SUBSET Environments]
        /\ crashes' \in 0 .. MaxCrashes
<1> SUFFICES ASSUME ServiceInv, [Next]_vars
             PROVE  /\ worker' \in [Workers -> Tasks]
                    /\ \A w \in Workers : RecordOK(worker[w])'
                    /\ leases' \in [Processes -> SUBSET Environments]
                    /\ crashes' \in 0 .. MaxCrashes
  OBVIOUS
<1>1. \A t : RecordOK(t) => RecordOK(t)'
  BY RecordsStay
<1>2. ASSUME NEW w \in Workers PROVE RecordOK(worker[w]) /\ worker[w] \in Tasks
  BY DEF ServiceInv
<1>3. CASE UNCHANGED <<worker, leases, crashes>>
  <2>1. ASSUME NEW w \in Workers PROVE RecordOK(worker[w])'
    <3>1. PICK t : t = worker[w]
      OBVIOUS
    <3>2. RecordOK(t)'
      BY <1>1, <1>2, <3>1
    <3>3. worker'[w] = t
      BY <1>3, <3>1
    <3>4. QED
      BY <3>2, <3>3 DEF RecordOK
  <2>2. QED
    BY <1>3, <2>1 DEF ServiceInv
<1>4. ASSUME NEW w \in Workers, NEW t, Moves(w, t)
      PROVE  /\ worker' \in [Workers -> Tasks]
             /\ \A x \in Workers : RecordOK(worker[x])'
             /\ leases' \in [Processes -> SUBSET Environments]
             /\ UNCHANGED crashes
  <2>1. /\ t \in Tasks /\ RecordOK(t)' /\ UNCHANGED crashes
        /\ worker' = [worker EXCEPT ![w] = t]
    BY <1>4 DEF Moves, Continues, Acquires, GoTo, TryAcquire
  <2>2. ASSUME NEW x \in Workers PROVE RecordOK(worker[x])'
    <3>1. PICK u : u = IF x = w THEN t ELSE worker[x]
      OBVIOUS
    <3>2. RecordOK(u)'
      BY <1>1, <1>2, <2>1, <3>1
    <3>3. worker'[x] = u
      BY <2>1, <3>1 DEF ServiceInv
    <3>4. QED
      BY <3>2, <3>3 DEF RecordOK
  <2>3. Home[w] \in Processes
    BY ServiceAssumption
  <2>4. leases' \in [Processes -> SUBSET Environments]
    <3>1. CASE GoTo(w, t)
      BY <2>3, <3>1 DEF GoTo, ServiceInv
    <3>2. CASE Acquires(w, t)
      <4>1. t.env \in Environments
        BY <2>1, <3>2, TaskFields DEF Acquires, HoldsLease
      <4>2. leases' = [leases EXCEPT ![Home[w]] = @ \cup {t.env}]
        BY <3>2 DEF Acquires, TryAcquire
      <4>3. QED
        BY <2>3, <4>1, <4>2 DEF ServiceInv
    <3>3. QED
      BY <1>4, <3>1, <3>2 DEF Moves, Continues
  <2>5. QED
    BY <2>1, <2>2, <2>4 DEF ServiceInv
<1>5. ASSUME NEW p \in Processes, Crash(p)
      PROVE  /\ worker' \in [Workers -> Tasks]
             /\ \A w \in Workers : RecordOK(worker[w])'
             /\ leases' \in [Processes -> SUBSET Environments]
             /\ crashes' \in 0 .. MaxCrashes
  <2>1. /\ worker' = [w \in Workers |-> IF Home[w] = p THEN Idle ELSE worker[w]]
        /\ leases' = [leases EXCEPT ![p] = {}]
        /\ crashes' = crashes + 1 /\ crashes < MaxCrashes
    BY <1>5 DEF Crash
  <2>2. ~Names(Idle) /\ ~Operates(Idle)
    BY DEF Names, Drives, Operates, Idle
  <2>3. ASSUME NEW w \in Workers PROVE RecordOK(worker[w])'
    <3>1. PICK u : u = IF Home[w] = p THEN Idle ELSE worker[w]
      OBVIOUS
    <3>2. RecordOK(u)'
      BY <1>1, <1>2, <2>2, <3>1 DEF RecordOK
    <3>3. worker'[w] = u
      BY <2>1, <3>1
    <3>4. QED
      BY <3>2, <3>3 DEF RecordOK
  <2>4. worker' \in [Workers -> Tasks]
    BY <1>2, <2>1, TasksBuilt
  <2>5. crashes' \in 0 .. MaxCrashes
    BY <2>1, ServiceAssumption DEF ServiceInv
  <2>6. QED
    BY <2>1, <2>3, <2>4, <2>5 DEF ServiceInv
<1>6. QED
  BY <1>3, <1>4, <1>5, StepOfOne DEF ServiceInv

(* A step keeps the types of the processes.                                *)
LEMMA ProcStep == ServiceInv /\ [Next]_vars => proc' \in [Processes -> ProcStates]
<1> SUFFICES ASSUME ServiceInv, [Next]_vars
             PROVE  proc' \in [Processes -> ProcStates]
  OBVIOUS
<1>1. proc \in [Processes -> ProcStates]
  BY DEF ServiceInv
<1>2. ASSUME NEW p \in Processes, Start(p) PROVE proc' \in [Processes -> ProcStates]
  <2>1. PICK todo : todo = {<<d, deployments[d].state>> :
                        d \in {d \in Store!DeploymentIds :
                                   deployments[d].state \in NonTerminal}}
    OBVIOUS
  <2>2. proc' = [proc EXCEPT ![p] = [phase |-> "deployments", todo |-> todo]]
    BY <1>2, <2>1 DEF Start
  <2>3. todo \in SUBSET (Nat \X DeploymentState)
    BY <2>1 DEF Store!DeploymentIds, NonTerminal
  <2>4. [phase |-> "deployments", todo |-> todo] \in ProcStates
    BY <2>3 DEF ProcStates
  <2>5. QED
    BY <1>1, <2>2, <2>4
<1>3. ASSUME NEW p \in Processes, RecoverDeployment(p)
      PROVE  proc' \in [Processes -> ProcStates]
  <2>1. PICK r : proc' = [proc EXCEPT ![p].todo = @ \ {r}]
    BY <1>3 DEF RecoverDeployment
  <2>2. proc[p] \in [phase: {"deployments"}, todo: SUBSET (Nat \X DeploymentState)]
    BY <1>1, <1>3 DEF RecoverDeployment, ProcStates
  <2>3. [proc[p] EXCEPT !.todo = @ \ {r}]
            \in [phase: {"deployments"}, todo: SUBSET (Nat \X DeploymentState)]
    BY <2>2
  <2>4. [proc[p] EXCEPT !.todo = @ \ {r}] \in ProcStates
    BY <2>3 DEF ProcStates
  <2>5. QED
    BY <1>1, <2>1, <2>4
<1>4. ASSUME NEW p \in Processes, ReadOperations(p)
      PROVE  proc' \in [Processes -> ProcStates]
  <2>1. PICK todo : todo = {o \in Store!OperationIds :
                                operations[o].state = "started"}
    OBVIOUS
  <2>2. proc' = [proc EXCEPT ![p] = [phase |-> "operations", todo |-> todo]]
    BY <1>4, <2>1 DEF ReadOperations
  <2>3. todo \in SUBSET Nat
    BY <2>1 DEF Store!OperationIds
  <2>4. [phase |-> "operations", todo |-> todo] \in ProcStates
    BY <2>3 DEF ProcStates
  <2>5. QED
    BY <1>1, <2>2, <2>4
<1>5. ASSUME NEW p \in Processes, RecoverOperation(p)
      PROVE  proc' \in [Processes -> ProcStates]
  <2>1. PICK o : proc' = [proc EXCEPT ![p].todo = @ \ {o}]
    BY <1>5 DEF RecoverOperation
  <2>2. proc[p] \in [phase: {"operations"}, todo: SUBSET Nat]
    BY <1>1, <1>5 DEF RecoverOperation, ProcStates
  <2>3. [proc[p] EXCEPT !.todo = @ \ {o}]
            \in [phase: {"operations"}, todo: SUBSET Nat]
    BY <2>2
  <2>4. [proc[p] EXCEPT !.todo = @ \ {o}] \in ProcStates
    BY <2>3 DEF ProcStates
  <2>5. QED
    BY <1>1, <2>1, <2>4
<1>6. ASSUME NEW p \in Processes, Serve(p) \/ Crash(p)
      PROVE  proc' \in [Processes -> ProcStates]
  <2>1. Stopped \in ProcStates /\ [phase |-> "up", todo |-> {}] \in ProcStates
    BY DEF Stopped, ProcStates
  <2>2. QED
    BY <1>1, <1>6, <2>1 DEF Serve, Crash
<1>7. CASE UNCHANGED proc
  BY <1>1, <1>7
<1>8. QED
  BY <1>2, <1>3, <1>4, <1>5, <1>6, <1>7
  DEF Next, Progress, Recover, vars, Submit, CheckConflict, Reserve, Reuse,
      Record, Advance, StartCall, Reply, LoseReply, TimeOut, FinishAttempt,
      RequestRollback, FindReference, AcquireForRollback, Begin, Settle,
      GiveUp, RemoteEnds, Acknowledge, Local

(* Calls are added by StartCall only, and only the mutating ones. *)
LEMMA CallsStep ==
    ServiceInv /\ [Next]_vars =>
        \/ inflight' \subseteq inflight
        \/ \E w \in Workers :
               /\ StartCall(w)
               /\ worker[w].act \in Mutating
               /\ inflight' = inflight \cup {CallOf(worker[w])}
BY DEF Next, Progress, Recover, vars, Submit, CheckConflict, Reserve, Reuse,
       Record, Advance, StartCall, Issue, Reply, LoseReply, TimeOut,
       FinishAttempt, RequestRollback, FindReference, AcquireForRollback,
       Begin, Settle, GiveUp, RemoteEnds, Acknowledge, Local, Start,
       RecoverDeployment, ReadOperations, RecoverOperation, Serve, Crash

(* The call of a task is a call, about the record of the task. *)
LEMMA CallBuilt ==
    ASSUME NEW t \in Tasks, t.pc \in {"start", "call"}, t.act \in Mutating,
           RecordOK(t)
    PROVE  CallOK(CallOf(t))
<1>1. t.kind \in RecordKind /\ t.id \in Nat /\ t.env \in Environments
  BY TaskFields
<1>2. PICK c : c = CallOf(t)
  OBVIOUS
<1>3. /\ c \in [kind: RecordKind, id: Nat, env: Environments, act: Mutating]
      /\ c.kind = t.kind /\ c.id = t.id /\ c.env = t.env
  BY <1>1, <1>2 DEF CallOf
<1>4. t.kind = "deployment" => Names(t)
  BY DEF Names, Drives
<1>5. t.kind = "rollback_operation" => Operates(t)
  BY DEF Operates
<1>6. CallOK(c)
  BY <1>3, <1>4, <1>5 DEF CallOK, RecordOK
<1>7. QED
  BY <1>2, <1>6

(* Every step of the services keeps ServiceInv.                            *)
LEMMA ServiceStep == ServiceInv /\ [Next]_vars => ServiceInv'
<1> SUFFICES ASSUME ServiceInv, [Next]_vars PROVE ServiceInv'
  OBVIOUS
<1>1. ASSUME NEW c \in inflight' PROVE CallOK(c)'
  <2>1. CASE c \in inflight
    BY <2>1, RecordsStay DEF ServiceInv
  <2>2. ASSUME NEW w \in Workers, StartCall(w), worker[w].act \in Mutating,
               c = CallOf(worker[w])
        PROVE  CallOK(c)'
    <3>1. worker[w] \in Tasks /\ worker[w].pc = "start" /\ RecordOK(worker[w])
      BY <2>2 DEF StartCall, ServiceInv
    <3>2. CallOK(CallOf(worker[w]))
      BY <2>2, <3>1, CallBuilt
    <3>3. CallOK(c)
      BY <2>2, <3>2
    <3>4. QED
      BY <3>3, RecordsStay
  <2>3. QED
    BY <2>1, <2>2, CallsStep
<1>2. QED
  BY <1>1, RecordsStay, WorkersStep, ProcStep DEF ServiceInv

(* ServiceInv holds in every state.                                        *)
LEMMA ServiceCorrect == Spec => []ServiceInv
BY ServiceInit, ServiceStep, PTL DEF Spec
-----------------------------------------------------------------------------
(* What a step takes a worker to, in the terms the invariants need: the    *)
(* worker is left where it was, or ends where it drives no record, or goes *)
(* on in one of the ways below.  u is its task before, t the one after.    *)

Quiet(t) ==
    t.pc \in {"idle", "conflict", "reserve", "record", "reference", "acquire",
              "begin"}

Same(u, t) == t.id = u.id /\ t.env = u.env

Reserved(w, u, t) ==
    /\ Reserve(w) /\ u.pc = "reserve"
    /\ t.pc = "transition" /\ t.env = u.env /\ t.id = Len(deployments) + 1
    /\ t.mem = "created" /\ t.goal = "prechecking"

Advanced(w, u, t) ==
    /\ Advance(w) /\ u.pc = "transition"
    /\ t.pc = "start" /\ t.kind = "deployment" /\ Same(u, t)
    /\ t.act \in Activity /\ StateDuring[t.act] = u.goal

Called(w, u, t) ==
    /\ StartCall(w) /\ u.pc = "start"
    /\ t.pc = "call" /\ Same(u, t) /\ t.kind = u.kind /\ t.act = u.act

Answered(w, u, t) ==
    /\ \/ Reply(w, t.result)
       \/ LoseReply(w)
       \/ TimeOut(w) /\ t.result = "timeout"
    /\ u.pc = "call" /\ u.kind = "deployment"
    /\ t.pc = "finish" /\ Same(u, t) /\ t.act = u.act

RollbackAnswered(w, u, t) ==
    /\ LoseReply(w) \/ \E r \in {"ok", "failed"} : Reply(w, r)
    /\ u.pc = "call" /\ u.kind = "rollback_operation"
    /\ \/ t.pc = "start" /\ t.kind = "rollback_operation"
       \/ t.pc = "settle"
    /\ Same(u, t)

AttemptRepeated(w, u, t) ==
    /\ FinishAttempt(w) /\ u.pc = "finish" /\ u.result # "timeout"
    /\ t.pc = "start" /\ t.kind = "deployment" /\ Same(u, t)
    /\ t.act \in Activity /\ StateDuring[t.act] = StateDuring[u.act]

AttemptDecided(w, u, t) ==
    /\ FinishAttempt(w) /\ u.pc = "finish"
    /\ t.pc = "transition" /\ Same(u, t) /\ t.mem = StateDuring[u.act]
    /\ u.result = "timeout" => t.mem \notin HasLiveMutationStarted
    /\ t.goal = "failed" /\ t.mem \in HasLiveArtifactReplacementStarted
           => t.env \notin RollbackConfigured[Home[w]]

Began(w, u, t) ==
    /\ Begin(w) /\ u.pc = "begin"
    /\ t.pc = "start" /\ t.kind = "rollback_operation" /\ t.env = u.env
    /\ t.id = Len(operations) + 1

Goes(w, u, t) ==
    \/ t = u
    \/ Quiet(t)
    \/ Reserved(w, u, t) \/ Advanced(w, u, t) \/ Called(w, u, t)
    \/ Answered(w, u, t) \/ RollbackAnswered(w, u, t)
    \/ AttemptRepeated(w, u, t) \/ AttemptDecided(w, u, t) \/ Began(w, u, t)

(* The two services, before and after the run of a deployment. *)
LEMMA GoesWithoutRecord ==
    ASSUME ServiceInv, [Next]_vars, NEW w \in Workers,
           NEW u, u = worker[w], NEW t, t = worker'[w]
    PROVE  /\ \A req \in Requests : Submit(w, req) => Goes(w, u, t)
           /\ CheckConflict(w) => Goes(w, u, t)
           /\ Reserve(w) => Goes(w, u, t)
           /\ Reuse(w) => Goes(w, u, t)
           /\ Record(w) => Goes(w, u, t)
           /\ \A d \in Store!DeploymentIds :
                  RequestRollback(w, d) => Goes(w, u, t)
           /\ FindReference(w) => Goes(w, u, t)
           /\ AcquireForRollback(w) => Goes(w, u, t)
           /\ Begin(w) => Goes(w, u, t)
           /\ Settle(w) => Goes(w, u, t)
           /\ GiveUp(w) => Goes(w, u, t)
<1>1. \A s : GoTo(w, s) => t = s
  BY DEF GoTo, ServiceInv
<1>2. \A s : TryAcquire(w, s) => t = s
  BY DEF TryAcquire, ServiceInv
<1>3. u \in Tasks
  BY DEF ServiceInv
<1>4. Quiet(Idle) /\ \A e, d : Quiet(Recording(e, d))
  BY DEF Quiet, Idle, Recording
<1>5. ASSUME NEW req \in Requests, Submit(w, req) PROVE Goes(w, u, t)
  BY <1>2, <1>5 DEF Submit, Goes, Quiet, Accepted
<1>6. ASSUME CheckConflict(w) PROVE Goes(w, u, t)
  BY <1>1, <1>6 DEF CheckConflict, Goes, Quiet, Accepted
<1>7. ASSUME Reserve(w) PROVE Goes(w, u, t)
  <2>1. /\ u.pc = "reserve"
        /\ t = Moving(u.env, Len(deployments) + 1, "created", "prechecking")
    BY <1>1, <1>7 DEF Reserve
  <2>2. /\ t.pc = "transition" /\ t.env = u.env /\ t.id = Len(deployments) + 1
        /\ t.mem = "created" /\ t.goal = "prechecking"
    BY <2>1 DEF Moving
  <2>3. QED
    BY <1>7, <2>1, <2>2 DEF Goes, Reserved
<1>8. ASSUME Reuse(w) PROVE Goes(w, u, t)
  BY <1>1, <1>4, <1>8, ReturnedCases DEF Reuse, Goes
<1>9. ASSUME Record(w) \/ Settle(w) \/ GiveUp(w) PROVE Goes(w, u, t)
  BY <1>1, <1>4, <1>9 DEF Record, Settle, GiveUp, Goes
<1>10. ASSUME NEW d \in Store!DeploymentIds, RequestRollback(w, d)
       PROVE  Goes(w, u, t)
  BY <1>1, <1>10 DEF RequestRollback, Goes, Quiet, Considering
<1>11. ASSUME u.pc \in {"reference", "acquire"}, NEW pc \in {"acquire", "begin"},
              t = [u EXCEPT !.pc = pc]
       PROVE  Goes(w, u, t)
  BY <1>3, <1>11 DEF Tasks, Idle, Goes, Quiet
<1>12. ASSUME FindReference(w) \/ AcquireForRollback(w) PROVE Goes(w, u, t)
  BY <1>1, <1>2, <1>11, <1>12 DEF FindReference, AcquireForRollback
<1>13. ASSUME Begin(w) PROVE Goes(w, u, t)
  <2>1. /\ u.pc = "begin"
        /\ t = Doing("start", u.env, "rollback_operation",
                     Len(operations) + 1, "preflight", 1)
    BY <1>1, <1>13 DEF Begin
  <2>2. /\ t.pc = "start" /\ t.kind = "rollback_operation" /\ t.env = u.env
        /\ t.id = Len(operations) + 1
    BY <2>1 DEF Doing
  <2>3. QED
    BY <1>13, <2>1, <2>2 DEF Goes, Began
<1>14. QED
  BY <1>5, <1>6, <1>7, <1>8, <1>9, <1>10, <1>12, <1>13

(* What a step takes a request that drives a deployment to.                *)
LEMMA GoesWithRecord ==
    ASSUME ServiceInv, [Next]_vars, NEW w \in Workers,
           NEW u, u = worker[w], NEW t, t = worker'[w]
    PROVE  /\ Advance(w) => Goes(w, u, t)
           /\ StartCall(w) => Goes(w, u, t)
           /\ \A r \in {"ok", "failed"} : Reply(w, r) => Goes(w, u, t)
           /\ LoseReply(w) => Goes(w, u, t)
           /\ TimeOut(w) => Goes(w, u, t)
           /\ FinishAttempt(w) => Goes(w, u, t)
<1>1. \A s : GoTo(w, s) => t = s
  BY DEF GoTo, ServiceInv
<1>2. u \in Tasks
  BY DEF ServiceInv
<1>3. Quiet(Idle) /\ \A e, d : Quiet(Recording(e, d))
  BY DEF Quiet, Idle, Recording
<1>4. \A e, k, d, a, n :
          LET s == Doing("start", e, k, d, a, n) IN
          /\ s.pc = "start" /\ s.env = e /\ s.kind = k /\ s.id = d /\ s.act = a
  BY DEF Doing
<1>5. ASSUME Advance(w) PROVE Goes(w, u, t)
  <2>1. /\ u.pc = "transition" /\ <<u.mem, u.goal>> \in CanTransition
        /\ t = AfterTransition(Home[w], u)
    BY <1>1, <1>5 DEF Advance, Store!Transition, Store!CanTransition,
                      CanTransition
  <2>2. CASE t \in {Idle, Recording(u.env, u.id)}
    BY <1>3, <2>2 DEF Goes
  <2>3. ASSUME NEW a \in Activity, StateDuring[a] = u.goal,
               t = Doing("start", u.env, "deployment", u.id, a, 1)
        PROVE  Goes(w, u, t)
    <3>1. t.pc = "start" /\ t.kind = "deployment" /\ Same(u, t) /\ t.act = a
      BY <1>4, <2>3 DEF Same
    <3>2. QED
      BY <1>5, <2>1, <2>3, <3>1 DEF Goes, Advanced
  <2>4. QED
    BY <1>2, <2>1, <2>2, <2>3, AfterTransitionCases
<1>6. ASSUME StartCall(w) PROVE Goes(w, u, t)
  <2>1. u.pc = "start" /\ t = [u EXCEPT !.pc = "call"]
    BY <1>1, <1>6 DEF StartCall
  <2>2. u \in [pc: {"start", "call"}, env: Environments, kind: RecordKind,
               id: Nat, act: Activity, tries: Nat]
    BY <1>2, <2>1 DEF Tasks, Idle
  <2>3. t.pc = "call" /\ Same(u, t) /\ t.kind = u.kind /\ t.act = u.act
    BY <2>1, <2>2 DEF Same
  <2>4. QED
    BY <1>6, <2>1, <2>3 DEF Goes, Called
<1>7. \A r : LET s == Finishing(u, r) IN
             /\ s.pc = "finish" /\ Same(u, s) /\ s.act = u.act /\ s.result = r
  BY DEF Finishing, Same
<1>8. ASSUME NEW r \in {"ok", "failed"}, u.pc = "call", t = AfterReply(u, r),
             Reply(w, r) \/ LoseReply(w)
      PROVE  Goes(w, u, t)
  <2>1. CASE u.kind = "deployment" /\ t = Finishing(u, r)
    <3>1. /\ t.pc = "finish" /\ Same(u, t) /\ t.act = u.act /\ t.result = r
      BY <1>7, <2>1
    <3>2. QED
      BY <1>8, <2>1, <3>1 DEF Goes, Answered
  <2>2. ASSUME u.kind = "rollback_operation", NEW a, NEW n,
               t = Doing("start", u.env, u.kind, u.id, a, n)
        PROVE  Goes(w, u, t)
    <3>1. t.pc = "start" /\ t.kind = u.kind /\ Same(u, t)
      BY <1>4, <2>2 DEF Same
    <3>2. QED
      BY <1>8, <2>2, <3>1 DEF Goes, RollbackAnswered
  <2>3. ASSUME u.kind = "rollback_operation", NEW outcome,
               t = Settling(u.env, u.id, outcome)
        PROVE  Goes(w, u, t)
    <3>1. t.pc = "settle" /\ Same(u, t)
      BY <2>3 DEF Settling, Same
    <3>2. QED
      BY <1>8, <2>3, <3>1 DEF Goes, RollbackAnswered
  <2>4. QED
    BY <1>2, <1>8, <2>1, <2>2, <2>3, AfterReplyCases
<1>9. ASSUME NEW r \in {"ok", "failed"}, Reply(w, r) PROVE Goes(w, u, t)
  BY <1>1, <1>8, <1>9 DEF Reply
<1>10. ASSUME LoseReply(w) PROVE Goes(w, u, t)
  BY <1>1, <1>8, <1>10 DEF LoseReply
<1>11. ASSUME TimeOut(w) PROVE Goes(w, u, t)
  <2>1. CASE /\ u.pc = "call" /\ u.kind = "deployment"
             /\ t = Finishing(u, "timeout")
    <3>1. /\ t.pc = "finish" /\ Same(u, t) /\ t.act = u.act
          /\ t.result = "timeout"
      BY <1>7, <2>1
    <3>2. QED
      BY <1>11, <2>1, <3>1 DEF Goes, Answered
  <2>2. CASE t = Idle
    BY <1>3, <2>2 DEF Goes
  <2>3. QED
    BY <1>1, <1>11, <2>1, <2>2 DEF TimeOut
<1>12. ASSUME FinishAttempt(w) PROVE Goes(w, u, t)
  <2>1. u.pc = "finish" /\ t = AfterAttempt(Home[w], u)
    BY <1>1, <1>12 DEF FinishAttempt
  <2>2. ASSUME u.result # "timeout", NEW a \in Activity, NEW n,
               StateDuring[a] = StateDuring[u.act],
               t = Doing("start", u.env, "deployment", u.id, a, n)
        PROVE  Goes(w, u, t)
    <3>1. t.pc = "start" /\ t.kind = "deployment" /\ Same(u, t) /\ t.act = a
      BY <1>4, <2>2 DEF Same
    <3>2. QED
      BY <1>12, <2>1, <2>2, <3>1 DEF Goes, AttemptRepeated
  <2>3. CASE t = Idle
    BY <1>3, <2>3 DEF Goes
  <2>4. ASSUME NEW g, t = Moving(u.env, u.id, StateDuring[u.act], g),
               u.result = "timeout"
                   => StateDuring[u.act] \notin HasLiveMutationStarted,
               /\ g = "failed"
               /\ StateDuring[u.act] \in HasLiveArtifactReplacementStarted
               => u.env \notin RollbackConfigured[Home[w]]
        PROVE  Goes(w, u, t)
    <3>1. /\ t.pc = "transition" /\ Same(u, t) /\ t.mem = StateDuring[u.act]
          /\ t.goal = g
      BY <2>4 DEF Moving, Same
    <3>2. QED
      BY <1>12, <2>1, <2>4, <3>1 DEF Goes, AttemptDecided, Same
  <2>5. QED
    BY <1>2, <2>1, <2>2, <2>3, <2>4, AfterAttemptCases
<1>13. QED
  BY <1>5, <1>6, <1>9, <1>10, <1>11, <1>12

(* What any step takes any request to.                                     *)
LEMMA WorkerGoes ==
    ASSUME ServiceInv, [Next]_vars, NEW w \in Workers
    PROVE  Goes(w, worker[w], worker'[w])
<1>1. PICK u, t : u = worker[w] /\ t = worker'[w]
  OBVIOUS
<1>2. t = u => Goes(w, u, t)
  BY DEF Goes
<1>3. ASSUME NEW p \in Processes, Crash(p) PROVE Goes(w, u, t)
  BY <1>1, <1>3 DEF Crash, Goes, Quiet, Idle
<1>4. ASSUME NEW x \in Workers, x # w, NEW s, Moves(x, s) PROVE t = u
  BY <1>1, <1>4 DEF Moves, Continues, Acquires, GoTo, TryAcquire, ServiceInv
<1>5. ASSUME NEW x \in Workers,
             \/ \E req \in Requests : Submit(x, req)
             \/ \E d \in Store!DeploymentIds : RequestRollback(x, d)
             \/ Progress(x)
             \/ \E result \in {"ok", "failed"} : Reply(x, result)
             \/ LoseReply(x)
      PROVE  Goes(w, u, t)
  <2>1. CASE x # w
    <3>1. PICK s : Moves(x, s)
      BY <1>5, MovesBeforeRun, MovesOfDeployment, MovesOfRollback DEF Progress
    <3>2. QED
      BY <1>2, <1>4, <2>1, <3>1
  <2>2. CASE x = w
    BY <1>1, <1>5, <2>2, GoesWithoutRecord, GoesWithRecord DEF Progress
  <2>3. QED
    BY <2>1, <2>2
<1>6. ASSUME \/ UNCHANGED vars
             \/ \E p \in Processes : Start(p) \/ Recover(p)
             \/ \E c \in inflight : RemoteEnds(c)
             \/ \E i \in incidents : Acknowledge(i)
      PROVE  t = u
  BY <1>1, <1>6 DEF vars, Start, Recover, RecoverDeployment, ReadOperations,
              RecoverOperation, Serve, RemoteEnds, Acknowledge, Local
<1>7. Goes(w, u, t)
  <2>1. CASE \E p \in Processes : Start(p) \/ Recover(p) \/ Crash(p)
    BY <1>2, <1>3, <1>6, <2>1
  <2>2. CASE \/ UNCHANGED vars
             \/ \E c \in inflight : RemoteEnds(c)
             \/ \E i \in incidents : Acknowledge(i)
    BY <1>2, <1>6, <2>2
  <2>3. QED
    BY <1>5, <2>1, <2>2 DEF Next
<1>8. QED
  BY <1>1, <1>7
-----------------------------------------------------------------------------
(* The processes are one client of the store, whatever they do and however *)
(* often they stop, so that every theorem about MutationStore holds of the *)
(* running system.                                                         *)
LEMMA StoreUsed == Spec => UsesStore
<1>1. Init => Store!Init
  BY ServiceInit
<1>2. ServiceInv /\ [Next]_vars => [Store!Next]_(Store!storeVars)
  BY StoreStep
<1>3. QED
  BY <1>1, <1>2, ServiceCorrect, PTL DEF Spec, UsesStore, Store!Spec

(* The store as the services use it satisfies its invariants.              *)
LEMMA StoreOfService == Spec => []StoreInv
BY StoreUsed, StoreCorrect, PTL DEF UsesStore

(* The references of the store, as the services use it.                    *)
LEMMA ReferencesOfService ==
    Spec => [](P!ReferenceInv /\ P!ConsumedByOneRollback /\ P!SupersededOlder)
BY StoreUsed, SameSpec, P!ReferenceInvCorrect, P!ConsumedCorrect,
   P!SupersededCorrect, PTL DEF UsesStore

(* The type invariant of the services. *)
THEOREM ServiceTypeCorrect == Spec => []TypeOK
<1>1. ServiceInv => TypeOK
  <2> SUFFICES ASSUME ServiceInv PROVE TypeOK
    OBVIOUS
  <2>1. ASSUME NEW w \in Workers
        PROVE  LET t == worker[w] IN
               \/ t = Idle
               \/ t.pc \in {"conflict", "reserve"} /\ t.req \in Requests
               \/ /\ t.pc \in {"transition", "start", "call", "finish",
                                "record", "reference", "acquire", "begin",
                                "settle"}
                  /\ t.env \in Environments
                  /\ t.id \in Store!DeploymentIds \cup Store!OperationIds
    <3>1. PICK t : t = worker[w] /\ t \in Tasks /\ RecordOK(t)
      BY DEF ServiceInv
    <3>2. t.pc \in {"idle", "conflict", "reserve"} \/ Names(t) \/ Operates(t)
      BY <3>1, TaskFields DEF Names, Drives, Operates, RecordKind
    <3>3. QED
      BY <3>1, <3>2, TaskFields DEF RecordOK
  <2>2. inflight \subseteq [kind: {"deployment", "rollback_operation"}, id: Nat,
                            env: Environments, act: Mutating]
    BY DEF ServiceInv, CallOK, RecordKind
  <2>3. \A p \in Processes :
            proc[p].phase \in {"down", "deployments", "operations", "up"}
    BY DEF ServiceInv, ProcStates
  <2>4. QED
    BY <2>1, <2>2, <2>3 DEF TypeOK, ServiceInv
<1>2. QED
  BY <1>1, ServiceCorrect, PTL

(* Whatever requests race in whatever processes, a version of an           *)
(* environment names the same bytes and a key names one deployment.        *)
THEOREM ServiceIdentity == Spec => []IdentityStable
<1>1. StoreInv => IdentityStable
  BY DEF StoreInv, IdentityStable
<1>2. QED
  BY <1>1, StoreOfService, PTL

(* However late references are recorded, and by whichever process, they    *)
(* follow the order of their deployments.                                  *)
THEOREM ServiceReferencesInOrder == Spec => []ReferencesInOrder
<1>1. P!ReferencesInOrder => ReferencesInOrder
  BY SameSets
  DEF ReferencesInOrder, Store!ReferencesInOrder, P!ReferencesInOrder
<1>2. QED
  BY <1>1, StoreUsed, SameSpec, P!ReferencesInOrderCorrect, PTL DEF UsesStore
-----------------------------------------------------------------------------
(* Leases.  The leases of a process are the environments of the requests   *)
(* it serves under one, and no two of them are for the same environment.   *)
Holds(w, p, e) == Home[w] = p /\ HoldsLease(worker[w]) /\ worker[w].env = e

LeasesExact ==
    /\ \A p \in Processes, e \in Environments :
           e \in leases[p] <=> \E w \in Workers : Holds(w, p, e)
    /\ \A x, y \in Workers, p \in Processes, e \in Environments :
           Holds(x, p, e) /\ Holds(y, p, e) => x = y

(* If leases are exactly what the requests hold, none is held twice.       *)
LEMMA LeasesExactSuffices == LeasesExact => LeaseHeldOnce
<1> SUFFICES ASSUME LeasesExact, NEW p \in Processes, NEW e \in Environments
             PROVE  LET holders == {w \in Workers : /\ Home[w] = p
                                                    /\ HoldsLease(worker[w])
                                                    /\ worker[w].env = e}
                    IN  IF e \in leases[p] THEN Cardinality(holders) = 1
                        ELSE holders = {}
  BY DEF LeaseHeldOnce
<1> DEFINE holders == {w \in Workers : /\ Home[w] = p
                                       /\ HoldsLease(worker[w])
                                       /\ worker[w].env = e}
<1>1. CASE e \in leases[p]
  <2>1. PICK w \in Workers : Holds(w, p, e)
    BY <1>1 DEF LeasesExact
  <2>2. holders = {w}
    BY <2>1 DEF LeasesExact, Holds
  <2>3. Cardinality({w}) = 1
    BY FS_Singleton
  <2>4. QED
    BY <1>1, <2>2, <2>3
<1>2. CASE e \notin leases[p]
  BY <1>2 DEF LeasesExact, Holds
<1>3. QED
  BY <1>1, <1>2

(* A lease is taken and given back with the request that holds it.         *)
LEMMA LeasesStep == ServiceInv /\ LeasesExact /\ [Next]_vars => LeasesExact'
<1> SUFFICES ASSUME ServiceInv, LeasesExact, [Next]_vars PROVE LeasesExact'
  OBVIOUS
<1>1. CASE UNCHANGED <<worker, leases>>
  BY <1>1 DEF LeasesExact, Holds
<1>2. ASSUME NEW p \in Processes, Crash(p) PROVE LeasesExact'
  <2>1. /\ worker' = [w \in Workers |-> IF Home[w] = p THEN Idle ELSE worker[w]]
        /\ leases' = [leases EXCEPT ![p] = {}]
    BY <1>2 DEF Crash
  <2>2. ~HoldsLease(Idle)
    BY DEF HoldsLease, Idle
  <2>3. ASSUME NEW w \in Workers, NEW q \in Processes, NEW e \in Environments
        PROVE  Holds(w, q, e)' <=> q # p /\ Holds(w, q, e)
    BY <2>1, <2>2 DEF Holds
  <2>4. \A q \in Processes : leases'[q] = IF q = p THEN {} ELSE leases[q]
    BY <2>1 DEF ServiceInv
  <2>5. QED
    BY <2>3, <2>4 DEF LeasesExact
<1>3. ASSUME NEW w \in Workers, NEW t, Moves(w, t) PROVE LeasesExact'
  <2>1. PICK u : u = worker[w]
    OBVIOUS
  <2>2. /\ t \in Tasks /\ u \in Tasks /\ Home[w] \in Processes
        /\ worker' = [worker EXCEPT ![w] = t]
        /\ Continues(w, t) \/ Acquires(w, t)
    BY <1>3, <2>1, ServiceAssumption
    DEF Moves, Continues, Acquires, GoTo, TryAcquire, ServiceInv
  <2>3. ASSUME NEW x \in Workers, NEW p \in Processes, NEW e \in Environments
        PROVE  Holds(x, p, e)' <=>
                   IF x = w THEN Home[w] = p /\ HoldsLease(t) /\ t.env = e
                   ELSE Holds(x, p, e)
    BY <2>2 DEF Holds, ServiceInv
  <2>4. ASSUME NEW p \in Processes, NEW e \in Environments
        PROVE  Holds(w, p, e) <=> Home[w] = p /\ HoldsLease(u) /\ u.env = e
    BY <2>1 DEF Holds
  <2>5. (HoldsLease(t) => t.env \in Environments)
        /\ (HoldsLease(u) => u.env \in Environments)
    BY <2>2, TaskFields DEF HoldsLease
  <2>6. CASE Acquires(w, t)
    <3>1. /\ ~HoldsLease(u) /\ HoldsLease(t) /\ t.env \notin leases[Home[w]]
          /\ leases' = [leases EXCEPT ![Home[w]] = @ \cup {t.env}]
      BY <2>1, <2>6 DEF Acquires, TryAcquire
    <3>2. \A p \in Processes :
              leases'[p] = IF p = Home[w] THEN leases[p] \cup {t.env} ELSE leases[p]
      BY <2>2, <3>1 DEF ServiceInv
    <3>3. QED
      BY <2>2, <2>3, <2>4, <2>5, <3>1, <3>2 DEF LeasesExact
  <2>7. CASE Continues(w, t) /\ HoldsLease(t)
    <3>1. HoldsLease(u) /\ t.env = u.env /\ leases' = leases
      BY <2>1, <2>7 DEF Continues, GoTo
    <3>2. QED
      BY <2>2, <2>3, <2>4, <2>5, <2>7, <3>1 DEF LeasesExact
  <2>8. CASE Continues(w, t) /\ ~HoldsLease(t)
    <3>1. CASE HoldsLease(u)
      <4>1. leases' = [leases EXCEPT ![Home[w]] = @ \ {u.env}]
        BY <2>1, <2>8, <3>1 DEF Continues, GoTo
      <4>2. \A p \in Processes :
                leases'[p] = IF p = Home[w] THEN leases[p] \ {u.env} ELSE leases[p]
        BY <2>2, <4>1 DEF ServiceInv
      <4>3. Holds(w, Home[w], u.env) /\ u.env \in Environments
        BY <2>1, <2>5, <3>1 DEF Holds
      <4>4. ASSUME NEW p \in Processes, NEW e \in Environments
            PROVE  e \in leases'[p] <=> \E x \in Workers : Holds(x, p, e)'
        <5>1. CASE p = Home[w] /\ e = u.env
          <6>1. Holds(w, p, e) /\ e \notin leases'[p]
            BY <4>2, <4>3, <5>1
          <6>2. ASSUME NEW x \in Workers, Holds(x, p, e)' PROVE FALSE
            <7>1. x # w /\ Holds(x, p, e)
              BY <2>3, <2>8, <6>2
            <7>2. QED
              BY <6>1, <7>1 DEF LeasesExact
          <6>3. QED
            BY <6>1, <6>2
        <5>2. CASE ~(p = Home[w] /\ e = u.env)
          <6>1. \A x \in Workers : Holds(x, p, e)' <=> Holds(x, p, e)
            BY <2>3, <2>4, <2>8, <5>2
          <6>2. e \in leases'[p] <=> e \in leases[p]
            BY <4>2, <5>2
          <6>3. QED
            BY <6>1, <6>2 DEF LeasesExact
        <5>3. QED
          BY <5>1, <5>2
      <4>5. \A x, y \in Workers, p \in Processes, e \in Environments :
                Holds(x, p, e)' /\ Holds(y, p, e)' => x = y
        BY <2>3, <2>8 DEF LeasesExact
      <4>6. QED
        BY <4>4, <4>5 DEF LeasesExact
    <3>2. CASE ~HoldsLease(u)
      <4>1. leases' = leases
        BY <2>1, <2>8, <3>2 DEF Continues, GoTo
      <4>2. QED
        BY <2>2, <2>3, <2>4, <2>8, <3>2, <4>1 DEF LeasesExact
    <3>3. QED
      BY <3>1, <3>2
  <2>9. QED
    BY <2>2, <2>6, <2>7, <2>8
<1>4. QED
  BY <1>1, <1>2, <1>3, StepOfOne

(* The leases are exactly what the requests hold, in every state.          *)
LEMMA LeasesCorrect == Spec => []LeasesExact
<1>1. Init => LeasesExact
  BY DEF Init, LeasesExact, Holds, HoldsLease, Idle
<1>2. QED
  BY <1>1, LeasesStep, ServiceCorrect, PTL DEF Spec

(* A lease is held by exactly one request of its process and is returned   *)
(* on every path out of the services, a crash of the process included.     *)
THEOREM LeaseCorrect == Spec => []LeaseHeldOnce
BY LeasesCorrect, LeasesExactSuffices, PTL
-----------------------------------------------------------------------------
(* What recovery discarded.  A task that may change the target knows of a  *)
(* deployment that has come past the first side effect and was not         *)
(* discarded before: it got there by a compare-and-swap, which fails once  *)
(* recovery has closed the record.  One that gives its deployment up as    *)
(* failed, although the artifact may be replaced, has nothing to run.      *)

MayMutate(t) ==
    \/ /\ t.pc \in {"start", "call"} /\ t.kind = "deployment"
       /\ StateDuring[t.act] \in HasLiveMutationStarted
    \/ t.pc = "finish" /\ StateDuring[t.act] \in HasLiveMutationStarted
    \/ t.pc = "transition" /\ t.mem \in HasLiveMutationStarted

GivesUp(t) ==
    /\ t.pc = "transition" /\ t.goal = "failed"
    /\ t.mem \in HasLiveArtifactReplacementStarted

Informed(p, t) ==
    /\ MayMutate(t) => P!Past(t.id)
    /\ GivesUp(t) => t.env \notin RollbackConfigured[p]

InformedInv ==
    /\ P!OperationsQuarantined
    /\ \A w \in Workers : Informed(Home[w], worker[w])
    /\ \A c \in inflight : c.kind = "deployment" => P!Past(c.id)

(* No request is running at first.                                         *)
LEMMA InformedInit == Init => InformedInv
<1> SUFFICES ASSUME Init PROVE InformedInv
  OBVIOUS
<1>1. P!OperationsQuarantined
  BY DEF Init, Store!Init, P!OperationsQuarantined
<1>2. \A p : Informed(p, Idle)
  BY DEF Informed, MayMutate, GivesUp, Idle
<1>3. QED
  BY <1>1, <1>2 DEF Init, InformedInv

(* A transition past the first side effect. *)
LEMMA PastAdvance ==
    ASSUME ServiceInv, StoreInv, NEW d, NEW from, NEW to,
           Store!Transition(d, from, to), to \in HasLiveMutationStarted
    PROVE  P!Past(d)'
<1>1. /\ d \in Store!DeploymentIds /\ deployments[d].state = from
      /\ <<from, to>> \in CanTransition
      /\ deployments' = [deployments EXCEPT ![d].state = to]
      /\ incidents' = incidents
  BY DEF Store!Transition, Store!StateIs, Store!CanTransition, CanTransition
<1>2. from # "failed" /\ to \notin P!Preparing /\ to \in DeploymentState
  BY <1>1 DEF CanTransition, P!Preparing, HasLiveMutationStarted, DeploymentState
<1>3. \A i \in incidents : ~(i.kind = "deployment" /\ i.subject = d)
  BY <1>1, <1>2 DEF StoreInv, Store!IncidentSubjectFailed
<1>4. P!TypeOK /\ d \in P!DeploymentIds /\ to \in P!DeploymentState
  BY <1>1, <1>2, SameInvariants, SameSets
  DEF ServiceInv, P!DeploymentState, DeploymentState
<1>5. /\ P!DeploymentIds' = P!DeploymentIds
      /\ \A c \in P!DeploymentIds :
             deployments'[c].state = IF c = d THEN to ELSE deployments[c].state
  BY <1>1, <1>2, <1>4, SameSets, P!UpdateEffect
<1>6. deployments'[d].state = to
  BY <1>4, <1>5
<1>7. QED
  BY <1>1, <1>2, <1>3, <1>4, <1>5, <1>6 DEF P!Past

(* A request that goes on to mutate has its record past the state that     *)
(* recovery discards.                                                      *)
LEMMA InformedStep ==
    ServiceInv /\ StoreInv /\ InformedInv /\ [Next]_vars => InformedInv'
<1> SUFFICES ASSUME ServiceInv, StoreInv, InformedInv, [Next]_vars
             PROVE  InformedInv'
  OBVIOUS
<1>1. /\ \A d : P!Past(d) => P!Past(d)'
      /\ P!OperationsQuarantined'
  <2>1. P!TypeOK /\ [P!Next]_(P!storeVars)
    BY StoreStep, SameNext, SameInvariants DEF ServiceInv
  <2>2. QED
    BY <2>1, P!PastStep DEF InformedInv
<1>2. ASSUME NEW w \in Workers PROVE Informed(Home[w], worker[w])'
  <2>1. PICK u, t : u = worker[w] /\ t = worker'[w]
    OBVIOUS
  <2>2. /\ Goes(w, u, t) /\ Informed(Home[w], u) /\ u \in Tasks
    BY <2>1, WorkerGoes DEF InformedInv, ServiceInv
  <2>3. /\ MayMutate(t) => P!Past(t.id)'
        /\ GivesUp(t) => t.env \notin RollbackConfigured[Home[w]]
    <3>1. CASE t = u
      BY <1>1, <2>2, <3>1 DEF Informed
    <3>2. CASE Quiet(t)
      BY <3>2 DEF Quiet, MayMutate, GivesUp
    <3>3. CASE Reserved(w, u, t) \/ Began(w, u, t) \/ RollbackAnswered(w, u, t)
      BY <3>3 DEF Reserved, Began, RollbackAnswered, MayMutate, GivesUp,
         HasLiveMutationStarted, HasLiveArtifactReplacementStarted
    <3>4. CASE Advanced(w, u, t)
      <4>1. Store!Transition(u.id, u.mem, u.goal)
        BY <2>1, <3>4 DEF Advanced, Advance
      <4>2. MayMutate(t) => u.goal \in HasLiveMutationStarted
        BY <3>4 DEF Advanced, MayMutate
      <4>3. t.id = u.id /\ ~GivesUp(t)
        BY <3>4 DEF Advanced, Same, GivesUp
      <4>4. QED
        BY <4>1, <4>2, <4>3, PastAdvance
    <3>5. CASE Called(w, u, t) \/ Answered(w, u, t) \/ AttemptRepeated(w, u, t)
      <4>1. (MayMutate(t) => MayMutate(u)) /\ t.id = u.id /\ ~GivesUp(t)
        BY <3>5 DEF Called, Answered, AttemptRepeated, Same, MayMutate, GivesUp
      <4>2. QED
        BY <1>1, <2>2, <4>1 DEF Informed
    <3>6. CASE AttemptDecided(w, u, t)
      <4>1. (MayMutate(t) => MayMutate(u)) /\ t.id = u.id
        BY <3>6 DEF AttemptDecided, Same, MayMutate
      <4>2. GivesUp(t) => t.env \notin RollbackConfigured[Home[w]]
        BY <3>6 DEF AttemptDecided, GivesUp
      <4>3. QED
        BY <1>1, <2>2, <4>1, <4>2 DEF Informed
    <3>7. QED
      BY <2>2, <3>1, <3>2, <3>3, <3>4, <3>5, <3>6 DEF Goes
  <2>4. QED
    BY <2>1, <2>3 DEF Informed, MayMutate, GivesUp
<1>3. ASSUME NEW c \in inflight', c.kind = "deployment" PROVE P!Past(c.id)'
  <2>1. CASE c \in inflight
    BY <1>1, <1>3, <2>1 DEF InformedInv
  <2>2. ASSUME NEW w \in Workers, StartCall(w), worker[w].act \in Mutating,
               c = CallOf(worker[w])
        PROVE  P!Past(c.id)'
    <3>1. c.kind = worker[w].kind /\ c.id = worker[w].id
      BY <2>2 DEF CallOf
    <3>2. StateDuring[worker[w].act] \in HasLiveMutationStarted
      BY <2>2 DEF Mutating, StateDuring, HasLiveMutationStarted
    <3>3. MayMutate(worker[w])
      BY <1>3, <2>2, <3>1, <3>2 DEF MayMutate, StartCall
    <3>4. P!Past(c.id)
      BY <3>1, <3>3 DEF InformedInv, Informed
    <3>5. QED
      BY <1>1, <3>4
  <2>3. QED
    BY <2>1, <2>2, CallsStep
<1>4. QED
  BY <1>1, <1>2, <1>3 DEF InformedInv

(* InformedInv holds in every state.                                       *)
LEMMA InformedCorrect == Spec => []InformedInv
BY InformedInit, InformedStep, ServiceCorrect, StoreOfService, PTL DEF Spec

(* A deployment that recovery closed without quarantine never changes its  *)
(* target, even if the process that ran it is still alive and goes on.     *)
THEOREM DiscardedCorrect == Spec => []DiscardedNeverMutates
<1>1. ServiceInv /\ InformedInv => DiscardedNeverMutates
  <2> SUFFICES ASSUME ServiceInv, InformedInv, NEW c \in inflight,
                      NEW i \in incidents, i.status = "auto_resolved",
                      i.kind = c.kind, i.subject = c.id
               PROVE  FALSE
    BY DEF DiscardedNeverMutates
  <2>1. CASE c.kind = "deployment"
    BY <2>1 DEF InformedInv, P!Past
  <2>2. CASE c.kind = "rollback_operation"
    BY <2>2 DEF InformedInv, P!OperationsQuarantined
  <2>3. QED
    BY <2>1, <2>2 DEF ServiceInv, CallOK, RecordKind
<1>2. QED
  BY <1>1, ServiceCorrect, InformedCorrect, PTL

(* The state of a deployment changes by a transition of a worker that      *)
(* remembers the state it is in, or by recovery.                           *)
LEMMA DeploymentFate ==
    ASSUME ServiceInv, [Next]_vars, NEW d \in Store!DeploymentIds
    PROVE  \/ deployments'[d].state = deployments[d].state
           \/ \E w \in Workers : /\ Advance(w) /\ worker[w].id = d
                                 /\ worker[w].mem = deployments[d].state
                                 /\ worker[w].goal = deployments'[d].state
           \/ \E p \in Processes :
                  /\ RecoverDeployment(p)
                  /\ Store!RecoverDeployment(d, deployments[d].state)
                  /\ deployments'[d].state = "failed"
<1>1. P!TypeOK /\ d \in P!DeploymentIds
  BY SameInvariants, SameSets DEF ServiceInv
<1>2. CASE UNCHANGED deployments
  BY <1>2
<1>3. ASSUME NEW w \in Workers, Reserve(w)
      PROVE  deployments'[d].state = deployments[d].state
  <2>1. Store!Reserve(worker[w].req) /\ worker[w].req \in Requests
    BY <1>3 DEF Reserve, ServiceInv, Tasks, Idle
  <2>2. QED
    BY <1>1, <2>1, ServiceAssumption, SameSets, SameActions, P!ReserveEffect
<1>4. ASSUME NEW e \in Store!DeploymentIds, NEW s \in DeploymentState,
             deployments' = [deployments EXCEPT ![e].state = s]
      PROVE  deployments'[d].state = IF d = e THEN s ELSE deployments[d].state
  <2>1. e \in P!DeploymentIds /\ s \in P!DeploymentState
    BY <1>4, SameSets DEF P!DeploymentState, DeploymentState
  <2>2. \A c \in P!DeploymentIds :
            deployments'[c].state = IF c = e THEN s ELSE deployments[c].state
    BY <1>1, <1>4, <2>1, P!UpdateEffect
  <2>3. QED
    BY <1>1, <2>2
<1>5. ASSUME NEW w \in Workers, Advance(w)
      PROVE  \/ deployments'[d].state = deployments[d].state
             \/ /\ worker[w].id = d /\ worker[w].goal = deployments'[d].state
                /\ worker[w].mem = deployments[d].state
  <2>1. /\ worker[w].id \in Store!DeploymentIds
        /\ deployments[worker[w].id].state = worker[w].mem
        /\ worker[w].goal \in DeploymentState
        /\ deployments' = [deployments EXCEPT ![worker[w].id].state = worker[w].goal]
    BY <1>5 DEF Advance, Store!Transition, Store!StateIs, Store!CanTransition,
                DeploymentState
  <2>2. QED
    BY <1>4, <2>1
<1>6. ASSUME NEW p \in Processes, RecoverDeployment(p)
      PROVE  \/ deployments'[d].state = deployments[d].state
             \/ /\ Store!RecoverDeployment(d, deployments[d].state)
                /\ deployments'[d].state = "failed"
  <2>1. PICK e, from : \/ Store!RecoverDeployment(e, from)
                       \/ UNCHANGED storeVars
    BY <1>6 DEF RecoverDeployment
  <2>2. CASE UNCHANGED storeVars
    BY <2>2 DEF storeVars
  <2>3. CASE Store!RecoverDeployment(e, from)
    <3>1. /\ e \in Store!DeploymentIds /\ deployments[e].state = from
          /\ deployments' = [deployments EXCEPT ![e].state = "failed"]
      BY <2>3 DEF Store!RecoverDeployment, Store!StateIs
    <3>2. "failed" \in DeploymentState
      BY DEF DeploymentState
    <3>3. deployments'[d].state = IF d = e THEN "failed" ELSE deployments[d].state
      BY <1>4, <3>1, <3>2
    <3>4. QED
      BY <2>3, <3>1, <3>3
  <2>4. QED
    BY <2>1, <2>2, <2>3
<1>7. QED
  BY <1>2, <1>3, <1>5, <1>6
  DEF Next, Progress, Recover, vars, storeVars, Submit, CheckConflict, Reuse,
      Record, StartCall, Reply, LoseReply, TimeOut, FinishAttempt,
      RequestRollback, FindReference, AcquireForRollback, Begin, Settle,
      GiveUp, RemoteEnds, Acknowledge, Start, ReadOperations,
      RecoverOperation, Serve, Crash, Store!RecordReference,
      Store!BeginOperation, Store!FinishOperation, Store!StartStep,
      Store!FinishStep, Store!RecoverOperation, Store!Prune,
      Store!Acknowledge

(* Recovery of a deployment leaves an incident that was not there.         *)
LEMMA RecoveryLeavesIncident ==
    ASSUME NEW d, NEW from, Store!RecoverDeployment(d, from)
    PROVE  \E i : /\ incidents' = incidents \cup {i} /\ i \notin incidents
                  /\ i.kind = "deployment" /\ i.subject = d
                  /\ i.status = Store!Disposition(from)
<1>1. PICK i : i = [kind |-> "deployment", subject |-> d,
                    env |-> deployments[d].env,
                    status |-> Store!Disposition(from)]
  OBVIOUS
<1>2. /\ i.kind = "deployment" /\ i.subject = d
      /\ i.status = Store!Disposition(from)
  BY <1>1
<1>3. incidents' = incidents \cup {i} /\ i \notin incidents
  BY <1>1, <1>2 DEF Store!RecoverDeployment, Store!InsertIncident
<1>4. QED
  BY <1>2, <1>3

(* A deployment that a request closes as failed after the live artifact    *)
(* may have been replaced had no rollback task to run.                     *)
THEOREM RollbackTried == Spec => RollbackIsTried
<1> DEFINE Tried ==
               \A d \in DOMAIN deployments :
                   /\ deployments[d].state \in HasLiveArtifactReplacementStarted
                   /\ deployments'[d].state = "failed"
                   /\ deployments[d].state # "failed"
                   /\ incidents' = incidents
                   => \E w \in Workers :
                          /\ worker[w].pc = "transition" /\ worker[w].id = d
                          /\ deployments[d].env
                                 \notin RollbackConfigured[Home[w]]
<1>1. ServiceInv /\ StoreInv /\ InformedInv /\ [Next]_vars => [Tried]_vars
  <2> SUFFICES ASSUME ServiceInv, StoreInv, InformedInv, [Next]_vars,
                      NEW d \in DOMAIN deployments,
                      deployments[d].state \in HasLiveArtifactReplacementStarted,
                      deployments'[d].state = "failed",
                      deployments[d].state # "failed",
                      incidents' = incidents
               PROVE  \E w \in Workers :
                          /\ worker[w].pc = "transition" /\ worker[w].id = d
                          /\ deployments[d].env
                                 \notin RollbackConfigured[Home[w]]
    OBVIOUS
  <2>1. PICK w \in Workers : /\ Advance(w) /\ worker[w].id = d
                             /\ worker[w].mem = deployments[d].state
                             /\ worker[w].goal = "failed"
    <3>1. d \in Store!DeploymentIds
      BY SameInvariants DEF ServiceInv, P!TypeOK, Store!DeploymentIds
    <3>2. QED
      BY <3>1, DeploymentFate, RecoveryLeavesIncident
  <2>2. GivesUp(worker[w]) /\ Names(worker[w])
    BY <2>1 DEF Advance, GivesUp, Names, Drives
  <2>3. deployments[d].env = worker[w].env
    BY <2>1, <2>2 DEF ServiceInv, RecordOK
  <2>4. deployments[d].env \notin RollbackConfigured[Home[w]]
    BY <2>2, <2>3 DEF InformedInv, Informed
  <2>5. QED
    BY <2>1, <2>4 DEF Advance
<1>2. QED
  BY <1>1, ServiceCorrect, StoreOfService, InformedCorrect, PTL
  DEF Spec, RollbackIsTried
=============================================================================
