------------------------ MODULE MutationStoreProofs ------------------------
(***************************************************************************)
(* Proofs about MutationStore for all values of its constants.  First what *)
(* an INSERT and an UPDATE of a row do to a table; then, action by action, *)
(* types, exclusivity, identity and references, recovery incidents, what   *)
(* is final in the store, and that the store implements MutationGuard.     *)
(***************************************************************************)
EXTENDS MutationStore, SequenceTheorems, TLAPS

(* Changing the state of a deployment changes nothing else of the table. *)
LEMMA DeploymentUpdated ==
    ASSUME NEW table \in Seq(DeploymentRow), NEW d \in 1 .. Len(table),
           NEW s \in DeploymentState
    PROVE  LET new == [table EXCEPT ![d].state = s] IN
           /\ new \in Seq(DeploymentRow)
           /\ Len(new) = Len(table)
           /\ \A c \in 1 .. Len(table) :
                  /\ new[c].env = table[c].env
                  /\ new[c].release = table[c].release
                  /\ new[c].key = table[c].key
                  /\ new[c].state = IF c = d THEN s ELSE table[c].state
                  /\ c # d => new[c] = table[c]
<1> DEFINE row == [table[d] EXCEPT !.state = s]
           new == [table EXCEPT ![d] = row]
<1>1. \A c \in 1 .. Len(table) : table[c] \in DeploymentRow
  BY ElementOfSeq
<1>2. row \in DeploymentRow /\ row.state = s /\ row.env = table[d].env
      /\ row.release = table[d].release /\ row.key = table[d].key
  BY <1>1 DEF DeploymentRow
<1> HIDE DEF row
<1>3. /\ new \in Seq(DeploymentRow)
      /\ Len(new) = Len(table)
      /\ \A c \in 1 .. Len(table) : new[c] = IF c = d THEN row ELSE table[c]
  BY <1>2, ExceptSeq
<1>4. QED
  BY <1>2, <1>3 DEF row

(* The same of a rollback operation. *)
LEMMA OperationUpdated ==
    ASSUME NEW table \in Seq(OperationRow), NEW o \in 1 .. Len(table),
           NEW s \in OperationState
    PROVE  LET new == [table EXCEPT ![o].state = s] IN
           /\ new \in Seq(OperationRow)
           /\ Len(new) = Len(table)
           /\ \A c \in 1 .. Len(table) :
                  /\ new[c].env = table[c].env
                  /\ new[c].source = table[c].source
                  /\ new[c].state = IF c = o THEN s ELSE table[c].state
                  /\ c # o => new[c] = table[c]
<1> DEFINE row == [table[o] EXCEPT !.state = s]
           new == [table EXCEPT ![o] = row]
<1>1. \A c \in 1 .. Len(table) : table[c] \in OperationRow
  BY ElementOfSeq
<1>2. row \in OperationRow /\ row.state = s /\ row.env = table[o].env
      /\ row.source = table[o].source
  BY <1>1 DEF OperationRow
<1> HIDE DEF row
<1>3. /\ new \in Seq(OperationRow)
      /\ Len(new) = Len(table)
      /\ \A c \in 1 .. Len(table) : new[c] = IF c = o THEN row ELSE table[c]
  BY <1>2, ExceptSeq
<1>4. QED
  BY <1>2, <1>3 DEF row

(* The rows of well-typed tables. *)
LEMMA Rows ==
    ASSUME TypeOK
    PROVE  /\ Len(deployments) \in Nat /\ Len(operations) \in Nat
           /\ \A d \in DeploymentIds :
                  /\ deployments[d] \in DeploymentRow
                  /\ deployments[d].env \in Environments
                  /\ deployments[d].state \in DeploymentState
                  /\ references[d] \in ReferenceState
           /\ \A o \in OperationIds :
                  /\ operations[o] \in OperationRow
                  /\ operations[o].env \in Environments
                  /\ operations[o].source \in Nat \ {0}
                  /\ operations[o].state \in OperationState
           /\ \A i \in incidents :
                  /\ i.env \in Environments
                  /\ i.status \in {"auto_resolved", "unresolved", "acknowledged"}
           /\ DOMAIN references = DeploymentIds
<1>1. /\ \A d \in DeploymentIds :
             deployments[d] \in DeploymentRow /\ references[d] \in ReferenceState
      /\ \A o \in OperationIds : operations[o] \in OperationRow
  BY ElementOfSeq DEF TypeOK, DeploymentIds, OperationIds
<1>2. /\ Len(deployments) \in Nat /\ Len(operations) \in Nat
      /\ DOMAIN references = DeploymentIds
  BY LenProperties DEF TypeOK, DeploymentIds
<1>3. \A i \in incidents :
          /\ i.env \in Environments
          /\ i.status \in {"auto_resolved", "unresolved", "acknowledged"}
  BY DEF TypeOK, IncidentRow
<1>4. QED
  BY <1>1, <1>2, <1>3 DEF DeploymentRow, OperationRow
-----------------------------------------------------------------------------
(* What each action that writes a table does to it.                        *)

(* A reservation appends a row of the request and changes no other row.    *)
LEMMA ReserveEffect ==
    ASSUME TypeOK, NEW req \in Request, Reserve(req)
    PROVE  LET n == Len(deployments) + 1 IN
           /\ TypeOK'
           /\ n \notin DeploymentIds
           /\ DeploymentIds' = DeploymentIds \cup {n}
           /\ \A d \in DeploymentIds : /\ deployments'[d] = deployments[d]
                                      /\ references'[d] = references[d]
           /\ deployments'[n].env = req.env
           /\ deployments'[n].release = req.release
           /\ deployments'[n].key = req.key
           /\ deployments'[n].state = "created"
           /\ references'[n] = "none"
<1> DEFINE n == Len(deployments) + 1
           row == [env |-> req.env, release |-> req.release, key |-> req.key,
                   state |-> "created"]
<1>1. row \in DeploymentRow
  BY DEF Request, DeploymentRow, DeploymentState
<1>2. /\ deployments \in Seq(DeploymentRow)
      /\ references \in Seq(ReferenceState)
      /\ Len(references) = Len(deployments)
      /\ Len(deployments) \in Nat
  BY Rows DEF TypeOK
<1>3. /\ deployments' = Append(deployments, row)
      /\ references' = Append(references, "none")
      /\ UNCHANGED <<openAttempts, pruned, operations, incidents>>
  BY DEF Reserve
<1> HIDE DEF row
<1>4. /\ deployments' \in Seq(DeploymentRow)
      /\ Len(deployments') = n
      /\ \A d \in 1 .. Len(deployments) : deployments'[d] = deployments[d]
      /\ deployments'[n] = row
  BY <1>1, <1>2, <1>3, AppendProperties
<1>5. /\ references' \in Seq(ReferenceState)
      /\ Len(references') = n
      /\ \A d \in 1 .. Len(deployments) : references'[d] = references[d]
      /\ references'[n] = "none"
  <2>1. "none" \in ReferenceState
    BY DEF ReferenceState
  <2>2. QED
    BY <2>1, <1>2, <1>3, AppendProperties
<1>6. /\ n \notin DeploymentIds
      /\ DeploymentIds' = DeploymentIds \cup {n}
  BY <1>2, <1>4 DEF DeploymentIds
<1>7. TypeOK'
  BY <1>3, <1>4, <1>5, <1>6 DEF TypeOK, IncidentRow
<1>8. /\ row.env = req.env /\ row.release = req.release /\ row.key = req.key
      /\ row.state = "created"
  BY DEF row
<1>9. QED
  BY <1>4, <1>5, <1>6, <1>7, <1>8 DEF DeploymentIds

(* Moving a deployment to state s, by a transition or by recovery.         *)
LEMMA UpdateEffect ==
    ASSUME TypeOK, NEW d \in DeploymentIds, NEW s \in DeploymentState,
           deployments' = [deployments EXCEPT ![d].state = s]
    PROVE  /\ deployments' \in Seq(DeploymentRow)
           /\ Len(deployments') = Len(deployments)
           /\ DeploymentIds' = DeploymentIds
           /\ \A c \in DeploymentIds :
                  /\ deployments'[c].env = deployments[c].env
                  /\ deployments'[c].release = deployments[c].release
                  /\ deployments'[c].key = deployments[c].key
                  /\ deployments'[c].state =
                         IF c = d THEN s ELSE deployments[c].state
                  /\ c # d => deployments'[c] = deployments[c]
<1>1. deployments \in Seq(DeploymentRow) /\ d \in 1 .. Len(deployments)
  BY DEF TypeOK, DeploymentIds
<1>2. /\ deployments' \in Seq(DeploymentRow)
      /\ Len(deployments') = Len(deployments)
      /\ \A c \in 1 .. Len(deployments) :
             /\ deployments'[c].env = deployments[c].env
             /\ deployments'[c].release = deployments[c].release
             /\ deployments'[c].key = deployments[c].key
             /\ deployments'[c].state =
                    IF c = d THEN s ELSE deployments[c].state
             /\ c # d => deployments'[c] = deployments[c]
  BY <1>1, DeploymentUpdated
<1>3. QED
  BY <1>2 DEF DeploymentIds

(* A transition moves one row along an edge of CanTransition.              *)
LEMMA TransitionEffect ==
    ASSUME TypeOK, NEW d \in DeploymentIds, NEW from, NEW to,
           Transition(d, from, to)
    PROVE  /\ to \in DeploymentState
           /\ from \in NonTerminal
           /\ deployments[d].state = from
           /\ TypeOK'
<1>1. <<from, to>> \in CanTransition /\ deployments[d].state = from
  BY DEF Transition, StateIs
<1>2. to \in DeploymentState /\ from \in NonTerminal
  BY <1>1 DEF CanTransition, DeploymentState, NonTerminal, Terminal
<1>3. deployments' \in Seq(DeploymentRow) /\ Len(deployments') = Len(deployments)
      /\ DeploymentIds' = DeploymentIds
  BY <1>2, UpdateEffect DEF Transition
<1>4. TypeOK'
  BY <1>3 DEF TypeOK, Transition, IncidentRow
<1>5. QED
  BY <1>1, <1>2, <1>4

(* Recording a reference makes it active and supersedes those of its       *)
(* environment.                                                            *)
LEMMA RecordEffect ==
    ASSUME TypeOK, NEW d \in DeploymentIds, RecordReference(d)
    PROVE  /\ TypeOK'
           /\ \A r \in DeploymentIds :
                  references'[r] =
                      CASE r = d -> "active"
                        [] r # d /\ references[d] # "active"
                                 /\ references[r] = "active"
                                 /\ deployments[r].env = deployments[d].env
                             -> "superseded"
                        [] OTHER -> references[r]
<1>1. /\ references \in Seq(ReferenceState)
      /\ DOMAIN references = DeploymentIds
      /\ Len(references) = Len(deployments)
      /\ Len(deployments) \in Nat
      /\ \A r \in DeploymentIds : references[r] \in ReferenceState
  BY Rows DEF TypeOK
<1>2. UNCHANGED <<deployments, openAttempts, pruned, operations, incidents>>
  BY DEF RecordReference
<1>3. CASE references[d] = "active"
  <2>1. references' = references
    BY <1>3 DEF RecordReference
  <2>2. QED
    BY <2>1, <1>2, <1>3 DEF TypeOK, DeploymentIds, OperationIds
<1>4. CASE references[d] # "active"
  <2> DEFINE new == [r \in DeploymentIds |->
                       CASE r = d -> "active"
                         [] r # d /\ references[r] = "active"
                                  /\ deployments[r].env = deployments[d].env
                              -> "superseded"
                         [] OTHER -> references[r]]
  <2>1. references' = new
    BY <1>1, <1>4 DEF RecordReference
  <2>2. new \in [DeploymentIds -> ReferenceState]
    BY <1>1 DEF ReferenceState
  <2>3. new \in Seq(ReferenceState)
    BY <1>1, <2>2, SeqDef DEF DeploymentIds
  <2>4. Len(new) = Len(deployments)
    <3>1. Len(new) \in Nat /\ 1 .. Len(new) = 1 .. Len(deployments)
      BY <2>3, LenProperties DEF DeploymentIds
    <3> HIDE DEF new
    <3>2. QED
      BY <3>1, <1>1
  <2>5. TypeOK'
    BY <1>2, <2>1, <2>3, <2>4 DEF TypeOK, DeploymentIds, OperationIds
  <2>6. QED
    BY <1>4, <2>1, <2>5
<1>5. QED
  BY <1>3, <1>4

(* A rollback begun appends a started operation of its source and          *)
(* environment.                                                            *)
LEMMA BeginEffect ==
    ASSUME TypeOK, NEW d \in DeploymentIds, BeginOperation(d)
    PROVE  LET n == Len(operations) + 1 IN
           /\ TypeOK'
           /\ n \notin OperationIds
           /\ OperationIds' = OperationIds \cup {n}
           /\ \A o \in OperationIds : operations'[o] = operations[o]
           /\ operations'[n].source = d
           /\ operations'[n].env = deployments[d].env
           /\ operations'[n].state = "started"
<1> DEFINE n == Len(operations) + 1
           row == [source |-> d, env |-> deployments[d].env, state |-> "started"]
<1>1. /\ operations \in Seq(OperationRow)
      /\ Len(operations) \in Nat
      /\ Len(deployments) \in Nat
      /\ deployments[d].env \in Environments
  BY Rows DEF TypeOK
<1>2. row \in OperationRow
  BY <1>1 DEF OperationRow, OperationState, DeploymentIds
<1>3. /\ operations' = Append(operations, row)
      /\ UNCHANGED <<deployments, openAttempts, references, pruned, incidents>>
  BY DEF BeginOperation
<1>4. row.source = d /\ row.env = deployments[d].env /\ row.state = "started"
  OBVIOUS
<1> HIDE DEF row
<1>5. /\ operations' \in Seq(OperationRow)
      /\ Len(operations') = n
      /\ \A o \in 1 .. Len(operations) : operations'[o] = operations[o]
      /\ operations'[n] = row
  BY <1>1, <1>2, <1>3, AppendProperties
<1>6. n \notin OperationIds /\ OperationIds' = OperationIds \cup {n}
  BY <1>1, <1>5 DEF OperationIds
<1>7. TypeOK'
  BY <1>3, <1>5 DEF TypeOK, DeploymentIds
<1>8. QED
  BY <1>4, <1>5, <1>6, <1>7 DEF OperationIds

(* Closing an operation, by the service or by recovery. *)
LEMMA CloseEffect ==
    ASSUME TypeOK, NEW o \in OperationIds, NEW s \in {"succeeded", "failed"},
           operations' = [operations EXCEPT ![o].state = s]
    PROVE  /\ operations' \in Seq(OperationRow)
           /\ OperationIds' = OperationIds
           /\ \A p \in OperationIds :
                  /\ operations'[p].env = operations[p].env
                  /\ operations'[p].source = operations[p].source
                  /\ operations'[p].state =
                         IF p = o THEN s ELSE operations[p].state
                  /\ p # o => operations'[p] = operations[p]
<1>1. s \in OperationState
  BY DEF OperationState
<1>2. operations \in Seq(OperationRow) /\ o \in 1 .. Len(operations)
  BY DEF TypeOK, OperationIds
<1>3. QED
  BY <1>1, <1>2, OperationUpdated DEF OperationIds

(* A rollback finished with success consumes the reference of its source.  *)
LEMMA FinishEffect ==
    ASSUME TypeOK, NEW o \in OperationIds, NEW s \in {"succeeded", "failed"},
           FinishOperation(o, s)
    PROVE  /\ TypeOK'
           /\ \A d \in DeploymentIds :
                  references'[d] = IF s = "succeeded" /\ d = operations[o].source
                                   THEN "consumed" ELSE references[d]
<1>1. /\ references \in Seq(ReferenceState)
      /\ DOMAIN references = DeploymentIds
      /\ Len(references) = Len(deployments)
  BY Rows DEF TypeOK
<1>2. /\ operations' \in Seq(OperationRow)
      /\ UNCHANGED <<deployments, openAttempts, pruned, incidents>>
  BY CloseEffect DEF FinishOperation
<1>3. CASE s = "failed"
  <2>1. references' = references
    BY <1>3 DEF FinishOperation
  <2>2. QED
    BY <1>2, <1>3, <2>1 DEF TypeOK, DeploymentIds
<1>4. CASE s = "succeeded"
  <2> DEFINE d == operations[o].source
  <2>1. references' = [references EXCEPT ![d] = "consumed"]
    BY <1>4 DEF FinishOperation
  <2>2. CASE d \in DeploymentIds
    <3>1. /\ references' \in Seq(ReferenceState)
          /\ Len(references') = Len(deployments)
          /\ \A r \in DeploymentIds :
                 references'[r] = IF r = d THEN "consumed" ELSE references[r]
      <4>1. "consumed" \in ReferenceState
        BY DEF ReferenceState
      <4>2. QED
        BY <1>1, <2>1, <2>2, <4>1, ExceptSeq DEF DeploymentIds
    <3>2. QED
      BY <1>2, <1>4, <3>1 DEF TypeOK, DeploymentIds
  <2>3. CASE d \notin DeploymentIds
    <3>1. references' = references
      BY <1>1, <2>1, <2>3
    <3>2. QED
      BY <1>2, <1>4, <2>3, <3>1 DEF TypeOK, DeploymentIds
  <2>4. QED
    BY <2>2, <2>3
<1>5. QED
  BY <1>3, <1>4

(* Recovery of a deployment fails its row and adds an incident of it.      *)
LEMMA RecoverDeploymentEffect ==
    ASSUME TypeOK, NEW d \in DeploymentIds, NEW from, RecoverDeployment(d, from)
    PROVE  LET i == [kind |-> "deployment", subject |-> d,
                     env |-> deployments[d].env, status |-> Disposition(from)]
           IN
           /\ TypeOK'
           /\ from \in NonTerminal /\ deployments[d].state = from
           /\ i \in IncidentRow
           /\ incidents' = incidents \cup {i}
<1> DEFINE i == [kind |-> "deployment", subject |-> d,
                 env |-> deployments[d].env, status |-> Disposition(from)]
<1>1. i \in IncidentRow
  BY Rows DEF IncidentRow, Disposition, DeploymentIds
<1>2. incidents' = incidents \cup {i}
  BY DEF RecoverDeployment, InsertIncident
<1>3. /\ deployments' \in Seq(DeploymentRow)
      /\ Len(deployments') = Len(deployments)
      /\ DeploymentIds' = DeploymentIds
  BY UpdateEffect DEF RecoverDeployment, DeploymentState
<1>4. TypeOK'
  BY <1>1, <1>2, <1>3 DEF TypeOK, RecoverDeployment
<1>5. QED
  BY <1>1, <1>2, <1>4 DEF RecoverDeployment, StateIs

(* Recovery of a rollback fails its row and adds an unresolved incident of *)
(* it.                                                                     *)
LEMMA RecoverOperationEffect ==
    ASSUME TypeOK, NEW o \in OperationIds, RecoverOperation(o)
    PROVE  LET i == [kind |-> "rollback_operation", subject |-> o,
                     env |-> operations[o].env, status |-> "unresolved"]
           IN
           /\ TypeOK'
           /\ i \in IncidentRow
           /\ incidents' = incidents \cup {i}
<1> DEFINE i == [kind |-> "rollback_operation", subject |-> o,
                 env |-> operations[o].env, status |-> "unresolved"]
<1>1. i \in IncidentRow
  BY Rows DEF IncidentRow, OperationIds
<1>2. incidents' = incidents \cup {i}
  BY DEF RecoverOperation, InsertIncident
<1>3. operations' \in Seq(OperationRow)
  BY CloseEffect DEF RecoverOperation
<1>4. TypeOK'
  BY <1>1, <1>2, <1>3 DEF TypeOK, RecoverOperation, DeploymentIds
<1>5. QED
  BY <1>1, <1>2, <1>4

(* Acknowledging an incident replaces it by an acknowledged one of the     *)
(* same subject.                                                           *)
LEMMA AcknowledgeEffect ==
    ASSUME TypeOK, NEW i \in incidents, Acknowledge(i)
    PROVE  LET j == [i EXCEPT !.status = "acknowledged"] IN
           /\ TypeOK'
           /\ j \in IncidentRow
           /\ j.kind = i.kind /\ j.subject = i.subject /\ j.env = i.env
           /\ j.status = "acknowledged"
           /\ incidents' = (incidents \ {i}) \cup {j}
<1> DEFINE j == [i EXCEPT !.status = "acknowledged"]
<1>1. /\ j \in IncidentRow
      /\ j.kind = i.kind /\ j.subject = i.subject /\ j.env = i.env
      /\ j.status = "acknowledged"
  BY DEF TypeOK, IncidentRow
<1>2. incidents' = (incidents \ {i}) \cup {j}
  BY DEF Acknowledge
<1>3. TypeOK'
  BY <1>1, <1>2 DEF TypeOK, Acknowledge, DeploymentIds
<1>4. QED
  BY <1>1, <1>2, <1>3
-----------------------------------------------------------------------------
(* Every table always holds well-formed rows.  This is what every later    *)
(* proof starts from.                                                      *)
LEMMA TypeInit == Init => TypeOK
BY EmptySeq DEF Init, TypeOK, DeploymentIds

(* Every step of the store keeps TypeOK.                                   *)
LEMMA TypeStep == TypeOK /\ [Next]_storeVars => TypeOK'
<1> SUFFICES ASSUME TypeOK, [Next]_storeVars PROVE TypeOK'
  OBVIOUS
<1>1. ASSUME NEW req \in Request, Reserve(req) PROVE TypeOK'
  BY <1>1, ReserveEffect
<1>2. ASSUME NEW d \in DeploymentIds, NEW from \in DeploymentState,
             NEW to \in DeploymentState, Transition(d, from, to)
      PROVE  TypeOK'
  BY <1>2, TransitionEffect
<1>3. ASSUME NEW d \in DeploymentIds, StartStep(d) \/ FinishStep(d)
      PROVE  TypeOK'
  BY <1>3 DEF StartStep, FinishStep, TypeOK, DeploymentIds
<1>4. ASSUME NEW d \in DeploymentIds, RecordReference(d) PROVE TypeOK'
  BY <1>4, RecordEffect
<1>5. ASSUME NEW d \in DeploymentIds, BeginOperation(d) PROVE TypeOK'
  BY <1>5, BeginEffect
<1>6. ASSUME NEW o \in OperationIds, NEW s \in {"succeeded", "failed"},
             FinishOperation(o, s)
      PROVE  TypeOK'
  BY <1>6, FinishEffect
<1>7. ASSUME NEW batch \in SUBSET Prunable, Prune(batch) PROVE TypeOK'
  BY <1>7 DEF Prune, Prunable, TypeOK, DeploymentIds
<1>8. ASSUME NEW d \in DeploymentIds, NEW from \in DeploymentState,
             RecoverDeployment(d, from)
      PROVE  TypeOK'
  BY <1>8, RecoverDeploymentEffect
<1>9. ASSUME NEW o \in OperationIds, RecoverOperation(o) PROVE TypeOK'
  BY <1>9, RecoverOperationEffect
<1>10. ASSUME NEW i \in incidents, Acknowledge(i) PROVE TypeOK'
  BY <1>10, AcknowledgeEffect
<1>11. CASE UNCHANGED storeVars
  BY <1>11 DEF storeVars, TypeOK, DeploymentIds
<1>12. QED
  BY <1>1, <1>2, <1>3, <1>4, <1>5, <1>6, <1>7, <1>8, <1>9, <1>10, <1>11
  DEF Next

(* The tables always hold rows of the schema.                              *)
THEOREM TypeCorrect == Spec => []TypeOK
<1>1. QED
  BY TypeInit, TypeStep, PTL DEF Spec
-----------------------------------------------------------------------------
(* An environment has at most one holder.                                  *)

(* An empty store holds no environment.                                    *)
LEMMA GuardInit == Init => GuardExclusive
BY DEF Init, GuardExclusive, OneActiveDeployment, OneStartedRollback,
       OneQuarantine, HoldersExclude, DeploymentActive, RollbackStarted,
       Quarantined, DeploymentIds, OperationIds

(* GuardExclusive mentions nothing but these three tables. *)
LEMMA GuardUnchanged ==
    ASSUME GuardExclusive, UNCHANGED <<deployments, operations, incidents>>
    PROVE  GuardExclusive'
BY DEF GuardExclusive, OneActiveDeployment, OneStartedRollback, OneQuarantine,
       HoldersExclude, DeploymentActive, RollbackStarted, Quarantined,
       DeploymentIds, OperationIds

(* A reservation is made only in an environment nothing holds.             *)
LEMMA GuardReserve ==
    ASSUME TypeOK, GuardExclusive, NEW req \in Request, Reserve(req)
    PROVE  GuardExclusive'
<1> DEFINE n == Len(deployments) + 1
<1>1. UNCHANGED <<operations, incidents>> /\ MayInsertDeployment(req.env)
  BY DEF Reserve, MayReserve
<1>2. /\ DeploymentIds' = DeploymentIds \cup {n}
      /\ \A d \in DeploymentIds : deployments'[d] = deployments[d]
      /\ deployments'[n].env = req.env
  BY ReserveEffect
<1> HIDE DEF n
<1>3. \A e : DeploymentActive(e)' => DeploymentActive(e) \/ e = req.env
  BY <1>2 DEF DeploymentActive
<1>4. OneActiveDeployment'
  BY <1>1, <1>2 DEF GuardExclusive, OneActiveDeployment, MayInsertDeployment,
                    DeploymentActive
<1>5. HoldersExclude'
  BY <1>1, <1>3 DEF GuardExclusive, HoldersExclude, MayInsertDeployment,
                    RollbackStarted, Quarantined, OperationIds
<1>6. QED
  BY <1>1, <1>4, <1>5 DEF GuardExclusive, OneStartedRollback, OneQuarantine,
                          OperationIds

(* A transition leaves a deployment active or lets its environment go.     *)
LEMMA GuardTransition ==
    ASSUME TypeOK, GuardExclusive, NEW d \in DeploymentIds, NEW from, NEW to,
           Transition(d, from, to)
    PROVE  GuardExclusive'
<1>1. UNCHANGED <<operations, incidents>>
  BY DEF Transition
<1>2. deployments[d].state \in NonTerminal /\ to \in DeploymentState
  BY TransitionEffect
<1>3. /\ DeploymentIds' = DeploymentIds
      /\ \A c \in DeploymentIds :
             /\ deployments'[c].env = deployments[c].env
             /\ c # d => deployments'[c].state = deployments[c].state
  BY <1>2, UpdateEffect DEF Transition
<1>4. \A c \in DeploymentIds :
          deployments'[c].state \in NonTerminal
              => deployments[c].state \in NonTerminal
  BY <1>2, <1>3
<1>5. \A e : DeploymentActive(e)' => DeploymentActive(e)
  BY <1>3, <1>4 DEF DeploymentActive
<1>6. OneActiveDeployment'
  BY <1>3, <1>4 DEF GuardExclusive, OneActiveDeployment
<1>7. HoldersExclude'
  BY <1>1, <1>5 DEF GuardExclusive, HoldersExclude, RollbackStarted,
                    Quarantined, OperationIds
<1>8. QED
  BY <1>1, <1>6, <1>7 DEF GuardExclusive, OneStartedRollback, OneQuarantine,
                          OperationIds

(* A rollback begins only in an environment nothing holds.                 *)
LEMMA GuardBegin ==
    ASSUME TypeOK, GuardExclusive, NEW d \in DeploymentIds, BeginOperation(d)
    PROVE  GuardExclusive'
<1> DEFINE n == Len(operations) + 1
           e0 == deployments[d].env
<1>1. UNCHANGED <<deployments, incidents>> /\ MayInsertOperation(e0)
  BY DEF BeginOperation
<1>2. /\ OperationIds' = OperationIds \cup {n}
      /\ \A o \in OperationIds : operations'[o] = operations[o]
      /\ operations'[n].env = e0
  BY BeginEffect
<1> HIDE DEF n, e0
<1>3. \A e : RollbackStarted(e)' => RollbackStarted(e) \/ e = e0
  BY <1>2 DEF RollbackStarted
<1>4. OneStartedRollback'
  BY <1>1, <1>2 DEF GuardExclusive, OneStartedRollback, MayInsertOperation,
                    RollbackStarted
<1>5. HoldersExclude'
  BY <1>1, <1>3 DEF GuardExclusive, HoldersExclude, MayInsertOperation,
                    DeploymentActive, Quarantined, DeploymentIds
<1>6. QED
  BY <1>1, <1>4, <1>5 DEF GuardExclusive, OneActiveDeployment, OneQuarantine,
                          DeploymentIds

(* A rollback that ends lets its environment go.                           *)
LEMMA GuardFinish ==
    ASSUME TypeOK, GuardExclusive, NEW o \in OperationIds,
           NEW s \in {"succeeded", "failed"}, FinishOperation(o, s)
    PROVE  GuardExclusive'
<1>1. UNCHANGED <<deployments, incidents>>
  BY DEF FinishOperation
<1>2. /\ OperationIds' = OperationIds
      /\ \A p \in OperationIds :
             /\ operations'[p].env = operations[p].env
             /\ operations'[p].state = "started" =>
                    operations[p].state = "started"
  BY CloseEffect DEF FinishOperation
<1>3. \A e : RollbackStarted(e)' => RollbackStarted(e)
  BY <1>2 DEF RollbackStarted
<1>4. OneStartedRollback'
  BY <1>2 DEF GuardExclusive, OneStartedRollback
<1>5. HoldersExclude'
  BY <1>1, <1>3 DEF GuardExclusive, HoldersExclude, DeploymentActive,
                    Quarantined, DeploymentIds
<1>6. QED
  BY <1>1, <1>4, <1>5 DEF GuardExclusive, OneActiveDeployment, OneQuarantine,
                          DeploymentIds

(* Recovery hands the environment from the record to its incident. *)
LEMMA GuardRecoverDeployment ==
    ASSUME TypeOK, GuardExclusive, NEW d \in DeploymentIds, NEW from,
           RecoverDeployment(d, from)
    PROVE  GuardExclusive'
<1> DEFINE e0 == deployments[d].env
           i  == [kind |-> "deployment", subject |-> d, env |-> e0,
                  status |-> Disposition(from)]
<1>1. /\ UNCHANGED operations
      /\ deployments[d].state \in NonTerminal
      /\ incidents' = incidents \cup {i}
      /\ i.env = e0
  BY RecoverDeploymentEffect DEF RecoverDeployment
<1>2. i.status = "unresolved" => ~Quarantined(e0)
  BY DEF RecoverDeployment, InsertIncident
<1>3. /\ DeploymentIds' = DeploymentIds
      /\ \A c \in DeploymentIds :
             /\ deployments'[c].env = deployments[c].env
             /\ deployments'[c].state =
                    IF c = d THEN "failed" ELSE deployments[c].state
  <2>1. "failed" \in DeploymentState
    BY DEF DeploymentState
  <2>2. deployments' = [deployments EXCEPT ![d].state = "failed"]
    BY DEF RecoverDeployment
  <2>3. QED
    BY <2>1, <2>2, UpdateEffect
<1>4. e0 \in Environments /\ DeploymentActive(e0) /\ ~RollbackStarted(e0)
  BY <1>1, Rows DEF GuardExclusive, HoldersExclude, DeploymentActive
<1> HIDE DEF i, e0
<1>5. "failed" \notin NonTerminal
  BY DEF NonTerminal, Terminal
<1>6. \A e : /\ DeploymentActive(e)' => DeploymentActive(e) /\ e # e0
             /\ Quarantined(e)' => Quarantined(e) \/ e = e0
  BY <1>1, <1>3, <1>5 DEF DeploymentActive, Quarantined, GuardExclusive,
                          OneActiveDeployment, e0
<1>7. OneActiveDeployment'
  BY <1>3, <1>5 DEF GuardExclusive, OneActiveDeployment
<1>8. OneQuarantine'
  BY <1>1, <1>2 DEF GuardExclusive, OneQuarantine, Quarantined
<1>9. HoldersExclude'
  BY <1>1, <1>4, <1>6 DEF GuardExclusive, HoldersExclude, RollbackStarted,
                          OperationIds
<1>10. QED
  BY <1>1, <1>7, <1>8, <1>9 DEF GuardExclusive, OneStartedRollback, OperationIds

(* Recovery of a rollback exchanges the started operation for an           *)
(* unresolved incident.                                                    *)
LEMMA GuardRecoverOperation ==
    ASSUME TypeOK, GuardExclusive, NEW o \in OperationIds, RecoverOperation(o)
    PROVE  GuardExclusive'
<1> DEFINE e0 == operations[o].env
           i  == [kind |-> "rollback_operation", subject |-> o, env |-> e0,
                  status |-> "unresolved"]
<1>1. /\ UNCHANGED deployments
      /\ operations[o].state = "started"
      /\ incidents' = incidents \cup {i}
      /\ i.env = e0
      /\ ~Quarantined(e0)
  BY RecoverOperationEffect DEF RecoverOperation, InsertIncident
<1>2. /\ OperationIds' = OperationIds
      /\ \A p \in OperationIds :
             /\ operations'[p].env = operations[p].env
             /\ operations'[p].state =
                    IF p = o THEN "failed" ELSE operations[p].state
  BY CloseEffect DEF RecoverOperation
<1>3. e0 \in Environments /\ RollbackStarted(e0) /\ ~DeploymentActive(e0)
  BY <1>1, Rows DEF GuardExclusive, HoldersExclude, RollbackStarted
<1> HIDE DEF i, e0
<1>4. \A e : /\ RollbackStarted(e)' => RollbackStarted(e) /\ e # e0
             /\ Quarantined(e)' => Quarantined(e) \/ e = e0
  BY <1>1, <1>2 DEF RollbackStarted, Quarantined, GuardExclusive,
                    OneStartedRollback, e0
<1>5. OneStartedRollback'
  BY <1>2 DEF GuardExclusive, OneStartedRollback
<1>6. OneQuarantine'
  BY <1>1 DEF GuardExclusive, OneQuarantine, Quarantined
<1>7. HoldersExclude'
  BY <1>1, <1>3, <1>4 DEF GuardExclusive, HoldersExclude, DeploymentActive,
                          DeploymentIds
<1>8. QED
  BY <1>1, <1>5, <1>6, <1>7 DEF GuardExclusive, OneActiveDeployment,
                                DeploymentIds

(* Acknowledging an incident can only end a quarantine.                    *)
LEMMA GuardAcknowledge ==
    ASSUME TypeOK, GuardExclusive, NEW i \in incidents, Acknowledge(i)
    PROVE  GuardExclusive'
<1> DEFINE j == [i EXCEPT !.status = "acknowledged"]
<1>1. /\ UNCHANGED <<deployments, operations>>
      /\ incidents' = (incidents \ {i}) \cup {j}
      /\ j.status = "acknowledged"
  BY AcknowledgeEffect DEF Acknowledge
<1> HIDE DEF j
<1>2. \A e : Quarantined(e)' => Quarantined(e)
  BY <1>1 DEF Quarantined
<1>3. OneQuarantine'
  BY <1>1 DEF GuardExclusive, OneQuarantine
<1>4. QED
  BY <1>1, <1>2, <1>3 DEF GuardExclusive, OneActiveDeployment,
     OneStartedRollback, HoldersExclude, DeploymentActive, RollbackStarted,
     DeploymentIds, OperationIds

(* Every step of the store keeps one holder for each environment.          *)
LEMMA GuardStep == TypeOK /\ GuardExclusive /\ [Next]_storeVars => GuardExclusive'
<1> SUFFICES ASSUME TypeOK, GuardExclusive, [Next]_storeVars
             PROVE  GuardExclusive'
  OBVIOUS
<1>1. ASSUME NEW req \in Request, Reserve(req) PROVE GuardExclusive'
  BY <1>1, GuardReserve
<1>2. ASSUME NEW d \in DeploymentIds, NEW from \in DeploymentState,
             NEW to \in DeploymentState, Transition(d, from, to)
      PROVE  GuardExclusive'
  BY <1>2, GuardTransition
<1>3. ASSUME NEW d \in DeploymentIds,
             StartStep(d) \/ FinishStep(d) \/ RecordReference(d)
      PROVE  GuardExclusive'
  BY <1>3, GuardUnchanged DEF StartStep, FinishStep, RecordReference
<1>4. ASSUME NEW d \in DeploymentIds, BeginOperation(d) PROVE GuardExclusive'
  BY <1>4, GuardBegin
<1>5. ASSUME NEW o \in OperationIds, NEW s \in {"succeeded", "failed"},
             FinishOperation(o, s)
      PROVE  GuardExclusive'
  BY <1>5, GuardFinish
<1>6. ASSUME NEW batch \in SUBSET Prunable, Prune(batch) PROVE GuardExclusive'
  BY <1>6, GuardUnchanged DEF Prune
<1>7. ASSUME NEW d \in DeploymentIds, NEW from \in DeploymentState,
             RecoverDeployment(d, from)
      PROVE  GuardExclusive'
  BY <1>7, GuardRecoverDeployment
<1>8. ASSUME NEW o \in OperationIds, RecoverOperation(o) PROVE GuardExclusive'
  BY <1>8, GuardRecoverOperation
<1>9. ASSUME NEW i \in incidents, Acknowledge(i) PROVE GuardExclusive'
  BY <1>9, GuardAcknowledge
<1>10. CASE UNCHANGED storeVars
  BY <1>10, GuardUnchanged DEF storeVars
<1>11. QED
  BY <1>1, <1>2, <1>3, <1>4, <1>5, <1>6, <1>7, <1>8, <1>9, <1>10 DEF Next

(* No environment is ever held by two of: an active deployment, a started  *)
(* explicit rollback, an unresolved recovery incident.                     *)
THEOREM GuardCorrect == Spec => []GuardExclusive
<1>1. Init => TypeOK /\ GuardExclusive
  BY TypeInit, GuardInit
<1>2. TypeOK /\ GuardExclusive /\ [Next]_storeVars => (TypeOK /\ GuardExclusive)'
  BY TypeStep, GuardStep
<1>3. QED
  BY <1>1, <1>2, PTL DEF Spec
-----------------------------------------------------------------------------
(* Versions and idempotency keys.                                          *)

(* The identity columns of the rows stay: IdentityStable is kept. *)
LEMMA IdentityKept ==
    ASSUME IdentityStable, DeploymentIds' = DeploymentIds,
           \A d \in DeploymentIds :
               /\ deployments'[d].env = deployments[d].env
               /\ deployments'[d].release = deployments[d].release
               /\ deployments'[d].key = deployments[d].key
    PROVE  IdentityStable'
BY DEF IdentityStable

(* A reservation under a used key is refused, so keys stay unique.         *)
LEMMA IdentityReserve ==
    ASSUME TypeOK, IdentityStable, NEW req \in Request, Reserve(req)
    PROVE  IdentityStable'
<1>1. PICK n : n = Len(deployments) + 1
  OBVIOUS
<1>2. /\ DeploymentIds' = DeploymentIds \cup {n}
      /\ \A d \in DeploymentIds : deployments'[d] = deployments[d]
      /\ deployments'[n].env = req.env
      /\ deployments'[n].release = req.release
      /\ deployments'[n].key = req.key
  BY <1>1, ReserveEffect
<1>3. \A d \in DeploymentIds :
          /\ deployments[d].env = req.env
             /\ deployments[d].release.version = req.release.version
             => deployments[d].release.digest = req.release.digest
          /\ deployments[d].key = req.key => req.key = NoKey
  BY DEF Reserve, MayReserve, VersionConflict, BoundTo
<1>4. ASSUME NEW c \in DeploymentIds', NEW d \in DeploymentIds'
      PROVE  /\ /\ deployments'[c].env = deployments'[d].env
                /\ deployments'[c].release.version
                       = deployments'[d].release.version
                => deployments'[c].release.digest
                       = deployments'[d].release.digest
             /\ deployments'[c].key = deployments'[d].key /\ c # d
                    => deployments'[c].key = NoKey
  <2>1. CASE c \in DeploymentIds /\ d \in DeploymentIds
    BY <1>2, <2>1 DEF IdentityStable
  <2>2. CASE c = n \/ d = n
    BY <1>2, <1>3, <1>4, <2>2
  <2>3. QED
    BY <1>2, <1>4, <2>1, <2>2
<1>5. QED
  BY <1>4 DEF IdentityStable

(* Every step of the store keeps IdentityStable.                           *)
LEMMA IdentityStep ==
    TypeOK /\ IdentityStable /\ [Next]_storeVars => IdentityStable'
<1> SUFFICES ASSUME TypeOK, IdentityStable, [Next]_storeVars
             PROVE  IdentityStable'
  OBVIOUS
<1>1. ASSUME NEW req \in Request, Reserve(req) PROVE IdentityStable'
  BY <1>1, IdentityReserve
<1>2. ASSUME NEW d \in DeploymentIds, NEW s \in DeploymentState,
             deployments' = [deployments EXCEPT ![d].state = s]
      PROVE  IdentityStable'
  BY <1>2, UpdateEffect, IdentityKept
<1>3. ASSUME NEW d \in DeploymentIds, NEW from \in DeploymentState,
             NEW to \in DeploymentState, Transition(d, from, to)
      PROVE  IdentityStable'
  BY <1>2, <1>3 DEF Transition
<1>4. ASSUME NEW d \in DeploymentIds, NEW from \in DeploymentState,
             RecoverDeployment(d, from)
      PROVE  IdentityStable'
  <2>1. "failed" \in DeploymentState
    BY DEF DeploymentState
  <2>2. QED
    BY <1>2, <1>4, <2>1 DEF RecoverDeployment
<1>5. ASSUME UNCHANGED deployments PROVE IdentityStable'
  BY <1>5, IdentityKept DEF DeploymentIds
<1>6. QED
  BY <1>1, <1>3, <1>4, <1>5
  DEF Next, storeVars, StartStep, FinishStep, RecordReference, BeginOperation,
      FinishOperation, Prune, RecoverOperation, Acknowledge

(* A version of an environment always names the same bytes, and a key one  *)
(* deployment.                                                             *)
THEOREM IdentityCorrect == Spec => []IdentityStable
<1>1. Init => IdentityStable
  BY DEF Init, IdentityStable, DeploymentIds
<1>2. QED
  BY <1>1, IdentityStep, TypeCorrect, PTL DEF Spec
-----------------------------------------------------------------------------
(* References: what a started rollback needs is kept for it, and each      *)
(* reference is spent at most once.                                        *)

(* Every operation rolls back a deployment that exists, as the foreign key *)
(* of rollback_operations requires.                                        *)
SourcesExist == \A o \in OperationIds : operations[o].source \in DeploymentIds

(* What StartedRollbackHoldsReference says of one operation. *)
HoldsReference(o) ==
    /\ EligibleSource(operations[o].source)
    /\ deployments[operations[o].source].env = operations[o].env
    /\ references[operations[o].source] = "active"
    /\ ReferenceVisible(operations[o].source)

(* The inductive invariant: retention and recording are safe for a started *)
(* rollback because the one touches inactive references only and the other *)
(* only those of the latest deployment, which is the rollback's source.    *)
ReferenceInv ==
    /\ SourcesExist
    /\ PrunedInactive
    /\ \A o \in OperationIds :
           operations[o].state = "started" => HoldsReference(o)

(* The strengthened invariant implies the one the runs check.              *)
LEMMA ReferenceInvSuffices == ReferenceInv => StartedRollbackHoldsReference
BY DEF ReferenceInv, HoldsReference, StartedRollbackHoldsReference

(* An operation keeps its reference when its source, the references of its *)
(* source and the list of newer deployments in its environment stay.       *)
LEMMA HeldKept ==
    ASSUME NEW o, NEW s, s = operations[o].source, HoldsReference(o),
           operations'[o].source = s, operations'[o].env = operations[o].env,
           s \in DeploymentIds', deployments'[s] = deployments[s],
           \A n \in DeploymentIds' :
               deployments'[n].env = deployments[s].env =>
                   /\ n \in DeploymentIds
                   /\ deployments[n].env = deployments[s].env,
           references'[s] = references[s], s \in pruned' => s \in pruned
    PROVE  HoldsReference(o)'
<1>1. EligibleSource(s)
  BY DEF HoldsReference
<1>2. \A n \in DeploymentIds' : deployments'[n].env = deployments'[s].env => n <= s
  BY <1>1 DEF EligibleSource, IsLatest
<1>3. EligibleSource(s)'
  BY <1>1, <1>2 DEF EligibleSource, IsLatest
<1>4. QED
  BY <1>3 DEF HoldsReference, ReferenceVisible

(* The source of a started operation is decided. *)
LEMMA SourceDecided ==
    ASSUME ReferenceInv, NEW o \in OperationIds, operations[o].state = "started"
    PROVE  /\ operations[o].source \in DeploymentIds
           /\ deployments[operations[o].source].state \in Terminal
           /\ deployments[operations[o].source].env = operations[o].env
BY DEF ReferenceInv, SourcesExist, HoldsReference, EligibleSource,
       RollbackEligible, Terminal

(* A step that moves a deployment from an active state to another state    *)
(* leaves the references, the operations that stay started included.       *)
LEMMA HeldWhileMoving ==
    ASSUME TypeOK, ReferenceInv, NEW d \in DeploymentIds,
           NEW s \in DeploymentState, deployments[d].state \in NonTerminal,
           deployments' = [deployments EXCEPT ![d].state = s],
           UNCHANGED <<references, pruned, operations>>
    PROVE  ReferenceInv'
<1>1. /\ DeploymentIds' = DeploymentIds
      /\ \A c \in DeploymentIds :
             /\ deployments'[c].env = deployments[c].env
             /\ c # d => deployments'[c] = deployments[c]
  BY UpdateEffect
<1>2. OperationIds' = OperationIds
  BY DEF OperationIds
<1>3. ASSUME NEW o \in OperationIds, operations[o].state = "started"
      PROVE  HoldsReference(o)'
  <2>1. PICK src : src = operations[o].source
    OBVIOUS
  <2>2. src \in DeploymentIds /\ src # d
    BY <1>3, <2>1, SourceDecided DEF NonTerminal
  <2>3. HoldsReference(o)
    BY <1>3 DEF ReferenceInv
  <2>4. QED
    BY <1>1, <2>1, <2>2, <2>3, HeldKept
<1>4. QED
  BY <1>1, <1>2, <1>3 DEF ReferenceInv, SourcesExist, PrunedInactive

(* A reservation waits for started rollbacks of its environment.           *)
LEMMA ReferenceReserve ==
    ASSUME TypeOK, ReferenceInv, NEW req \in Request, Reserve(req)
    PROVE  ReferenceInv'
<1>1. PICK n : n = Len(deployments) + 1
  OBVIOUS
<1>2. /\ n \notin DeploymentIds
      /\ DeploymentIds' = DeploymentIds \cup {n}
      /\ \A d \in DeploymentIds : /\ deployments'[d] = deployments[d]
                                 /\ references'[d] = references[d]
      /\ deployments'[n].env = req.env
  BY <1>1, ReserveEffect
<1>3. /\ UNCHANGED <<pruned, operations>>
      /\ OperationIds' = OperationIds
      /\ ~RollbackStarted(req.env)
      /\ pruned \subseteq DeploymentIds
  BY DEF Reserve, MayReserve, MayInsertDeployment, OperationIds, TypeOK
<1>4. ASSUME NEW o \in OperationIds, operations[o].state = "started"
      PROVE  HoldsReference(o)'
  <2>1. PICK s : s = operations[o].source
    OBVIOUS
  <2>2. s \in DeploymentIds /\ deployments[s].env # req.env
    BY <1>3, <1>4, <2>1, SourceDecided DEF RollbackStarted
  <2>3. HoldsReference(o)
    BY <1>4 DEF ReferenceInv
  <2>4. \A m \in DeploymentIds' :
            deployments'[m].env = deployments[s].env =>
                m \in DeploymentIds /\ deployments[m].env = deployments[s].env
    BY <1>2, <2>2
  <2>5. QED
    BY <1>2, <1>3, <2>1, <2>2, <2>3, <2>4, HeldKept
<1>5. QED
  BY <1>2, <1>3, <1>4 DEF ReferenceInv, SourcesExist, PrunedInactive

(* The source of a started operation is the latest deployment of its       *)
(* environment, and only a latest deployment's reference is recorded.      *)
LEMMA ReferenceRecord ==
    ASSUME TypeOK, ReferenceInv, NEW d \in DeploymentIds, RecordReference(d)
    PROVE  ReferenceInv'
<1>1. /\ UNCHANGED <<deployments, pruned, operations>>
      /\ OperationIds' = OperationIds /\ DeploymentIds' = DeploymentIds
      /\ IsLatest(d)
      /\ references[d] \in {"none", "active"}
      /\ pruned \subseteq DeploymentIds
  BY DEF RecordReference, EligibleSource, DeploymentIds, OperationIds, TypeOK
<1>2. \A r \in DeploymentIds :
          /\ r # d /\ deployments[r].env # deployments[d].env =>
                 references'[r] = references[r]
          /\ references[r] \in {"superseded", "consumed"} /\ r # d =>
                 references'[r] = references[r]
          /\ r = d => references'[r] = "active"
  BY RecordEffect
<1>3. ASSUME NEW o \in OperationIds, operations[o].state = "started"
      PROVE  HoldsReference(o)'
  <2>1. PICK s : s = operations[o].source
    OBVIOUS
  <2>2. HoldsReference(o) /\ s \in DeploymentIds
    BY <1>3, <2>1, SourceDecided DEF ReferenceInv
  <2>3. IsLatest(s) /\ references[s] = "active"
    BY <2>1, <2>2 DEF HoldsReference, EligibleSource
  <2>4. deployments[s].env = deployments[d].env => s = d
    BY <1>1, <2>2, <2>3 DEF IsLatest, DeploymentIds
  <2>5. references'[s] = references[s]
    BY <1>2, <2>2, <2>3, <2>4
  <2>6. QED
    BY <1>1, <2>1, <2>2, <2>5, HeldKept
<1>4. PrunedInactive'
  BY <1>1, <1>2 DEF ReferenceInv, PrunedInactive
<1>5. QED
  BY <1>1, <1>3, <1>4 DEF ReferenceInv, SourcesExist

(* A rollback begins on the active reference of the newest deployment.     *)
LEMMA ReferenceBegin ==
    ASSUME TypeOK, ReferenceInv, NEW d \in DeploymentIds, BeginOperation(d)
    PROVE  ReferenceInv'
<1>1. PICK n : n = Len(operations) + 1
  OBVIOUS
<1>2. /\ OperationIds' = OperationIds \cup {n}
      /\ n \notin OperationIds
      /\ \A o \in OperationIds : operations'[o] = operations[o]
      /\ operations'[n].source = d
      /\ operations'[n].env = deployments[d].env
  BY <1>1, BeginEffect
<1>3. /\ UNCHANGED <<deployments, references, pruned>>
      /\ DeploymentIds' = DeploymentIds
      /\ EligibleSource(d) /\ references[d] = "active"
  BY DEF BeginOperation, DeploymentIds
<1>4. d \notin pruned
  BY <1>3 DEF ReferenceInv, PrunedInactive
<1>5. EligibleSource(d)'
  BY <1>3 DEF EligibleSource, IsLatest
<1>6. HoldsReference(n)'
  BY <1>2, <1>3, <1>4, <1>5 DEF HoldsReference, ReferenceVisible
<1>7. ASSUME NEW o \in OperationIds, operations[o].state = "started"
      PROVE  HoldsReference(o)'
  <2>1. PICK s : s = operations[o].source
    OBVIOUS
  <2>2. HoldsReference(o) /\ s \in DeploymentIds
    BY <1>7, <2>1, SourceDecided DEF ReferenceInv
  <2>3. QED
    BY <1>2, <1>3, <2>1, <2>2, HeldKept
<1>8. QED
  BY <1>2, <1>3, <1>6, <1>7 DEF ReferenceInv, SourcesExist, PrunedInactive

(* Two started operations belong to different environments, so spending    *)
(* the reference of one leaves the other's.                                *)
LEMMA ReferenceFinish ==
    ASSUME TypeOK, GuardExclusive, ReferenceInv, NEW o \in OperationIds,
           NEW t \in {"succeeded", "failed"}, FinishOperation(o, t)
    PROVE  ReferenceInv'
<1>1. /\ UNCHANGED <<deployments, pruned>>
      /\ DeploymentIds' = DeploymentIds
      /\ operations[o].state = "started"
      /\ pruned \subseteq DeploymentIds
  BY DEF FinishOperation, DeploymentIds, TypeOK
<1>2. /\ OperationIds' = OperationIds
      /\ \A p \in OperationIds :
             /\ operations'[p].env = operations[p].env
             /\ operations'[p].source = operations[p].source
             /\ operations'[p].state = IF p = o THEN t ELSE operations[p].state
  <2>1. operations' = [operations EXCEPT ![o].state = t]
    BY DEF FinishOperation
  <2>2. QED
    BY <2>1, CloseEffect
<1>3. \A d \in DeploymentIds :
          references'[d] = IF t = "succeeded" /\ d = operations[o].source
                           THEN "consumed" ELSE references[d]
  BY FinishEffect
<1>4. ASSUME NEW p \in OperationIds, operations'[p].state = "started"
      PROVE  HoldsReference(p)'
  <2>1. PICK s : s = operations[p].source
    OBVIOUS
  <2>2. p # o /\ operations[p].state = "started"
    BY <1>2, <1>4
  <2>3. HoldsReference(p) /\ s \in DeploymentIds
    BY <2>1, <2>2, SourceDecided DEF ReferenceInv
  <2>4. operations[p].env # operations[o].env
    BY <1>1, <2>2 DEF GuardExclusive, OneStartedRollback
  <2>5. s # operations[o].source
    BY <1>1, <2>1, <2>2, <2>4, SourceDecided
  <2>6. references'[s] = references[s]
    BY <1>3, <2>3, <2>5
  <2>7. QED
    BY <1>1, <1>2, <2>1, <2>3, <2>6, HeldKept
<1>5. PrunedInactive'
  BY <1>1, <1>3 DEF ReferenceInv, PrunedInactive
<1>6. QED
  BY <1>1, <1>2, <1>4, <1>5 DEF ReferenceInv, SourcesExist

(* Retention deletes no reference that a started rollback uses.            *)
LEMMA ReferencePrune ==
    ASSUME TypeOK, ReferenceInv, NEW batch \in SUBSET Prunable, Prune(batch)
    PROVE  ReferenceInv'
<1>1. /\ UNCHANGED <<deployments, references, operations>>
      /\ DeploymentIds' = DeploymentIds /\ OperationIds' = OperationIds
      /\ pruned' = pruned \cup batch
      /\ \A d \in batch : references[d] \in {"superseded", "consumed"}
  BY DEF Prune, Prunable, DeploymentIds, OperationIds
<1>2. ASSUME NEW o \in OperationIds, operations[o].state = "started"
      PROVE  HoldsReference(o)'
  <2>1. PICK s : s = operations[o].source
    OBVIOUS
  <2>2. HoldsReference(o) /\ s \in DeploymentIds
    BY <1>2, <2>1, SourceDecided DEF ReferenceInv
  <2>3. s \in pruned' => s \in pruned
    BY <1>1, <2>1, <2>2 DEF HoldsReference
  <2>4. QED
    BY <1>1, <2>1, <2>2, <2>3, HeldKept
<1>3. QED
  BY <1>1, <1>2 DEF ReferenceInv, SourcesExist, PrunedInactive

(* Recovery fails the rollback, which needs its reference no longer.       *)
LEMMA ReferenceRecoverOperation ==
    ASSUME TypeOK, ReferenceInv, NEW o \in OperationIds, RecoverOperation(o)
    PROVE  ReferenceInv'
<1>1. /\ UNCHANGED <<deployments, references, pruned>>
      /\ DeploymentIds' = DeploymentIds
  BY DEF RecoverOperation, DeploymentIds
<1>2. /\ OperationIds' = OperationIds
      /\ \A p \in OperationIds :
             /\ operations'[p].env = operations[p].env
             /\ operations'[p].source = operations[p].source
             /\ operations'[p].state =
                    IF p = o THEN "failed" ELSE operations[p].state
  <2>1. operations' = [operations EXCEPT ![o].state = "failed"]
    BY DEF RecoverOperation
  <2>2. QED
    BY <2>1, CloseEffect
<1>3. ASSUME NEW p \in OperationIds, operations'[p].state = "started"
      PROVE  HoldsReference(p)'
  <2>1. PICK s : s = operations[p].source
    OBVIOUS
  <2>2. operations[p].state = "started"
    BY <1>2, <1>3
  <2>3. HoldsReference(p) /\ s \in DeploymentIds
    BY <2>1, <2>2, SourceDecided DEF ReferenceInv
  <2>4. QED
    BY <1>1, <1>2, <2>1, <2>3, HeldKept
<1>4. QED
  BY <1>1, <1>2, <1>3 DEF ReferenceInv, SourcesExist, PrunedInactive

(* Every step of the store keeps ReferenceInv.                             *)
LEMMA ReferenceStep ==
    TypeOK /\ GuardExclusive /\ ReferenceInv /\ [Next]_storeVars => ReferenceInv'
<1> SUFFICES ASSUME TypeOK, GuardExclusive, ReferenceInv, [Next]_storeVars
             PROVE  ReferenceInv'
  OBVIOUS
<1>1. ASSUME NEW req \in Request, Reserve(req) PROVE ReferenceInv'
  BY <1>1, ReferenceReserve
<1>2. ASSUME NEW d \in DeploymentIds, NEW from \in DeploymentState,
             NEW to \in DeploymentState, Transition(d, from, to)
      PROVE  ReferenceInv'
  <2>1. deployments[d].state \in NonTerminal
    BY <1>2, TransitionEffect
  <2>2. QED
    BY <1>2, <2>1, HeldWhileMoving DEF Transition
<1>3. ASSUME UNCHANGED <<deployments, references, pruned, operations>>
      PROVE  ReferenceInv'
  BY <1>3 DEF ReferenceInv, SourcesExist, PrunedInactive, HoldsReference,
              EligibleSource, IsLatest, ReferenceVisible, DeploymentIds,
              OperationIds
<1>4. ASSUME NEW d \in DeploymentIds, RecordReference(d) PROVE ReferenceInv'
  BY <1>4, ReferenceRecord
<1>5. ASSUME NEW d \in DeploymentIds, BeginOperation(d) PROVE ReferenceInv'
  BY <1>5, ReferenceBegin
<1>6. ASSUME NEW o \in OperationIds, NEW t \in {"succeeded", "failed"},
             FinishOperation(o, t)
      PROVE  ReferenceInv'
  BY <1>6, ReferenceFinish
<1>7. ASSUME NEW batch \in SUBSET Prunable, Prune(batch) PROVE ReferenceInv'
  BY <1>7, ReferencePrune
<1>8. ASSUME NEW d \in DeploymentIds, NEW from \in DeploymentState,
             RecoverDeployment(d, from)
      PROVE  ReferenceInv'
  <2>1. deployments[d].state \in NonTerminal
    BY <1>8, RecoverDeploymentEffect
  <2>2. "failed" \in DeploymentState
    BY DEF DeploymentState
  <2>3. /\ deployments' = [deployments EXCEPT ![d].state = "failed"]
        /\ UNCHANGED <<references, pruned, operations>>
    BY <1>8 DEF RecoverDeployment
  <2>4. QED
    BY <2>1, <2>2, <2>3, HeldWhileMoving
<1>9. ASSUME NEW o \in OperationIds, RecoverOperation(o) PROVE ReferenceInv'
  BY <1>9, ReferenceRecoverOperation
<1>10. QED
  BY <1>1, <1>2, <1>3, <1>4, <1>5, <1>6, <1>7, <1>8, <1>9
  DEF Next, storeVars, StartStep, FinishStep, Acknowledge

(* The strengthened invariant holds in every state.                        *)
LEMMA ReferenceInvCorrect == Spec => []ReferenceInv
<1>1. Init => ReferenceInv
  BY DEF Init, ReferenceInv, SourcesExist, PrunedInactive, OperationIds
<1>2. QED
  BY <1>1, ReferenceStep, TypeCorrect, GuardCorrect, PTL DEF Spec

(* Nothing that commits while an explicit rollback runs may take from it   *)
(* what its completion needs.                                              *)
THEOREM ReferenceHeld == Spec => []StartedRollbackHoldsReference
<1>1. QED
  BY ReferenceInvCorrect, ReferenceInvSuffices, PTL
-----------------------------------------------------------------------------
(* The tables of deployments and references are related by environment and *)
(* index only, so moving a deployment does not matter to them.             *)
LEMMA OneActiveStep ==
    TypeOK /\ OneActiveReference /\ [Next]_storeVars => OneActiveReference'
<1> SUFFICES ASSUME TypeOK, OneActiveReference, [Next]_storeVars
             PROVE  OneActiveReference'
  OBVIOUS
<1>1. ASSUME NEW req \in Request, Reserve(req) PROVE OneActiveReference'
  BY <1>1, ReserveEffect DEF OneActiveReference
<1>2. ASSUME DeploymentIds' = DeploymentIds,
             \A d \in DeploymentIds : deployments'[d].env = deployments[d].env,
             \A d \in DeploymentIds :
                 references'[d] = "active" => references[d] = "active"
      PROVE  OneActiveReference'
  BY <1>2 DEF OneActiveReference
<1>3. ASSUME NEW d \in DeploymentIds, NEW s \in DeploymentState,
             deployments' = [deployments EXCEPT ![d].state = s],
             UNCHANGED references
      PROVE  OneActiveReference'
  BY <1>2, <1>3, UpdateEffect
<1>4. ASSUME NEW d \in DeploymentIds, NEW from \in DeploymentState,
             NEW to \in DeploymentState, Transition(d, from, to)
      PROVE  OneActiveReference'
  BY <1>3, <1>4 DEF Transition
<1>5. ASSUME UNCHANGED <<deployments, references>> PROVE OneActiveReference'
  BY <1>5 DEF OneActiveReference, DeploymentIds
<1>6. ASSUME NEW d \in DeploymentIds, RecordReference(d)
      PROVE  OneActiveReference'
  <2>1. UNCHANGED deployments /\ DeploymentIds' = DeploymentIds
    BY <1>6 DEF RecordReference, DeploymentIds
  <2>2. CASE references[d] = "active"
    <3>1. \A r \in DeploymentIds : references'[r] = references[r]
      BY <1>6, <2>2, RecordEffect
    <3>2. QED
      BY <1>2, <2>1, <3>1
  <2>3. CASE references[d] # "active"
    <3>1. \A r \in DeploymentIds :
              references'[r] = "active" /\ r # d =>
                  /\ references[r] = "active"
                  /\ deployments[r].env # deployments[d].env
      BY <1>6, <2>3, RecordEffect
    <3>2. QED
      BY <2>1, <3>1 DEF OneActiveReference
  <2>4. QED
    BY <2>2, <2>3
<1>7. ASSUME NEW o \in OperationIds, NEW t \in {"succeeded", "failed"},
             FinishOperation(o, t)
      PROVE  OneActiveReference'
  <2>1. UNCHANGED deployments /\ DeploymentIds' = DeploymentIds
    BY <1>7 DEF FinishOperation, DeploymentIds
  <2>2. \A d \in DeploymentIds :
            references'[d] = "active" => references[d] = "active"
    BY <1>7, FinishEffect
  <2>3. QED
    BY <1>2, <2>1, <2>2
<1>8. ASSUME NEW d \in DeploymentIds, NEW from \in DeploymentState,
             RecoverDeployment(d, from)
      PROVE  OneActiveReference'
  <2>1. "failed" \in DeploymentState
    BY DEF DeploymentState
  <2>2. QED
    BY <1>3, <1>8, <2>1 DEF RecoverDeployment
<1>9. QED
  BY <1>1, <1>4, <1>5, <1>6, <1>7, <1>8
  DEF Next, storeVars, StartStep, FinishStep, BeginOperation, Prune,
      RecoverOperation, Acknowledge

(* An environment never has two active rollback references. *)
THEOREM OneActiveCorrect == Spec => []OneActiveReference
<1>1. Init => OneActiveReference
  BY DEF Init, OneActiveReference, DeploymentIds
<1>2. QED
  BY <1>1, OneActiveStep, TypeCorrect, PTL DEF Spec
-----------------------------------------------------------------------------
SpentBy(o, d) ==
    operations[o].source = d /\ operations[o].state = "succeeded"

(* ConsumedByOneRollback after a step that spends nothing. *)
LEMMA NothingSpent ==
    ASSUME ConsumedByOneRollback, OperationIds' = OperationIds,
           DeploymentIds' = DeploymentIds,
           \A d \in DeploymentIds :
               references'[d] = "consumed" <=> references[d] = "consumed",
           \A o \in OperationIds :
               /\ operations'[o].source = operations[o].source
               /\ operations'[o].state = "succeeded"
                      <=> operations[o].state = "succeeded"
    PROVE  ConsumedByOneRollback'
BY DEF ConsumedByOneRollback

(* A successful rollback finds its reference active, so no other rollback  *)
(* has spent it.                                                           *)
LEMMA SpentOnce ==
    ASSUME TypeOK, ReferenceInv, ConsumedByOneRollback, NEW o \in OperationIds,
           FinishOperation(o, "succeeded")
    PROVE  ConsumedByOneRollback'
<1>1. PICK s : s = operations[o].source
  OBVIOUS
<1>2. /\ UNCHANGED deployments /\ DeploymentIds' = DeploymentIds
      /\ operations[o].state = "started" /\ references[s] = "active"
      /\ s \in DeploymentIds
  BY <1>1 DEF FinishOperation, DeploymentIds, ReferenceInv, SourcesExist
<1>3. \A d \in DeploymentIds :
          references'[d] = IF d = s THEN "consumed" ELSE references[d]
  BY <1>1, FinishEffect
<1>4. /\ OperationIds' = OperationIds
      /\ \A p \in OperationIds :
             /\ operations'[p].source = operations[p].source
             /\ operations'[p].state =
                    IF p = o THEN "succeeded" ELSE operations[p].state
  <2>1. operations' = [operations EXCEPT ![o].state = "succeeded"]
    BY DEF FinishOperation
  <2>2. QED
    BY <2>1, CloseEffect
<1>5. \A p \in OperationIds : ~SpentBy(p, s)
  BY <1>2 DEF ConsumedByOneRollback, SpentBy
<1>6. QED
  BY <1>1, <1>2, <1>3, <1>4, <1>5 DEF ConsumedByOneRollback, SpentBy

(* A reference consumed is not used by another rollback.                   *)
LEMMA ConsumedStep ==
    TypeOK /\ ReferenceInv /\ ConsumedByOneRollback /\ [Next]_storeVars
        => ConsumedByOneRollback'
<1> SUFFICES ASSUME TypeOK, ReferenceInv, ConsumedByOneRollback,
                    [Next]_storeVars
             PROVE  ConsumedByOneRollback'
  OBVIOUS
<1>1. ASSUME NEW req \in Request, Reserve(req) PROVE ConsumedByOneRollback'
  <2>1. PICK n : n = Len(deployments) + 1
    OBVIOUS
  <2>2. /\ DeploymentIds' = DeploymentIds \cup {n} /\ n \notin DeploymentIds
        /\ \A d \in DeploymentIds : references'[d] = references[d]
        /\ references'[n] = "none"
    BY <1>1, <2>1, ReserveEffect
  <2>3. UNCHANGED operations /\ OperationIds' = OperationIds
    BY <1>1 DEF Reserve, OperationIds
  <2>4. QED
    BY <2>2, <2>3 DEF ConsumedByOneRollback, ReferenceInv, SourcesExist
<1>2. ASSUME UNCHANGED <<references, operations>>, DeploymentIds' = DeploymentIds
      PROVE  ConsumedByOneRollback'
  BY <1>2 DEF ConsumedByOneRollback, OperationIds
<1>3. ASSUME NEW d \in DeploymentIds, NEW from \in DeploymentState,
             NEW to \in DeploymentState, Transition(d, from, to)
      PROVE  ConsumedByOneRollback'
  <2>1. to \in DeploymentState
    BY <1>3
  <2>2. DeploymentIds' = DeploymentIds /\ UNCHANGED <<references, operations>>
    BY <1>3, <2>1, UpdateEffect DEF Transition
  <2>3. QED
    BY <1>2, <2>2
<1>4. ASSUME NEW d \in DeploymentIds, RecordReference(d)
      PROVE  ConsumedByOneRollback'
  <2>1. /\ UNCHANGED <<deployments, operations>>
        /\ DeploymentIds' = DeploymentIds /\ OperationIds' = OperationIds
        /\ references[d] \in {"none", "active"}
    BY <1>4 DEF RecordReference, DeploymentIds, OperationIds
  <2>2. \A r \in DeploymentIds :
            references'[r] = "consumed" <=> references[r] = "consumed"
    BY <1>4, <2>1, RecordEffect
  <2>3. QED
    BY <2>1, <2>2, NothingSpent
<1>5. ASSUME NEW d \in DeploymentIds, BeginOperation(d)
      PROVE  ConsumedByOneRollback'
  <2>1. PICK n : n = Len(operations) + 1
    OBVIOUS
  <2>2. /\ OperationIds' = OperationIds \cup {n} /\ n \notin OperationIds
        /\ \A o \in OperationIds : operations'[o] = operations[o]
        /\ operations'[n].state = "started"
    BY <1>5, <2>1, BeginEffect
  <2>3. UNCHANGED <<deployments, references>> /\ DeploymentIds' = DeploymentIds
    BY <1>5 DEF BeginOperation, DeploymentIds
  <2>4. QED
    BY <2>2, <2>3 DEF ConsumedByOneRollback
<1>6. ASSUME NEW o \in OperationIds, FinishOperation(o, "succeeded")
      PROVE  ConsumedByOneRollback'
  BY <1>6, SpentOnce
<1>7. ASSUME NEW o \in OperationIds, operations[o].state = "started",
             operations' = [operations EXCEPT ![o].state = "failed"],
             UNCHANGED <<deployments, references>>
      PROVE  ConsumedByOneRollback'
  <2>1. /\ OperationIds' = OperationIds
        /\ \A p \in OperationIds :
               /\ operations'[p].source = operations[p].source
               /\ operations'[p].state =
                      IF p = o THEN "failed" ELSE operations[p].state
    BY <1>7, CloseEffect
  <2>2. DeploymentIds' = DeploymentIds
    BY <1>7 DEF DeploymentIds
  <2>3. QED
    BY <1>7, <2>1, <2>2, NothingSpent
<1>8. ASSUME NEW o \in OperationIds, FinishOperation(o, "failed")
      PROVE  ConsumedByOneRollback'
  BY <1>7, <1>8 DEF FinishOperation
<1>9. ASSUME NEW o \in OperationIds, RecoverOperation(o)
      PROVE  ConsumedByOneRollback'
  BY <1>7, <1>9 DEF RecoverOperation
<1>10. ASSUME NEW d \in DeploymentIds, NEW from \in DeploymentState,
              RecoverDeployment(d, from)
       PROVE  ConsumedByOneRollback'
  <2>1. "failed" \in DeploymentState
    BY DEF DeploymentState
  <2>2. DeploymentIds' = DeploymentIds /\ UNCHANGED <<references, operations>>
    BY <1>10, <2>1, UpdateEffect DEF RecoverDeployment
  <2>3. QED
    BY <1>2, <2>2
<1>11. QED
  BY <1>1, <1>2, <1>3, <1>4, <1>5, <1>6, <1>8, <1>9, <1>10
  DEF Next, storeVars, StartStep, FinishStep, Prune, Acknowledge,
      DeploymentIds

(* A reference is consumed exactly when one rollback of its deployment     *)
(* succeeded, and no second one ever does.                                 *)
THEOREM ConsumedCorrect == Spec => []ConsumedByOneRollback
<1>1. Init => ConsumedByOneRollback
  BY DEF Init, ConsumedByOneRollback, DeploymentIds, OperationIds
<1>2. QED
  BY <1>1, ConsumedStep, TypeCorrect, ReferenceInvCorrect, PTL DEF Spec
-----------------------------------------------------------------------------
(* Only a newer deployment's reference supersedes one.                     *)
SupersededOlder ==
    \A d \in DeploymentIds : references[d] = "superseded" => ~IsLatest(d)

(* A deployment with a newer one in its environment keeps having one, and  *)
(* record_reference supersedes the references of such deployments only.    *)
LEMMA SupersededStep ==
    TypeOK /\ SupersededOlder /\ [Next]_storeVars => SupersededOlder'
<1> SUFFICES ASSUME TypeOK, SupersededOlder, [Next]_storeVars
             PROVE  SupersededOlder'
  OBVIOUS
<1>1. ASSUME NEW req \in Request, Reserve(req) PROVE SupersededOlder'
  BY <1>1, ReserveEffect DEF SupersededOlder, IsLatest
<1>2. ASSUME DeploymentIds' = DeploymentIds,
             \A d \in DeploymentIds : deployments'[d].env = deployments[d].env,
             \A d \in DeploymentIds :
                 references'[d] = "superseded" => ~IsLatest(d)
      PROVE  SupersededOlder'
  BY <1>2 DEF SupersededOlder, IsLatest
<1>3. ASSUME NEW d \in DeploymentIds, NEW s \in DeploymentState,
             deployments' = [deployments EXCEPT ![d].state = s],
             UNCHANGED references
      PROVE  SupersededOlder'
  BY <1>2, <1>3, UpdateEffect DEF SupersededOlder
<1>4. ASSUME NEW d \in DeploymentIds, NEW from \in DeploymentState,
             NEW to \in DeploymentState, Transition(d, from, to)
      PROVE  SupersededOlder'
  BY <1>3, <1>4 DEF Transition
<1>5. ASSUME UNCHANGED <<deployments, references>> PROVE SupersededOlder'
  BY <1>5 DEF SupersededOlder, IsLatest, DeploymentIds
<1>6. ASSUME NEW d \in DeploymentIds, RecordReference(d)
      PROVE  SupersededOlder'
  <2>1. UNCHANGED deployments /\ DeploymentIds' = DeploymentIds
    BY <1>6 DEF RecordReference, DeploymentIds
  <2>2. ASSUME NEW r \in DeploymentIds, references'[r] = "superseded"
        PROVE  ~IsLatest(r)
    <3>1. CASE references[r] = "superseded"
      BY <3>1 DEF SupersededOlder
    <3>2. CASE references[r] # "superseded"
      <4>1. r # d /\ deployments[r].env = deployments[d].env
        BY <1>6, <2>2, <3>2, RecordEffect
      <4>2. IsLatest(d)
        BY <1>6 DEF RecordReference, EligibleSource
      <4>3. r < d
        BY <4>1, <4>2, Rows DEF IsLatest, DeploymentIds
      <4>4. QED
        BY <4>1, <4>3, Rows DEF IsLatest, DeploymentIds
    <3>3. QED
      BY <3>1, <3>2
  <2>3. QED
    BY <1>2, <2>1, <2>2
<1>7. ASSUME NEW o \in OperationIds, NEW t \in {"succeeded", "failed"},
             FinishOperation(o, t)
      PROVE  SupersededOlder'
  <2>1. UNCHANGED deployments /\ DeploymentIds' = DeploymentIds
    BY <1>7 DEF FinishOperation, DeploymentIds
  <2>2. \A d \in DeploymentIds :
            references'[d] = "superseded" => references[d] = "superseded"
    BY <1>7, FinishEffect
  <2>3. QED
    BY <1>2, <2>1, <2>2 DEF SupersededOlder
<1>8. ASSUME NEW d \in DeploymentIds, NEW from \in DeploymentState,
             RecoverDeployment(d, from)
      PROVE  SupersededOlder'
  <2>1. "failed" \in DeploymentState
    BY DEF DeploymentState
  <2>2. QED
    BY <1>3, <1>8, <2>1 DEF RecoverDeployment
<1>9. QED
  BY <1>1, <1>4, <1>5, <1>6, <1>7, <1>8
  DEF Next, storeVars, StartStep, FinishStep, BeginOperation, Prune,
      RecoverOperation, Acknowledge

(* It holds in every reachable state.                                      *)
LEMMA SupersededCorrect == Spec => []SupersededOlder
<1>1. Init => SupersededOlder
  BY DEF Init, SupersededOlder, DeploymentIds
<1>2. QED
  BY <1>1, SupersededStep, TypeCorrect, PTL DEF Spec

(* A newer deployment of the environment of d that has a reference. *)
Newer(d, n) ==
    /\ deployments[n].env = deployments[d].env
    /\ d < n /\ references[n] # "none"

InOrder(d) ==
    /\ references[d] = "active" => \A n \in DeploymentIds : ~Newer(d, n)
    /\ references[d] = "superseded" => \E n \in DeploymentIds : Newer(d, n)

(* ReferencesInOrder, said of each deployment.                             *)
LEMMA OrderOfEach ==
    ReferencesInOrder <=> \A d \in DeploymentIds : InOrder(d)
BY DEF ReferencesInOrder, InOrder, Newer

(* record_reference compares its deployment with newer ones, so that what  *)
(* it supersedes is older.                                                 *)
LEMMA OrderOfRecord ==
    ASSUME TypeOK, ReferencesInOrder, NEW d \in DeploymentIds,
           RecordReference(d), NEW r \in DeploymentIds
    PROVE  InOrder(r)'
<1>1. /\ UNCHANGED deployments /\ DeploymentIds' = DeploymentIds
      /\ DeploymentIds \subseteq Nat /\ IsLatest(d) /\ InOrder(r)
  BY OrderOfEach DEF RecordReference, EligibleSource, DeploymentIds
<1>2. \A c \in DeploymentIds :
          deployments[c].env = deployments[d].env /\ c # d => c < d
  BY <1>1, Rows DEF IsLatest
<1>3. references'[d] # "none"
  BY <1>1, RecordEffect DEF RecordReference
<1>4. \A c \in DeploymentIds :
          c # d => (references'[c] = "none" <=> references[c] = "none")
  BY RecordEffect
<1>5. ASSUME references'[r] = "active", NEW n \in DeploymentIds PROVE ~Newer(r, n)'
  <2>1. CASE r = d
    BY <1>1, <1>2, <2>1 DEF Newer
  <2>2. CASE r # d /\ references[d] = "active"
    <3>1. references'[n] = references[n] /\ references'[r] = references[r]
      BY <2>2, RecordEffect
    <3>2. QED
      BY <1>1, <1>5, <3>1 DEF InOrder, Newer
  <2>3. CASE r # d /\ references[d] # "active"
    <3>1. references[r] = "active" /\ deployments[r].env # deployments[d].env
      BY <1>5, <2>3, RecordEffect
    <3>2. CASE n = d
      BY <1>1, <3>1, <3>2 DEF Newer
    <3>3. CASE n # d
      BY <1>1, <1>4, <3>1, <3>3 DEF InOrder, Newer
    <3>4. QED
      BY <3>2, <3>3
  <2>4. QED
    BY <2>1, <2>2, <2>3
<1>6. ASSUME references'[r] = "superseded"
      PROVE  \E n \in DeploymentIds : Newer(r, n)'
  <2>1. CASE references[r] = "superseded"
    <3>1. PICK n \in DeploymentIds : Newer(r, n)
      BY <1>1, <2>1 DEF InOrder
    <3>2. references'[n] # "none"
      BY <1>3, <1>4, <3>1 DEF Newer
    <3>3. QED
      BY <1>1, <3>1, <3>2 DEF Newer
  <2>2. CASE references[r] # "superseded"
    <3>1. r # d /\ deployments[r].env = deployments[d].env
      BY <1>6, <2>2, RecordEffect
    <3>2. Newer(r, d)'
      BY <1>1, <1>2, <1>3, <3>1 DEF Newer
    <3>3. QED
      BY <3>2
  <2>3. QED
    BY <2>1, <2>2
<1>7. QED
  BY <1>1, <1>5, <1>6 DEF InOrder

(* Every step keeps the order.                                             *)
LEMMA OrderStep ==
    TypeOK /\ ReferencesInOrder /\ [Next]_storeVars => ReferencesInOrder'
<1> SUFFICES ASSUME TypeOK, ReferencesInOrder, [Next]_storeVars
             PROVE  ReferencesInOrder'
  OBVIOUS
<1>1. ASSUME \A d \in DeploymentIds' : InOrder(d)' PROVE ReferencesInOrder'
  BY <1>1 DEF ReferencesInOrder, InOrder, Newer
<1>2. ASSUME DeploymentIds' = DeploymentIds,
             \A d \in DeploymentIds :
                 /\ deployments'[d].env = deployments[d].env
                 /\ references'[d] # references[d] =>
                        references[d] # "none" /\ references'[d] = "consumed"
      PROVE  ReferencesInOrder'
  <2>1. \A d, n \in DeploymentIds : Newer(d, n)' <=> Newer(d, n)
    BY <1>2 DEF Newer
  <2>2. \A d \in DeploymentIds :
            references'[d] \in {"active", "superseded"}
                => references'[d] = references[d]
    BY <1>2
  <2>3. QED
    BY <1>1, <1>2, <2>1, <2>2, OrderOfEach DEF InOrder
<1>3. ASSUME NEW req \in Request, Reserve(req) PROVE ReferencesInOrder'
  BY <1>3, ReserveEffect DEF ReferencesInOrder
<1>4. ASSUME NEW d \in DeploymentIds, NEW s \in DeploymentState,
             deployments' = [deployments EXCEPT ![d].state = s],
             UNCHANGED references
      PROVE  ReferencesInOrder'
  BY <1>2, <1>4, UpdateEffect
<1>5. ASSUME NEW d \in DeploymentIds, NEW from \in DeploymentState,
             NEW to \in DeploymentState, Transition(d, from, to)
      PROVE  ReferencesInOrder'
  BY <1>4, <1>5 DEF Transition
<1>6. ASSUME UNCHANGED <<deployments, references>> PROVE ReferencesInOrder'
  BY <1>6 DEF ReferencesInOrder, DeploymentIds
<1>7. ASSUME NEW d \in DeploymentIds, RecordReference(d)
      PROVE  ReferencesInOrder'
  <2>1. DeploymentIds' = DeploymentIds
    BY <1>7 DEF RecordReference, DeploymentIds
  <2>2. QED
    BY <1>1, <1>7, <2>1, OrderOfRecord
<1>8. ASSUME NEW o \in OperationIds, NEW t \in {"succeeded", "failed"},
             FinishOperation(o, t)
      PROVE  ReferencesInOrder'
  <2>1. UNCHANGED deployments /\ DeploymentIds' = DeploymentIds
    BY <1>8 DEF FinishOperation, DeploymentIds
  <2>2. \A d \in DeploymentIds :
            references'[d] # references[d] =>
                references[d] # "none" /\ references'[d] = "consumed"
    BY <1>8, FinishEffect DEF FinishOperation
  <2>3. QED
    BY <1>2, <2>1, <2>2
<1>9. ASSUME NEW d \in DeploymentIds, NEW from \in DeploymentState,
             RecoverDeployment(d, from)
      PROVE  ReferencesInOrder'
  <2>1. "failed" \in DeploymentState
    BY DEF DeploymentState
  <2>2. QED
    BY <1>4, <1>9, <2>1 DEF RecoverDeployment
<1>10. QED
  BY <1>3, <1>5, <1>6, <1>7, <1>8, <1>9
  DEF Next, storeVars, StartStep, FinishStep, BeginOperation, Prune,
      RecoverOperation, Acknowledge

(* However late a reference is recorded, it supersedes older ones only and *)
(* is recorded only while no newer deployment exists.                      *)
THEOREM ReferencesInOrderCorrect == Spec => []ReferencesInOrder
<1>1. Init => ReferencesInOrder
  BY DEF Init, ReferencesInOrder, DeploymentIds
<1>2. QED
  BY <1>1, OrderStep, TypeCorrect, PTL DEF Spec
-----------------------------------------------------------------------------
(* What IncidentSubjectFailed says of one incident. *)
SubjectFailed(i) ==
    \/ /\ i.kind = "deployment"
       /\ i.subject \in DeploymentIds
       /\ deployments[i.subject].state = "failed"
       /\ deployments[i.subject].env = i.env
    \/ /\ i.kind = "rollback_operation"
       /\ i.subject \in OperationIds
       /\ operations[i.subject].state = "failed"
       /\ operations[i.subject].env = i.env

(* A failed record keeps its identity and its state in every step: no      *)
(* action leads out of "failed".                                           *)
FailedKept ==
    /\ \A d \in DeploymentIds : deployments[d].state = "failed" =>
           /\ d \in DeploymentIds'
           /\ deployments'[d].state = "failed"
           /\ deployments'[d].env = deployments[d].env
    /\ \A o \in OperationIds : operations[o].state = "failed" =>
           /\ o \in OperationIds'
           /\ operations'[o].state = "failed"
           /\ operations'[o].env = operations[o].env

(* No step of the store changes a failed record.                           *)
LEMMA FailedStays == TypeOK /\ [Next]_storeVars => FailedKept
<1> SUFFICES ASSUME TypeOK, [Next]_storeVars PROVE FailedKept
  OBVIOUS
<1>1. ASSUME NEW req \in Request, Reserve(req) PROVE FailedKept
  <2>1. /\ DeploymentIds \subseteq DeploymentIds'
        /\ \A d \in DeploymentIds : deployments'[d] = deployments[d]
    BY <1>1, ReserveEffect
  <2>2. UNCHANGED operations
    BY <1>1 DEF Reserve
  <2>3. QED
    BY <2>1, <2>2 DEF FailedKept, OperationIds
<1>2. ASSUME NEW d \in DeploymentIds, NEW from \in DeploymentState,
             NEW to \in DeploymentState, Transition(d, from, to)
      PROVE  FailedKept
  <2>1. deployments[d].state # "failed"
    BY <1>2, TransitionEffect DEF NonTerminal, Terminal
  <2>2. /\ DeploymentIds' = DeploymentIds
        /\ \A c \in DeploymentIds : c # d => deployments'[c] = deployments[c]
    BY <1>2, UpdateEffect DEF Transition
  <2>3. UNCHANGED operations
    BY <1>2 DEF Transition
  <2>4. QED
    BY <2>1, <2>2, <2>3 DEF FailedKept, OperationIds
<1>3. ASSUME NEW d \in DeploymentIds,
             StartStep(d) \/ FinishStep(d) \/ RecordReference(d)
      PROVE  FailedKept
  BY <1>3 DEF StartStep, FinishStep, RecordReference, FailedKept,
              DeploymentIds, OperationIds
<1>4. ASSUME NEW d \in DeploymentIds, BeginOperation(d) PROVE FailedKept
  <2>1. /\ OperationIds \subseteq OperationIds'
        /\ \A o \in OperationIds : operations'[o] = operations[o]
    BY <1>4, BeginEffect
  <2>2. UNCHANGED deployments
    BY <1>4 DEF BeginOperation
  <2>3. QED
    BY <2>1, <2>2 DEF FailedKept, DeploymentIds
<1>5. ASSUME NEW o \in OperationIds, NEW s \in {"succeeded", "failed"},
             FinishOperation(o, s)
      PROVE  FailedKept
  <2>1. operations[o].state # "failed" /\ UNCHANGED deployments
    BY <1>5 DEF FinishOperation
  <2>2. /\ OperationIds' = OperationIds
        /\ \A p \in OperationIds : p # o => operations'[p] = operations[p]
    BY <1>5, CloseEffect DEF FinishOperation
  <2>3. QED
    BY <2>1, <2>2 DEF FailedKept, DeploymentIds
<1>6. ASSUME NEW batch \in SUBSET Prunable, Prune(batch) PROVE FailedKept
  BY <1>6 DEF Prune, FailedKept, DeploymentIds, OperationIds
<1>7. ASSUME NEW d \in DeploymentIds, NEW from \in DeploymentState,
             RecoverDeployment(d, from)
      PROVE  FailedKept
  <2>1. deployments[d].state # "failed"
    BY <1>7, RecoverDeploymentEffect DEF NonTerminal, Terminal
  <2>2. "failed" \in DeploymentState
    BY DEF DeploymentState
  <2>3. deployments' = [deployments EXCEPT ![d].state = "failed"]
        /\ UNCHANGED operations
    BY <1>7 DEF RecoverDeployment
  <2>4. /\ DeploymentIds' = DeploymentIds
        /\ \A c \in DeploymentIds : c # d => deployments'[c] = deployments[c]
    BY <2>2, <2>3, UpdateEffect
  <2>5. QED
    BY <2>1, <2>3, <2>4 DEF FailedKept, OperationIds
<1>8. ASSUME NEW o \in OperationIds, RecoverOperation(o) PROVE FailedKept
  <2>1. operations[o].state # "failed" /\ UNCHANGED deployments
    BY <1>8 DEF RecoverOperation
  <2>2. /\ OperationIds' = OperationIds
        /\ \A p \in OperationIds : p # o => operations'[p] = operations[p]
    BY <1>8, CloseEffect DEF RecoverOperation
  <2>3. QED
    BY <2>1, <2>2 DEF FailedKept, DeploymentIds
<1>9. ASSUME NEW i \in incidents, Acknowledge(i) PROVE FailedKept
  BY <1>9 DEF Acknowledge, FailedKept, DeploymentIds, OperationIds
<1>10. CASE UNCHANGED storeVars
  BY <1>10 DEF storeVars, FailedKept, DeploymentIds, OperationIds
<1>11. QED
  BY <1>1, <1>2, <1>3, <1>4, <1>5, <1>6, <1>7, <1>8, <1>9, <1>10 DEF Next

(* So every incident that was right about its subject stays right. *)
LEMMA SubjectStaysFailed ==
    ASSUME FailedKept, NEW i, SubjectFailed(i)
    PROVE  SubjectFailed(i)'
BY DEF FailedKept, SubjectFailed

(* IncidentSubjectFailed after a step, from the incidents that were there  *)
(* and those the step added.                                               *)
LEMMA SubjectsUnchanged ==
    ASSUME IncidentSubjectFailed, FailedKept, UNCHANGED incidents
    PROVE  IncidentSubjectFailed'
<1>1. \A i \in incidents : SubjectFailed(i)
  BY DEF IncidentSubjectFailed, SubjectFailed
<1>2. \A i \in incidents' : SubjectFailed(i)'
  BY <1>1, SubjectStaysFailed
<1>3. QED
  BY <1>2 DEF IncidentSubjectFailed, SubjectFailed

(* An insertion respects the unique index on (kind, subject). *)
LEMMA SubjectsInserted ==
    ASSUME IncidentSubjectFailed, FailedKept, NEW i,
           incidents' = incidents \cup {i}, SubjectFailed(i)',
           \A j \in incidents : ~(j.kind = i.kind /\ j.subject = i.subject)
    PROVE  IncidentSubjectFailed'
<1>1. \A j \in incidents : SubjectFailed(j)
  BY DEF IncidentSubjectFailed, SubjectFailed
<1>2. \A j \in incidents' : SubjectFailed(j)'
  BY <1>1, SubjectStaysFailed
<1>3. \A j, k \in incidents' :
          j.kind = k.kind /\ j.subject = k.subject => j = k
  BY DEF IncidentSubjectFailed
<1>4. QED
  BY <1>2, <1>3 DEF IncidentSubjectFailed, SubjectFailed

(* Incidents are opened only with the failure of their subject.            *)
LEMMA SubjectsStep ==
    TypeOK /\ IncidentSubjectFailed /\ [Next]_storeVars
        => IncidentSubjectFailed'
<1> SUFFICES ASSUME TypeOK, IncidentSubjectFailed, [Next]_storeVars
             PROVE  IncidentSubjectFailed'
  OBVIOUS
<1>1. FailedKept
  BY FailedStays
<1>2. CASE UNCHANGED incidents
  BY <1>1, <1>2, SubjectsUnchanged
<1>3. ASSUME NEW d \in DeploymentIds, NEW from \in DeploymentState,
             RecoverDeployment(d, from)
      PROVE  IncidentSubjectFailed'
  <2>1. PICK i : i = [kind |-> "deployment", subject |-> d,
                      env |-> deployments[d].env, status |-> Disposition(from)]
    OBVIOUS
  <2>2. incidents' = incidents \cup {i}
    BY <1>3, <2>1, RecoverDeploymentEffect
  <2>3. \A j \in incidents : ~(j.kind = i.kind /\ j.subject = i.subject)
    BY <1>3, <2>1 DEF RecoverDeployment, InsertIncident
  <2>4. "failed" \in DeploymentState
    BY DEF DeploymentState
  <2>5. deployments' = [deployments EXCEPT ![d].state = "failed"]
    BY <1>3 DEF RecoverDeployment
  <2>6. /\ d \in DeploymentIds'
        /\ deployments'[d].state = "failed"
        /\ deployments'[d].env = deployments[d].env
    <3>1. /\ DeploymentIds' = DeploymentIds
          /\ \A c \in DeploymentIds :
                 /\ deployments'[c].env = deployments[c].env
                 /\ deployments'[c].state =
                        IF c = d THEN "failed" ELSE deployments[c].state
      BY <2>4, <2>5, UpdateEffect
    <3>2. QED
      BY <3>1
  <2>7. i.kind = "deployment" /\ i.subject = d /\ i.env = deployments[d].env
    BY <2>1
  <2>8. SubjectFailed(i)'
    BY <2>6, <2>7 DEF SubjectFailed
  <2>9. QED
    BY <1>1, <2>2, <2>3, <2>8, SubjectsInserted
<1>4. ASSUME NEW o \in OperationIds, RecoverOperation(o)
      PROVE  IncidentSubjectFailed'
  <2>1. PICK i : i = [kind |-> "rollback_operation", subject |-> o,
                      env |-> operations[o].env, status |-> "unresolved"]
    OBVIOUS
  <2>2. incidents' = incidents \cup {i}
    BY <1>4, <2>1, RecoverOperationEffect
  <2>3. \A j \in incidents : ~(j.kind = i.kind /\ j.subject = i.subject)
    BY <1>4, <2>1 DEF RecoverOperation, InsertIncident
  <2>4. operations' = [operations EXCEPT ![o].state = "failed"]
    BY <1>4 DEF RecoverOperation
  <2>5. /\ o \in OperationIds'
        /\ operations'[o].state = "failed"
        /\ operations'[o].env = operations[o].env
    <3>1. /\ OperationIds' = OperationIds
          /\ \A p \in OperationIds :
                 /\ operations'[p].env = operations[p].env
                 /\ operations'[p].state =
                        IF p = o THEN "failed" ELSE operations[p].state
      BY <2>4, CloseEffect
    <3>2. QED
      BY <3>1
  <2>6. i.kind = "rollback_operation" /\ i.subject = o
        /\ i.env = operations[o].env
    BY <2>1
  <2>7. SubjectFailed(i)'
    BY <2>5, <2>6 DEF SubjectFailed
  <2>8. QED
    BY <1>1, <2>2, <2>3, <2>7, SubjectsInserted
<1>5. ASSUME NEW i \in incidents, Acknowledge(i) PROVE IncidentSubjectFailed'
  <2> DEFINE j == [i EXCEPT !.status = "acknowledged"]
  <2>1. /\ incidents' = (incidents \ {i}) \cup {j}
        /\ j.kind = i.kind /\ j.subject = i.subject /\ j.env = i.env
    BY <1>5, AcknowledgeEffect
  <2>2. /\ UNCHANGED <<deployments, operations>>
        /\ \A k \in incidents : SubjectFailed(k)
    BY <1>5 DEF Acknowledge, IncidentSubjectFailed, SubjectFailed
  <2> HIDE DEF j
  <2>3. \A k \in incidents' : SubjectFailed(k)
    BY <2>1, <2>2 DEF SubjectFailed
  <2>4. \A k, l \in incidents' :
            k.kind = l.kind /\ k.subject = l.subject => k = l
    BY <2>1 DEF IncidentSubjectFailed
  <2>5. QED
    BY <2>2, <2>3, <2>4 DEF IncidentSubjectFailed, SubjectFailed,
                            DeploymentIds, OperationIds
<1>6. QED
  BY <1>2, <1>3, <1>4, <1>5
  DEF Next, storeVars, Reserve, Transition, StartStep, FinishStep,
      RecordReference, BeginOperation, FinishOperation, Prune

(* Every incident is about a record of its environment that is and stays   *)
(* failed, and no record has two incidents.                                *)
THEOREM IncidentsCorrect == Spec => []IncidentSubjectFailed
<1>1. Init => TypeOK /\ IncidentSubjectFailed
  BY TypeInit DEF Init, IncidentSubjectFailed
<1>2. TypeOK /\ IncidentSubjectFailed /\ [Next]_storeVars
        => (TypeOK /\ IncidentSubjectFailed)'
  BY TypeStep, SubjectsStep
<1>3. QED
  BY <1>1, <1>2, PTL DEF Spec

(* Startup recovery never meets a constraint it would violate, so it never *)
(* keeps the binary from starting.                                         *)
THEOREM RecoveryCorrect == Spec => []RecoveryNeverBlocked
<1>1. TypeOK /\ GuardExclusive /\ IncidentSubjectFailed => RecoveryNeverBlocked
  <2> SUFFICES ASSUME TypeOK, GuardExclusive, IncidentSubjectFailed
               PROVE  RecoveryNeverBlocked
    OBVIOUS
  <2>1. \A d \in DeploymentIds :
            deployments[d].state \in NonTerminal =>
                /\ ~\E i \in incidents : i.kind = "deployment" /\ i.subject = d
                /\ ~Quarantined(deployments[d].env)
    <3> SUFFICES ASSUME NEW d \in DeploymentIds,
                        deployments[d].state \in NonTerminal
                 PROVE  /\ \A i \in incidents :
                               ~(i.kind = "deployment" /\ i.subject = d)
                        /\ ~Quarantined(deployments[d].env)
      OBVIOUS
    <3>1. deployments[d].state # "failed"
      BY DEF NonTerminal, Terminal
    <3>2. DeploymentActive(deployments[d].env)
          /\ deployments[d].env \in Environments
      BY Rows DEF DeploymentActive
    <3>3. QED
      BY <3>1, <3>2 DEF IncidentSubjectFailed, GuardExclusive, HoldersExclude
  <2>2. \A o \in OperationIds :
            operations[o].state = "started" =>
                /\ ~\E i \in incidents :
                       i.kind = "rollback_operation" /\ i.subject = o
                /\ ~Quarantined(operations[o].env)
    <3> SUFFICES ASSUME NEW o \in OperationIds, operations[o].state = "started"
                 PROVE  /\ \A i \in incidents :
                               ~(i.kind = "rollback_operation" /\ i.subject = o)
                        /\ ~Quarantined(operations[o].env)
      OBVIOUS
    <3>1. RollbackStarted(operations[o].env) /\ operations[o].env \in Environments
      BY Rows DEF RollbackStarted
    <3>2. QED
      BY <3>1 DEF IncidentSubjectFailed, GuardExclusive, HoldersExclude
  <2>3. QED
    BY <2>1, <2>2 DEF RecoveryNeverBlocked
<1>2. QED
  BY <1>1, TypeCorrect, GuardCorrect, IncidentsCorrect, PTL
-----------------------------------------------------------------------------
(* What HistoryKept says of each table.                                    *)
DeploymentsKept ==
    \A d \in DeploymentIds :
        deployments[d].state \in Terminal => deployments'[d] = deployments[d]
ReferencesKept ==
    \A d \in DeploymentIds :
        /\ references[d] \in {"superseded", "consumed"}
               => references'[d] = references[d]
        /\ references[d] = "active" => references'[d] # "none"
OperationsKept ==
    \A o \in OperationIds :
        operations[o].state # "started" => operations'[o] = operations[o]
IncidentsKept ==
    \A i \in incidents : i.status # "unresolved" => i \in incidents'

(* HistoryKept, table by table.                                            *)
LEMMA HistoryOfTables ==
    ASSUME DeploymentsKept, ReferencesKept, OperationsKept, IncidentsKept
    PROVE  HistoryKept
BY DEF DeploymentsKept, ReferencesKept, OperationsKept, IncidentsKept,
       HistoryKept

(* A table a step leaves alone is kept.                                    *)
LEMMA UntouchedTablesKept ==
    /\ UNCHANGED deployments => DeploymentsKept
    /\ UNCHANGED references => ReferencesKept
    /\ UNCHANGED operations => OperationsKept
    /\ UNCHANGED incidents => IncidentsKept
BY DEF DeploymentsKept, ReferencesKept, OperationsKept, IncidentsKept

(* Every step of the store keeps the history.                              *)
LEMMA HistoryStep == TypeOK /\ [Next]_storeVars => HistoryKept
<1> SUFFICES ASSUME TypeOK, [Next]_storeVars PROVE HistoryKept
  OBVIOUS
<1>1. ASSUME NEW req \in Request, Reserve(req) PROVE HistoryKept
  <2>1. UNCHANGED <<operations, incidents>>
    BY <1>1 DEF Reserve
  <2>2. DeploymentsKept /\ ReferencesKept
    BY <1>1, ReserveEffect DEF DeploymentsKept, ReferencesKept
  <2>3. QED
    BY <2>1, <2>2, HistoryOfTables, UntouchedTablesKept
<1>2. ASSUME NEW d \in DeploymentIds, NEW from \in DeploymentState,
             NEW to \in DeploymentState, Transition(d, from, to)
      PROVE  HistoryKept
  <2>1. UNCHANGED <<references, operations, incidents>>
    BY <1>2 DEF Transition
  <2>2. deployments[d].state \notin Terminal
    BY <1>2, TransitionEffect DEF NonTerminal
  <2>3. DeploymentsKept
    BY <1>2, <2>2, UpdateEffect DEF DeploymentsKept, Transition
  <2>4. QED
    BY <2>1, <2>3, HistoryOfTables, UntouchedTablesKept
<1>3. ASSUME NEW d \in DeploymentIds, StartStep(d) \/ FinishStep(d)
      PROVE  HistoryKept
  BY <1>3, HistoryOfTables, UntouchedTablesKept DEF StartStep, FinishStep
<1>4. ASSUME NEW d \in DeploymentIds, RecordReference(d) PROVE HistoryKept
  <2>1. /\ UNCHANGED <<deployments, operations, incidents>>
        /\ references[d] \in {"none", "active"}
    BY <1>4 DEF RecordReference
  <2>2. ReferencesKept
    BY <1>4, <2>1, RecordEffect DEF ReferencesKept
  <2>3. QED
    BY <2>1, <2>2, HistoryOfTables, UntouchedTablesKept
<1>5. ASSUME NEW d \in DeploymentIds, BeginOperation(d) PROVE HistoryKept
  <2>1. UNCHANGED <<deployments, references, incidents>>
    BY <1>5 DEF BeginOperation
  <2>2. OperationsKept
    BY <1>5, BeginEffect DEF OperationsKept
  <2>3. QED
    BY <2>1, <2>2, HistoryOfTables, UntouchedTablesKept
<1>6. ASSUME NEW o \in OperationIds, NEW s \in {"succeeded", "failed"},
             FinishOperation(o, s)
      PROVE  HistoryKept
  <2>1. /\ UNCHANGED <<deployments, incidents>>
        /\ operations[o].state = "started"
        /\ s = "succeeded" => references[operations[o].source] = "active"
    BY <1>6 DEF FinishOperation
  <2>2. OperationsKept
    BY <1>6, <2>1, CloseEffect DEF OperationsKept, FinishOperation
  <2>3. ReferencesKept
    BY <1>6, <2>1, FinishEffect DEF ReferencesKept
  <2>4. QED
    BY <2>1, <2>2, <2>3, HistoryOfTables, UntouchedTablesKept
<1>7. ASSUME NEW batch \in SUBSET Prunable, Prune(batch) PROVE HistoryKept
  BY <1>7, HistoryOfTables, UntouchedTablesKept DEF Prune
<1>8. ASSUME NEW d \in DeploymentIds, NEW from \in DeploymentState,
             RecoverDeployment(d, from)
      PROVE  HistoryKept
  <2>1. /\ UNCHANGED <<references, operations>>
        /\ deployments' = [deployments EXCEPT ![d].state = "failed"]
    BY <1>8 DEF RecoverDeployment
  <2>2. /\ deployments[d].state \notin Terminal
        /\ incidents \subseteq incidents'
    BY <1>8, RecoverDeploymentEffect DEF NonTerminal
  <2>3. "failed" \in DeploymentState
    BY DEF DeploymentState
  <2>4. DeploymentsKept /\ IncidentsKept
    BY <2>1, <2>2, <2>3, UpdateEffect DEF DeploymentsKept, IncidentsKept
  <2>5. QED
    BY <2>1, <2>4, HistoryOfTables, UntouchedTablesKept
<1>9. ASSUME NEW o \in OperationIds, RecoverOperation(o) PROVE HistoryKept
  <2>1. /\ UNCHANGED <<deployments, references>>
        /\ operations[o].state = "started"
        /\ operations' = [operations EXCEPT ![o].state = "failed"]
    BY <1>9 DEF RecoverOperation
  <2>2. incidents \subseteq incidents'
    BY <1>9, RecoverOperationEffect
  <2>3. OperationsKept /\ IncidentsKept
    BY <2>1, <2>2, CloseEffect DEF OperationsKept, IncidentsKept
  <2>4. QED
    BY <2>1, <2>3, HistoryOfTables, UntouchedTablesKept
<1>10. ASSUME NEW i \in incidents, Acknowledge(i) PROVE HistoryKept
  <2>1. UNCHANGED <<deployments, references, operations>> /\ IncidentsKept
    BY <1>10 DEF Acknowledge, IncidentsKept
  <2>2. QED
    BY <2>1, HistoryOfTables, UntouchedTablesKept
<1>11. CASE UNCHANGED storeVars
  BY <1>11, HistoryOfTables, UntouchedTablesKept DEF storeVars
<1>12. QED
  BY <1>1, <1>2, <1>3, <1>4, <1>5, <1>6, <1>7, <1>8, <1>9, <1>10, <1>11
  DEF Next

(* No step changes a decided deployment, a finished rollback or a resolved *)
(* incident, or makes a spent reference active again.                      *)
THEOREM HistoryCorrect == Spec => HistoryIsFinal
<1>1. TypeOK /\ [Next]_storeVars => [HistoryKept]_storeVars
  BY HistoryStep
<1>2. QED
  BY <1>1, TypeCorrect, PTL DEF Spec, HistoryIsFinal
-----------------------------------------------------------------------------
(* What the store keeps for a client that remembers a record.              *)

(* Records stay, with their identity, and a deployment never goes back to  *)
(* where no side effect can have begun.                                    *)
Preparing == {"created", "prechecking"}

RecordsKept ==
    /\ DeploymentIds \subseteq DeploymentIds'
    /\ \A d \in DeploymentIds :
           /\ deployments'[d].env = deployments[d].env
           /\ deployments'[d].release = deployments[d].release
           /\ deployments[d].state \notin Preparing
                  => deployments'[d].state \notin Preparing
    /\ OperationIds \subseteq OperationIds'
    /\ \A o \in OperationIds :
           /\ operations'[o].env = operations[o].env
           /\ operations'[o].source = operations[o].source

(* A step that changes neither deployments nor operations keeps the        *)
(* records.                                                                *)
LEMMA RecordsUntouched ==
    ASSUME UNCHANGED <<deployments, operations>> PROVE RecordsKept
BY DEF RecordsKept, DeploymentIds, OperationIds

(* No step of the store deletes a record.                                  *)
LEMMA RecordsStay == TypeOK /\ [Next]_storeVars => RecordsKept
<1> SUFFICES ASSUME TypeOK, [Next]_storeVars PROVE RecordsKept
  OBVIOUS
<1>1. ASSUME NEW req \in Request, Reserve(req) PROVE RecordsKept
  <2>1. UNCHANGED operations
    BY <1>1 DEF Reserve
  <2>2. QED
    BY <1>1, <2>1, ReserveEffect DEF RecordsKept, OperationIds
<1>2. ASSUME NEW d \in DeploymentIds, NEW s \in DeploymentState \ Preparing,
             deployments' = [deployments EXCEPT ![d].state = s],
             OperationIds' = OperationIds,
             \A o \in OperationIds :
                 /\ operations'[o].env = operations[o].env
                 /\ operations'[o].source = operations[o].source
      PROVE  RecordsKept
  <2>1. s \in DeploymentState
    BY <1>2
  <2>2. /\ DeploymentIds' = DeploymentIds
        /\ \A c \in DeploymentIds :
               /\ deployments'[c].env = deployments[c].env
               /\ deployments'[c].release = deployments[c].release
               /\ deployments'[c].state =
                      IF c = d THEN s ELSE deployments[c].state
    BY <1>2, <2>1, UpdateEffect
  <2>3. QED
    BY <1>2, <2>2 DEF RecordsKept
<1>3. ASSUME NEW d \in DeploymentIds, NEW from \in DeploymentState,
             NEW to \in DeploymentState, Transition(d, from, to)
      PROVE  RecordsKept
  <2>1. UNCHANGED operations
        /\ deployments' = [deployments EXCEPT ![d].state = to]
        /\ deployments[d].state = from /\ <<from, to>> \in CanTransition
    BY <1>3 DEF Transition, StateIs
  <2>2. CASE to \notin Preparing
    BY <1>2, <2>1, <2>2 DEF OperationIds
  <2>3. CASE to \in Preparing
    <3>1. from = "created"
      BY <2>1, <2>3 DEF CanTransition, Preparing
    <3>2. /\ DeploymentIds' = DeploymentIds
          /\ \A c \in DeploymentIds :
                 /\ deployments'[c].env = deployments[c].env
                 /\ deployments'[c].release = deployments[c].release
                 /\ deployments'[c].state =
                        IF c = d THEN to ELSE deployments[c].state
      BY <2>1, UpdateEffect
    <3>3. QED
      BY <2>1, <3>1, <3>2 DEF RecordsKept, Preparing, OperationIds
  <2>4. QED
    BY <2>2, <2>3
<1>4. ASSUME NEW d \in DeploymentIds, BeginOperation(d) PROVE RecordsKept
  <2>1. UNCHANGED deployments
    BY <1>4 DEF BeginOperation
  <2>2. QED
    BY <1>4, <2>1, BeginEffect DEF RecordsKept, DeploymentIds
<1>5. ASSUME NEW o \in OperationIds, NEW s \in {"succeeded", "failed"},
             operations' = [operations EXCEPT ![o].state = s],
             UNCHANGED deployments
      PROVE  RecordsKept
  BY <1>5, CloseEffect DEF RecordsKept, DeploymentIds
<1>6. ASSUME NEW d \in DeploymentIds, NEW from \in DeploymentState,
             RecoverDeployment(d, from)
      PROVE  RecordsKept
  <2>1. "failed" \in DeploymentState \ Preparing
    BY DEF DeploymentState, Preparing
  <2>2. QED
    BY <1>2, <1>6, <2>1 DEF RecoverDeployment, OperationIds
<1>7. QED
  BY <1>1, <1>3, <1>4, <1>5, <1>6, RecordsUntouched
  DEF Next, storeVars, StartStep, FinishStep, RecordReference,
      FinishOperation, Prune, RecoverOperation, Acknowledge

(* Deployment d has come to where it may change its target, and was not    *)
(* discarded before.                                                       *)
Past(d) ==
    /\ d \in DeploymentIds
    /\ deployments[d].state \notin Preparing
    /\ \A i \in incidents :
           i.kind = "deployment" /\ i.subject = d => i.status # "auto_resolved"

(* Recovery discards deployments only.                                     *)
OperationsQuarantined ==
    \A i \in incidents :
        i.kind = "rollback_operation" => i.status # "auto_resolved"

(* What recovery has passed stays passed, whatever else runs.              *)
LEMMA PastStep ==
    TypeOK /\ [Next]_storeVars =>
        /\ \A d : Past(d) => Past(d)'
        /\ OperationsQuarantined => OperationsQuarantined'
<1> SUFFICES ASSUME TypeOK, [Next]_storeVars
             PROVE  /\ \A d : Past(d) => Past(d)'
                    /\ OperationsQuarantined => OperationsQuarantined'
  OBVIOUS
<1>1. RecordsKept
  BY RecordsStay
<1>2. CASE UNCHANGED incidents
  BY <1>1, <1>2 DEF Past, OperationsQuarantined, RecordsKept
<1>3. ASSUME NEW d \in DeploymentIds, NEW from \in DeploymentState,
             RecoverDeployment(d, from)
      PROVE  /\ \A c : Past(c) => Past(c)'
             /\ OperationsQuarantined => OperationsQuarantined'
  <2>1. PICK i : i = [kind |-> "deployment", subject |-> d,
                      env |-> deployments[d].env, status |-> Disposition(from)]
    OBVIOUS
  <2>2. /\ incidents' = incidents \cup {i}
        /\ deployments[d].state = from /\ from \in NonTerminal
    BY <1>3, <2>1, RecoverDeploymentEffect
  <2>3. i.kind = "deployment" /\ i.subject = d /\ i.status = Disposition(from)
    BY <2>1
  <2>4. from \notin Preparing => Disposition(from) = "unresolved"
    BY <2>2 DEF Preparing, Disposition, NonTerminal, DeploymentState, Terminal,
                HasLiveMutationStarted
  <2>5. QED
    BY <1>1, <2>2, <2>3, <2>4 DEF Past, OperationsQuarantined, RecordsKept
<1>4. ASSUME NEW o \in OperationIds, RecoverOperation(o)
      PROVE  /\ \A c : Past(c) => Past(c)'
             /\ OperationsQuarantined => OperationsQuarantined'
  <2>1. PICK i : i = [kind |-> "rollback_operation", subject |-> o,
                      env |-> operations[o].env, status |-> "unresolved"]
    OBVIOUS
  <2>2. incidents' = incidents \cup {i}
    BY <1>4, <2>1, RecoverOperationEffect
  <2>3. i.kind = "rollback_operation" /\ i.status = "unresolved"
    BY <2>1
  <2>4. QED
    BY <1>1, <2>2, <2>3 DEF Past, OperationsQuarantined, RecordsKept
<1>5. ASSUME NEW i \in incidents, Acknowledge(i)
      PROVE  /\ \A c : Past(c) => Past(c)'
             /\ OperationsQuarantined => OperationsQuarantined'
  <2>1. PICK j : j = [i EXCEPT !.status = "acknowledged"]
    OBVIOUS
  <2>2. /\ incidents' = (incidents \ {i}) \cup {j}
        /\ j.status = "acknowledged"
    BY <1>5, <2>1, AcknowledgeEffect
  <2>3. QED
    BY <1>1, <2>2 DEF Past, OperationsQuarantined, RecordsKept
<1>6. QED
  BY <1>2, <1>3, <1>4, <1>5
  DEF Next, storeVars, Reserve, Transition, StartStep, FinishStep,
      RecordReference, BeginOperation, FinishOperation, Prune
-----------------------------------------------------------------------------
(* The store implements MutationGuard.                                     *)
(*                                                                         *)
(* A mutation's fate is read from its incident when it has one, and from   *)
(* its row when it has none.                                               *)

FateAfter(status) ==
    CASE status = "auto_resolved" -> "discarded"
      [] status = "unresolved"    -> "quarantined"
      [] status = "acknowledged"  -> "reconciled"

Phase(state) ==
    CASE state \in Terminal  -> "decided"
      [] state \in Preparing -> "preparing"
      [] OTHER               -> "mutating"

D(d) == <<"deployment", d>>
O(o) == <<"rollback_operation", o>>

(* The incident a fate is read from is the only one of its subject.        *)
LEMMA FateOfIncident ==
    ASSUME IncidentSubjectFailed, NEW i \in incidents,
           NEW kind, NEW subject, i.kind = kind, i.subject = subject
    PROVE  HasIncident(kind, subject) /\ IncidentFate(kind, subject) = FateAfter(i.status)
<1> DEFINE j == CHOOSE j \in incidents : j.kind = kind /\ j.subject = subject
<1>1. j \in incidents /\ j.kind = kind /\ j.subject = subject
  OBVIOUS
<1>2. j = i
  BY <1>1 DEF IncidentSubjectFailed
<1>3. QED
  BY <1>2 DEF HasIncident, IncidentFate, FateAfter

(* The home and the fate of every deployment.                              *)
FatesOfDeployments ==
    /\ \A d \in DeploymentIds :
           /\ HomeOf(D(d)) = deployments[d].env
           /\ \A i \in incidents :
                  i.kind = "deployment" /\ i.subject = d
                      => FateOf(D(d)) = FateAfter(i.status)
           /\ ~HasIncident("deployment", d)
                  => FateOf(D(d)) = Phase(deployments[d].state)
    /\ \A d : d \notin DeploymentIds =>
           /\ HomeOf(D(d)) = NoEnvironment
           /\ FateOf(D(d)) = "unused"
           /\ ~HasIncident("deployment", d)

(* The home and the fate of every rollback operation.                      *)
FatesOfOperations ==
    /\ \A o \in OperationIds :
           /\ HomeOf(O(o)) = operations[o].env
           /\ \A i \in incidents :
                  i.kind = "rollback_operation" /\ i.subject = o
                      => FateOf(O(o)) = FateAfter(i.status)
           /\ ~HasIncident("rollback_operation", o)
                  => FateOf(O(o)) = IF operations[o].state = "started"
                                    THEN "mutating" ELSE "decided"
    /\ \A o : o \notin OperationIds =>
           /\ HomeOf(O(o)) = NoEnvironment
           /\ FateOf(O(o)) = "unused"
           /\ ~HasIncident("rollback_operation", o)

(* What the tables say of a deployment is exactly one fate of the guard.   *)
LEMMA DeploymentFates == TypeOK /\ IncidentSubjectFailed => FatesOfDeployments
<1> SUFFICES ASSUME TypeOK, IncidentSubjectFailed PROVE FatesOfDeployments
  OBVIOUS
<1>1. ASSUME NEW d \in DeploymentIds PROVE HomeOf(D(d)) = deployments[d].env
  BY <1>1 DEF HomeOf, D
<1>2. ASSUME NEW d \in DeploymentIds, NEW i \in incidents,
             i.kind = "deployment", i.subject = d
      PROVE  FateOf(D(d)) = FateAfter(i.status)
  <2>1. HasIncident("deployment", d)
        /\ IncidentFate("deployment", d) = FateAfter(i.status)
    BY <1>2, FateOfIncident
  <2>2. QED
    BY <2>1 DEF FateOf, D
<1>3. ASSUME NEW d \in DeploymentIds, ~HasIncident("deployment", d)
      PROVE  FateOf(D(d)) = Phase(deployments[d].state)
  BY <1>3 DEF FateOf, D, Phase, Preparing, Terminal
<1>4. ASSUME NEW d, d \notin DeploymentIds
      PROVE  /\ HomeOf(D(d)) = NoEnvironment
             /\ FateOf(D(d)) = "unused"
             /\ ~HasIncident("deployment", d)
  <2>1. HomeOf(D(d)) = NoEnvironment /\ FateOf(D(d)) = "unused"
    BY <1>4 DEF HomeOf, FateOf, D
  <2>2. ~HasIncident("deployment", d)
    BY <1>4 DEF IncidentSubjectFailed, HasIncident
  <2>3. QED
    BY <2>1, <2>2
<1>5. QED
  BY <1>1, <1>2, <1>3, <1>4 DEF FatesOfDeployments

(* What the tables say of a rollback is exactly one fate of the guard.     *)
LEMMA OperationFates == TypeOK /\ IncidentSubjectFailed => FatesOfOperations
<1> SUFFICES ASSUME TypeOK, IncidentSubjectFailed PROVE FatesOfOperations
  OBVIOUS
<1>1. ASSUME NEW o \in OperationIds PROVE HomeOf(O(o)) = operations[o].env
  BY <1>1 DEF HomeOf, O
<1>2. ASSUME NEW o \in OperationIds, NEW i \in incidents,
             i.kind = "rollback_operation", i.subject = o
      PROVE  FateOf(O(o)) = FateAfter(i.status)
  <2>1. HasIncident("rollback_operation", o)
        /\ IncidentFate("rollback_operation", o) = FateAfter(i.status)
    BY <1>2, FateOfIncident
  <2>2. QED
    BY <2>1 DEF FateOf, O
<1>3. ASSUME NEW o \in OperationIds, ~HasIncident("rollback_operation", o)
      PROVE  FateOf(O(o)) = IF operations[o].state = "started"
                            THEN "mutating" ELSE "decided"
  BY <1>3 DEF FateOf, O
<1>4. ASSUME NEW o, o \notin OperationIds
      PROVE  /\ HomeOf(O(o)) = NoEnvironment
             /\ FateOf(O(o)) = "unused"
             /\ ~HasIncident("rollback_operation", o)
  <2>1. HomeOf(O(o)) = NoEnvironment /\ FateOf(O(o)) = "unused"
    BY <1>4 DEF HomeOf, FateOf, O
  <2>2. ~HasIncident("rollback_operation", o)
    BY <1>4 DEF IncidentSubjectFailed, HasIncident
  <2>3. QED
    BY <2>1, <2>2
<1>5. QED
  BY <1>1, <1>2, <1>3, <1>4 DEF FatesOfOperations

(* The same, read in the state after a step. *)
LEMMA FatesAfter ==
    (TypeOK /\ IncidentSubjectFailed)' => (FatesOfDeployments /\ FatesOfOperations)'
BY DeploymentFates, OperationFates, PTL

(* A record whose row and incidents a step leaves alone keeps home and     *)
(* fate, and so does one that is in no table before or after.              *)
DeploymentLeft(d) ==
    /\ d \in DeploymentIds <=> d \in DeploymentIds'
    /\ d \in DeploymentIds => deployments'[d] = deployments[d]
    /\ \A i : i.kind = "deployment" /\ i.subject = d
           => (i \in incidents <=> i \in incidents')

OperationLeft(o) ==
    /\ o \in OperationIds <=> o \in OperationIds'
    /\ o \in OperationIds => operations'[o] = operations[o]
    /\ \A i : i.kind = "rollback_operation" /\ i.subject = o
           => (i \in incidents <=> i \in incidents')

(* A record whose row and incidents are left keeps its environment and its *)
(* fate.                                                                   *)
LEMMA FatesLeft ==
    TypeOK /\ IncidentSubjectFailed /\ (TypeOK /\ IncidentSubjectFailed)' =>
        /\ \A d : DeploymentLeft(d) =>
               HomeOf(D(d))' = HomeOf(D(d)) /\ FateOf(D(d))' = FateOf(D(d))
        /\ \A o : OperationLeft(o) =>
               HomeOf(O(o))' = HomeOf(O(o)) /\ FateOf(O(o))' = FateOf(O(o))
<1> SUFFICES ASSUME FatesOfDeployments, FatesOfOperations,
                    FatesOfDeployments', FatesOfOperations'
    PROVE /\ \A d : DeploymentLeft(d) =>
               HomeOf(D(d))' = HomeOf(D(d)) /\ FateOf(D(d))' = FateOf(D(d))
          /\ \A o : OperationLeft(o) =>
               HomeOf(O(o))' = HomeOf(O(o)) /\ FateOf(O(o))' = FateOf(O(o))
  BY DeploymentFates, OperationFates, FatesAfter
<1>3. ASSUME NEW d, DeploymentLeft(d)
      PROVE  HomeOf(D(d))' = HomeOf(D(d)) /\ FateOf(D(d))' = FateOf(D(d))
  BY <1>3 DEF DeploymentLeft, FatesOfDeployments, HasIncident
<1>4. ASSUME NEW o, OperationLeft(o)
      PROVE  HomeOf(O(o))' = HomeOf(O(o)) /\ FateOf(O(o))' = FateOf(O(o))
  BY <1>4 DEF OperationLeft, FatesOfOperations, HasIncident
<1>5. QED
  BY <1>3, <1>4

(* An environment is held in the abstract guard only if a row or an        *)
(* incident holds it in the store.                                         *)
LEMMA HeldInStore ==
    ASSUME TypeOK, IncidentSubjectFailed, NEW e, Guard!Held(e)
    PROVE  DeploymentActive(e) \/ RollbackStarted(e) \/ Quarantined(e)
<1>1. PICK m \in Mutations : HomeOf(m) = e /\ FateOf(m) \in Guard!Holding
  BY DEF Guard!Held
<1>2. CASE \E d : m = D(d)
  <2>1. PICK d : m = D(d)
    BY <1>2
  <2>2. d \in DeploymentIds /\ deployments[d].env = e
    BY <1>1, <2>1, DeploymentFates DEF Guard!Holding, FatesOfDeployments
  <2>3. CASE HasIncident("deployment", d)
    <3>1. PICK i \in incidents : i.kind = "deployment" /\ i.subject = d
      BY <2>3 DEF HasIncident
    <3>2. FateOf(m) = FateAfter(i.status)
      BY <2>1, <2>2, <3>1, DeploymentFates DEF FatesOfDeployments
    <3>3. i.status = "unresolved"
      BY <1>1, <3>1, <3>2, Rows DEF FateAfter, Guard!Holding
    <3>4. i.env = e
      BY <2>2, <3>1 DEF IncidentSubjectFailed
    <3>5. QED
      BY <3>3, <3>4 DEF Quarantined
  <2>4. CASE ~HasIncident("deployment", d)
    <3>1. FateOf(m) = Phase(deployments[d].state)
      BY <2>1, <2>2, <2>4, DeploymentFates DEF FatesOfDeployments
    <3>2. deployments[d].state \in NonTerminal
      BY <1>1, <2>2, <3>1, Rows
      DEF Phase, Guard!Holding, NonTerminal, Terminal, Preparing
    <3>3. QED
      BY <2>2, <3>2 DEF DeploymentActive
  <2>5. QED
    BY <2>3, <2>4
<1>3. CASE \E o : m = O(o)
  <2>1. PICK o : m = O(o)
    BY <1>3
  <2>2. o \in OperationIds /\ operations[o].env = e
    BY <1>1, <2>1, OperationFates DEF Guard!Holding, FatesOfOperations
  <2>3. CASE HasIncident("rollback_operation", o)
    <3>1. PICK i \in incidents : i.kind = "rollback_operation" /\ i.subject = o
      BY <2>3 DEF HasIncident
    <3>2. FateOf(m) = FateAfter(i.status)
      BY <2>1, <2>2, <3>1, OperationFates DEF FatesOfOperations
    <3>3. i.status = "unresolved"
      BY <1>1, <3>1, <3>2, Rows DEF FateAfter, Guard!Holding
    <3>4. i.env = e
      BY <2>2, <3>1 DEF IncidentSubjectFailed
    <3>5. QED
      BY <3>3, <3>4 DEF Quarantined
  <2>4. CASE ~HasIncident("rollback_operation", o)
    <3>1. operations[o].state = "started"
      BY <1>1, <2>1, <2>2, <2>4, OperationFates DEF Guard!Holding, FatesOfOperations
    <3>2. QED
      BY <2>2, <3>1 DEF RollbackStarted
  <2>5. QED
    BY <2>3, <2>4
<1>4. QED
  BY <1>1, <1>2, <1>3 DEF Mutations, D, O

(* The steps of the abstract guard, in terms of the store: only one        *)
(* mutation is touched.                                                    *)
OthersLeft(m) ==
    \A n \in Mutations :
        n # m => HomeOf(n)' = HomeOf(n) /\ FateOf(n)' = FateOf(n)

Advances ==
    {<<"preparing", "mutating">>, <<"preparing", "decided">>,
     <<"preparing", "discarded">>, <<"mutating", "decided">>,
     <<"mutating", "quarantined">>, <<"quarantined", "reconciled">>}

(* A step that moves one mutation along the guard's edges is a step of the *)
(* guard.                                                                  *)
LEMMA GuardAdvances ==
    ASSUME NEW m, OthersLeft(m), HomeOf(m)' = HomeOf(m),
           FateOf(m)' = FateOf(m) \/ <<FateOf(m), FateOf(m)'>> \in Advances
    PROVE  [Guard!Next]_(Guard!guardVars)
<1> DEFINE h == [n \in Mutations |-> HomeOf(n)]
           f == [n \in Mutations |-> FateOf(n)]
<1>1. CASE m \notin Mutations \/ FateOf(m)' = FateOf(m)
  <2>1. \A n \in Mutations : HomeOf(n)' = HomeOf(n) /\ FateOf(n)' = FateOf(n)
    BY <1>1 DEF OthersLeft
  <2>2. h' = h /\ f' = f
    BY <2>1
  <2>3. QED
    BY <2>2 DEF Guard!guardVars
<1>2. CASE m \in Mutations /\ <<FateOf(m), FateOf(m)'>> \in Advances
  <2>1. PICK from, to : from = FateOf(m) /\ to = FateOf(m)'
    OBVIOUS
  <2>2. f[m] = from /\ f' = [f EXCEPT ![m] = to] /\ h' = h
    BY <1>2, <2>1 DEF OthersLeft
  <2>3. Guard!Advance(m, from, to)
    BY <2>2 DEF Guard!Advance
  <2>4. <<from, to>> \in Advances
    BY <1>2, <2>1
  <2>5. QED
    BY <1>2, <2>3, <2>4 DEF Advances, Guard!Next
<1>3. QED
  BY <1>1, <1>2

(* A step that lets an unused mutation into a free environment is a step   *)
(* of the guard.                                                           *)
LEMMA GuardBegins ==
    ASSUME TypeOK, IncidentSubjectFailed,
           NEW m, NEW e \in Environments, OthersLeft(m), FateOf(m) = "unused",
           FateOf(m)' \in {"preparing", "mutating"}, HomeOf(m)' = e,
           ~DeploymentActive(e), ~RollbackStarted(e), ~Quarantined(e)
    PROVE  [Guard!Next]_(Guard!guardVars)
<1> DEFINE h == [n \in Mutations |-> HomeOf(n)]
           f == [n \in Mutations |-> FateOf(n)]
<1>1. CASE m \notin Mutations
  <2>1. \A n \in Mutations : HomeOf(n)' = HomeOf(n) /\ FateOf(n)' = FateOf(n)
    BY <1>1 DEF OthersLeft
  <2>2. h' = h /\ f' = f
    BY <2>1
  <2>3. QED
    BY <2>2 DEF Guard!guardVars
<1>2. CASE m \in Mutations
  <2>1. PICK phase \in {"preparing", "mutating"} : phase = FateOf(m)'
    OBVIOUS
  <2>2. /\ f[m] = "unused"
        /\ f' = [f EXCEPT ![m] = phase]
        /\ h' = [h EXCEPT ![m] = e]
    BY <1>2, <2>1 DEF OthersLeft
  <2>3. ~Guard!Held(e)
    BY HeldInStore
  <2>4. Guard!Begin(m, e, phase)
    BY <2>2, <2>3 DEF Guard!Begin
  <2>5. QED
    BY <1>2, <2>4 DEF Guard!Next
<1>3. QED
  BY <1>1, <1>2

(* What a step that touches one record leaves alone: every other one.      *)
LEMMA LeftByDeployment ==
    ASSUME TypeOK, IncidentSubjectFailed, TypeOK', IncidentSubjectFailed', NEW d,
           \A c : c # d => DeploymentLeft(c), \A o : OperationLeft(o)
    PROVE  OthersLeft(D(d))
BY FatesLeft DEF OthersLeft, Mutations, D, O

(* A step that touches one rollback only leaves every other mutation.      *)
LEMMA LeftByOperation ==
    ASSUME TypeOK, IncidentSubjectFailed, TypeOK', IncidentSubjectFailed', NEW o,
           \A d : DeploymentLeft(d), \A p : p # o => OperationLeft(p)
    PROVE  OthersLeft(O(o))
BY FatesLeft DEF OthersLeft, Mutations, D, O

(* The abstract guard sees nothing of attempts, references and retention.  *)
LEMMA GuardStutters ==
    ASSUME UNCHANGED <<deployments, operations, incidents>>
    PROVE  UNCHANGED Guard!guardVars
<1>1. \A m \in Mutations : HomeOf(m)' = HomeOf(m) /\ FateOf(m)' = FateOf(m)
  BY DEF HomeOf, FateOf, HasIncident, IncidentFate, DeploymentIds, OperationIds
<1>2. QED
  BY <1>1 DEF Guard!guardVars

(* A reservation is the guard's Begin of a deployment.                     *)
LEMMA GuardOfReserve ==
    ASSUME TypeOK, IncidentSubjectFailed, TypeOK', IncidentSubjectFailed',
           NEW req \in Request, Reserve(req)
    PROVE  [Guard!Next]_(Guard!guardVars)
<1>1. PICK n : n = Len(deployments) + 1
  OBVIOUS
<1>2. /\ UNCHANGED <<operations, incidents>>
      /\ MayInsertDeployment(req.env)
      /\ req.env \in Environments
  BY DEF Reserve, MayReserve, Request
<1>3. /\ n \notin DeploymentIds
      /\ DeploymentIds' = DeploymentIds \cup {n}
      /\ \A d \in DeploymentIds : deployments'[d] = deployments[d]
      /\ deployments'[n].env = req.env
      /\ deployments'[n].state = "created"
  BY <1>1, ReserveEffect
<1>4. OthersLeft(D(n))
  <2>1. \A c : c # n => DeploymentLeft(c)
    BY <1>2, <1>3 DEF DeploymentLeft
  <2>2. \A o : OperationLeft(o)
    BY <1>2 DEF OperationLeft, OperationIds
  <2>3. QED
    BY <2>1, <2>2, LeftByDeployment
<1>5. FateOf(D(n)) = "unused" /\ ~HasIncident("deployment", n)
  BY <1>3, DeploymentFates DEF FatesOfDeployments
<1>6. HomeOf(D(n))' = req.env /\ FateOf(D(n))' = Phase("created")
  <2>1. ~HasIncident("deployment", n)' /\ n \in DeploymentIds'
    BY <1>2, <1>3, <1>5 DEF HasIncident
  <2>2. /\ HomeOf(D(n))' = deployments'[n].env
        /\ FateOf(D(n))' = Phase(deployments'[n].state)
    BY <2>1, FatesAfter DEF FatesOfDeployments
  <2>3. QED
    BY <1>3, <2>2
<1>7. Phase("created") = "preparing"
  BY DEF Phase, Terminal, Preparing
<1>8. QED
  BY <1>2, <1>4, <1>5, <1>6, <1>7, GuardBegins DEF MayInsertDeployment

(* A transition is a step of its deployment under the guard, or a stutter. *)
LEMMA GuardOfTransition ==
    ASSUME TypeOK, IncidentSubjectFailed, TypeOK', IncidentSubjectFailed',
           NEW d \in DeploymentIds, NEW from \in DeploymentState,
           NEW to \in DeploymentState, Transition(d, from, to)
    PROVE  [Guard!Next]_(Guard!guardVars)
<1>1. /\ UNCHANGED <<operations, incidents>>
      /\ <<from, to>> \in CanTransition
      /\ deployments[d].state = from
      /\ deployments' = [deployments EXCEPT ![d].state = to]
  BY DEF Transition, StateIs
<1>2. /\ DeploymentIds' = DeploymentIds
      /\ \A c \in DeploymentIds :
             /\ deployments'[c].env = deployments[c].env
             /\ deployments'[c].state =
                    IF c = d THEN to ELSE deployments[c].state
             /\ c # d => deployments'[c] = deployments[c]
  BY <1>1, UpdateEffect
<1>3. OthersLeft(D(d))
  <2>1. \A c : c # d => DeploymentLeft(c)
    BY <1>1, <1>2 DEF DeploymentLeft
  <2>2. \A o : OperationLeft(o)
    BY <1>1 DEF OperationLeft, OperationIds
  <2>3. QED
    BY <2>1, <2>2, LeftByDeployment
<1>4. ~HasIncident("deployment", d)
  BY <1>1 DEF IncidentSubjectFailed, HasIncident, CanTransition
<1>5. /\ HomeOf(D(d)) = deployments[d].env
      /\ FateOf(D(d)) = Phase(from)
  BY <1>1, <1>4, DeploymentFates DEF FatesOfDeployments
<1>6. /\ HomeOf(D(d))' = deployments[d].env
      /\ FateOf(D(d))' = Phase(to)
  <2>1. ~HasIncident("deployment", d)' /\ d \in DeploymentIds'
    BY <1>1, <1>2, <1>4 DEF HasIncident
  <2>2. /\ HomeOf(D(d))' = deployments'[d].env
        /\ FateOf(D(d))' = Phase(deployments'[d].state)
    BY <2>1, FatesAfter DEF FatesOfDeployments
  <2>3. QED
    BY <1>2, <2>2
<1>7. Phase(to) = Phase(from) \/ <<Phase(from), Phase(to)>> \in Advances
  <2>1. \/ from = "created" /\ to = "prechecking"
        \/ from = "prechecking" /\ to \in {"staging_artifact", "failed"}
        \/ from \notin Terminal \cup Preparing /\ to \notin Preparing
    BY <1>1 DEF CanTransition, Terminal, Preparing
  <2>2. QED
    BY <2>1 DEF Phase, Advances, Terminal, Preparing
<1>8. QED
  BY <1>3, <1>5, <1>6, <1>7, GuardAdvances

(* BeginOperation is the guard's Begin of a rollback.                      *)
LEMMA GuardOfBegin ==
    ASSUME TypeOK, IncidentSubjectFailed, TypeOK', IncidentSubjectFailed',
           NEW d \in DeploymentIds, BeginOperation(d)
    PROVE  [Guard!Next]_(Guard!guardVars)
<1>1. PICK n : n = Len(operations) + 1
  OBVIOUS
<1>2. PICK e : e = deployments[d].env
  OBVIOUS
<1>3. /\ UNCHANGED <<deployments, incidents>>
      /\ MayInsertOperation(e)
      /\ e \in Environments
  BY <1>2, Rows DEF BeginOperation
<1>4. /\ n \notin OperationIds
      /\ OperationIds' = OperationIds \cup {n}
      /\ \A o \in OperationIds : operations'[o] = operations[o]
      /\ operations'[n].env = e
      /\ operations'[n].state = "started"
  BY <1>1, <1>2, BeginEffect
<1>5. OthersLeft(O(n))
  <2>1. \A o : o # n => OperationLeft(o)
    BY <1>3, <1>4 DEF OperationLeft
  <2>2. \A c : DeploymentLeft(c)
    BY <1>3 DEF DeploymentLeft, DeploymentIds
  <2>3. QED
    BY <2>1, <2>2, LeftByOperation
<1>6. FateOf(O(n)) = "unused" /\ ~HasIncident("rollback_operation", n)
  BY <1>4, OperationFates DEF FatesOfOperations
<1>7. HomeOf(O(n))' = e /\ FateOf(O(n))' = "mutating"
  <2>1. ~HasIncident("rollback_operation", n)' /\ n \in OperationIds'
    BY <1>3, <1>4, <1>6 DEF HasIncident
  <2>2. QED
    BY <1>4, <2>1, FatesAfter DEF FatesOfOperations
<1>8. QED
  BY <1>3, <1>5, <1>6, <1>7, GuardBegins DEF MayInsertOperation

(* FinishOperation ends its rollback under the guard.                      *)
LEMMA GuardOfFinish ==
    ASSUME TypeOK, IncidentSubjectFailed, TypeOK', IncidentSubjectFailed',
           NEW o \in OperationIds, NEW s \in {"succeeded", "failed"},
           FinishOperation(o, s)
    PROVE  [Guard!Next]_(Guard!guardVars)
<1>1. /\ UNCHANGED <<deployments, incidents>>
      /\ operations[o].state = "started"
      /\ operations' = [operations EXCEPT ![o].state = s]
  BY DEF FinishOperation
<1>2. /\ OperationIds' = OperationIds
      /\ \A p \in OperationIds :
             /\ operations'[p].env = operations[p].env
             /\ operations'[p].state = IF p = o THEN s ELSE operations[p].state
             /\ p # o => operations'[p] = operations[p]
  BY <1>1, CloseEffect
<1>3. OthersLeft(O(o))
  <2>1. \A p : p # o => OperationLeft(p)
    BY <1>1, <1>2 DEF OperationLeft
  <2>2. \A c : DeploymentLeft(c)
    BY <1>1 DEF DeploymentLeft, DeploymentIds
  <2>3. QED
    BY <2>1, <2>2, LeftByOperation
<1>4. ~HasIncident("rollback_operation", o)
  BY <1>1 DEF IncidentSubjectFailed, HasIncident
<1>5. HomeOf(O(o)) = operations[o].env /\ FateOf(O(o)) = "mutating"
  BY <1>1, <1>4, OperationFates DEF FatesOfOperations
<1>6. HomeOf(O(o))' = operations[o].env /\ FateOf(O(o))' = "decided"
  <2>1. ~HasIncident("rollback_operation", o)' /\ o \in OperationIds'
    BY <1>1, <1>2, <1>4 DEF HasIncident
  <2>2. QED
    BY <1>2, <2>1, FatesAfter DEF FatesOfOperations
<1>7. QED
  BY <1>3, <1>5, <1>6, GuardAdvances DEF Advances

(* Recovery of a deployment discards or quarantines it under the guard.    *)
LEMMA GuardOfRecoverDeployment ==
    ASSUME TypeOK, IncidentSubjectFailed, TypeOK', IncidentSubjectFailed',
           NEW d \in DeploymentIds, NEW from \in DeploymentState,
           RecoverDeployment(d, from)
    PROVE  [Guard!Next]_(Guard!guardVars)
<1>1. PICK i : i = [kind |-> "deployment", subject |-> d,
                    env |-> deployments[d].env, status |-> Disposition(from)]
  OBVIOUS
<1>2. /\ i.kind = "deployment" /\ i.subject = d
      /\ i.status = Disposition(from)
  BY <1>1
<1>3. /\ incidents' = incidents \cup {i}
      /\ deployments[d].state = from /\ from \in NonTerminal
  BY <1>1, RecoverDeploymentEffect
<1>4. /\ UNCHANGED operations
      /\ deployments' = [deployments EXCEPT ![d].state = "failed"]
      /\ "failed" \in DeploymentState
  BY DEF RecoverDeployment, DeploymentState
<1>5. /\ DeploymentIds' = DeploymentIds
      /\ \A c \in DeploymentIds :
             /\ deployments'[c].env = deployments[c].env
             /\ deployments'[c].state =
                    IF c = d THEN "failed" ELSE deployments[c].state
             /\ c # d => deployments'[c] = deployments[c]
  BY <1>4, UpdateEffect
<1>6. OthersLeft(D(d))
  <2>1. \A c : c # d => DeploymentLeft(c)
    BY <1>2, <1>3, <1>5 DEF DeploymentLeft
  <2>2. \A o : OperationLeft(o)
    BY <1>2, <1>3, <1>4 DEF OperationLeft, OperationIds
  <2>3. QED
    BY <2>1, <2>2, LeftByDeployment
<1>7. HomeOf(D(d)) = deployments[d].env /\ FateOf(D(d)) = Phase(from)
  <2>1. ~HasIncident("deployment", d)
    BY <1>3 DEF IncidentSubjectFailed, HasIncident, NonTerminal, Terminal
  <2>2. QED
    BY <1>3, <2>1, DeploymentFates DEF FatesOfDeployments
<1>8. /\ HomeOf(D(d))' = deployments[d].env
      /\ FateOf(D(d))' = FateAfter(Disposition(from))
  <2>1. i \in incidents' /\ d \in DeploymentIds'
    BY <1>3, <1>5
  <2>2. QED
    BY <1>2, <1>5, <2>1, FatesAfter DEF FatesOfDeployments
<1>9. <<Phase(from), FateAfter(Disposition(from))>> \in Advances
  <2>1. CASE from \in Preparing
    BY <1>3, <2>1 DEF Phase, FateAfter, Disposition, Advances, Preparing,
                      Terminal, HasLiveMutationStarted
  <2>2. CASE from \notin Preparing
    BY <1>3, <2>2 DEF Phase, FateAfter, Disposition, Advances, Preparing,
                      NonTerminal, DeploymentState, Terminal,
                      HasLiveMutationStarted
  <2>3. QED
    BY <2>1, <2>2
<1>10. QED
  BY <1>6, <1>7, <1>8, <1>9, GuardAdvances

(* Recovery of a rollback quarantines it under the guard.                  *)
LEMMA GuardOfRecoverOperation ==
    ASSUME TypeOK, IncidentSubjectFailed, TypeOK', IncidentSubjectFailed',
           NEW o \in OperationIds, RecoverOperation(o)
    PROVE  [Guard!Next]_(Guard!guardVars)
<1>1. PICK i : i = [kind |-> "rollback_operation", subject |-> o,
                    env |-> operations[o].env, status |-> "unresolved"]
  OBVIOUS
<1>2. /\ i.kind = "rollback_operation" /\ i.subject = o
      /\ i.status = "unresolved"
  BY <1>1
<1>3. incidents' = incidents \cup {i}
  BY <1>1, RecoverOperationEffect
<1>4. /\ UNCHANGED deployments
      /\ operations[o].state = "started"
      /\ operations' = [operations EXCEPT ![o].state = "failed"]
  BY DEF RecoverOperation
<1>5. /\ OperationIds' = OperationIds
      /\ \A p \in OperationIds :
             /\ operations'[p].env = operations[p].env
             /\ p # o => operations'[p] = operations[p]
  BY <1>4, CloseEffect
<1>6. OthersLeft(O(o))
  <2>1. \A p : p # o => OperationLeft(p)
    BY <1>2, <1>3, <1>5 DEF OperationLeft
  <2>2. \A c : DeploymentLeft(c)
    BY <1>2, <1>3, <1>4 DEF DeploymentLeft, DeploymentIds
  <2>3. QED
    BY <2>1, <2>2, LeftByOperation
<1>7. HomeOf(O(o)) = operations[o].env /\ FateOf(O(o)) = "mutating"
  <2>1. ~HasIncident("rollback_operation", o)
    BY <1>4 DEF IncidentSubjectFailed, HasIncident
  <2>2. QED
    BY <1>4, <2>1, OperationFates DEF FatesOfOperations
<1>8. HomeOf(O(o))' = operations[o].env /\ FateOf(O(o))' = "quarantined"
  <2>1. i \in incidents' /\ o \in OperationIds'
    BY <1>3, <1>5
  <2>2. FateAfter("unresolved") = "quarantined"
    BY DEF FateAfter
  <2>3. QED
    BY <1>2, <1>5, <2>1, <2>2, FatesAfter DEF FatesOfOperations
<1>9. QED
  BY <1>6, <1>7, <1>8, GuardAdvances DEF Advances

(* Acknowledging an incident releases its mutation under the guard.        *)
LEMMA GuardOfAcknowledge ==
    ASSUME TypeOK, IncidentSubjectFailed, TypeOK', IncidentSubjectFailed',
           NEW i \in incidents, Acknowledge(i)
    PROVE  [Guard!Next]_(Guard!guardVars)
<1>1. PICK j : j = [i EXCEPT !.status = "acknowledged"]
  OBVIOUS
<1>2. /\ UNCHANGED <<deployments, operations>>
      /\ i.status = "unresolved"
      /\ incidents' = (incidents \ {i}) \cup {j}
      /\ j.kind = i.kind /\ j.subject = i.subject
      /\ j.status = "acknowledged"
  BY <1>1, AcknowledgeEffect DEF Acknowledge
<1>3. FateAfter("unresolved") = "quarantined"
      /\ FateAfter("acknowledged") = "reconciled"
  BY DEF FateAfter
<1>4. ASSUME NEW d, d = i.subject, i.kind = "deployment"
      PROVE  [Guard!Next]_(Guard!guardVars)
  <2>1. OthersLeft(D(d))
    <3>1. \A c : c # d => DeploymentLeft(c)
      BY <1>2, <1>4 DEF DeploymentLeft, DeploymentIds
    <3>2. \A o : OperationLeft(o)
      BY <1>2, <1>4 DEF OperationLeft, OperationIds
    <3>3. QED
      BY <3>1, <3>2, LeftByDeployment
  <2>2. d \in DeploymentIds /\ d \in DeploymentIds'
    BY <1>2, <1>4 DEF IncidentSubjectFailed, DeploymentIds
  <2>3. /\ HomeOf(D(d)) = deployments[d].env
        /\ FateOf(D(d)) = "quarantined"
    BY <1>2, <1>3, <1>4, <2>2, DeploymentFates DEF FatesOfDeployments
  <2>4. /\ HomeOf(D(d))' = deployments[d].env
        /\ FateOf(D(d))' = "reconciled"
    BY <1>2, <1>3, <1>4, <2>2, FatesAfter DEF FatesOfDeployments
  <2>5. QED
    BY <2>1, <2>3, <2>4, GuardAdvances DEF Advances
<1>5. ASSUME NEW o, o = i.subject, i.kind = "rollback_operation"
      PROVE  [Guard!Next]_(Guard!guardVars)
  <2>1. OthersLeft(O(o))
    <3>1. \A c : DeploymentLeft(c)
      BY <1>2, <1>5 DEF DeploymentLeft, DeploymentIds
    <3>2. \A p : p # o => OperationLeft(p)
      BY <1>2, <1>5 DEF OperationLeft, OperationIds
    <3>3. QED
      BY <3>1, <3>2, LeftByOperation
  <2>2. o \in OperationIds /\ o \in OperationIds'
    BY <1>2, <1>5 DEF IncidentSubjectFailed, OperationIds
  <2>3. /\ HomeOf(O(o)) = operations[o].env
        /\ FateOf(O(o)) = "quarantined"
    BY <1>2, <1>3, <1>5, <2>2, OperationFates DEF FatesOfOperations
  <2>4. /\ HomeOf(O(o))' = operations[o].env
        /\ FateOf(O(o))' = "reconciled"
    BY <1>2, <1>3, <1>5, <2>2, FatesAfter DEF FatesOfOperations
  <2>5. QED
    BY <2>1, <2>3, <2>4, GuardAdvances DEF Advances
<1>6. i.kind \in {"deployment", "rollback_operation"}
  BY DEF TypeOK, IncidentRow
<1>7. QED
  BY <1>4, <1>5, <1>6

(* Every step of the store is a step of the guard or a stutter.            *)
LEMMA GuardRefinedStep ==
    /\ TypeOK /\ IncidentSubjectFailed /\ (TypeOK /\ IncidentSubjectFailed)'
    /\ [Next]_storeVars
    => [Guard!Next]_(Guard!guardVars)
<1> SUFFICES ASSUME TypeOK, IncidentSubjectFailed, TypeOK',
                    IncidentSubjectFailed', [Next]_storeVars
             PROVE  [Guard!Next]_(Guard!guardVars)
  OBVIOUS
<1>1. ASSUME UNCHANGED <<deployments, operations, incidents>>
      PROVE  [Guard!Next]_(Guard!guardVars)
  BY <1>1, GuardStutters
<1>2. ASSUME NEW req \in Request, Reserve(req)
      PROVE  [Guard!Next]_(Guard!guardVars)
  BY <1>2, GuardOfReserve
<1>3. ASSUME NEW d \in DeploymentIds, NEW from \in DeploymentState,
             NEW to \in DeploymentState, Transition(d, from, to)
      PROVE  [Guard!Next]_(Guard!guardVars)
  BY <1>3, GuardOfTransition
<1>4. ASSUME NEW d \in DeploymentIds, BeginOperation(d)
      PROVE  [Guard!Next]_(Guard!guardVars)
  BY <1>4, GuardOfBegin
<1>5. ASSUME NEW o \in OperationIds, NEW s \in {"succeeded", "failed"},
             FinishOperation(o, s)
      PROVE  [Guard!Next]_(Guard!guardVars)
  BY <1>5, GuardOfFinish
<1>6. ASSUME NEW d \in DeploymentIds, NEW from \in DeploymentState,
             RecoverDeployment(d, from)
      PROVE  [Guard!Next]_(Guard!guardVars)
  BY <1>6, GuardOfRecoverDeployment
<1>7. ASSUME NEW o \in OperationIds, RecoverOperation(o)
      PROVE  [Guard!Next]_(Guard!guardVars)
  BY <1>7, GuardOfRecoverOperation
<1>8. ASSUME NEW i \in incidents, Acknowledge(i)
      PROVE  [Guard!Next]_(Guard!guardVars)
  BY <1>8, GuardOfAcknowledge
<1>9. QED
  BY <1>1, <1>2, <1>3, <1>4, <1>5, <1>6, <1>7, <1>8
  DEF Next, storeVars, StartStep, FinishStep, RecordReference, Prune

(* ImplementsGuard: every step of the store is a step of the abstract      *)
(* guard on one mutation, or none.  So an interrupted mutation whose side  *)
(* effects are unknown holds its environment until it is acknowledged,     *)
(* whatever transactions the services commit and in whatever order.        *)
THEOREM GuardImplemented == Spec => ImplementsGuard
<1>1. Init => Guard!Init
  BY DEF Init, Guard!Init, HomeOf, FateOf, DeploymentIds, OperationIds
<1>2. QED
  BY <1>1, GuardRefinedStep, TypeCorrect, IncidentsCorrect, PTL
  DEF Spec, ImplementsGuard, Guard!Spec
-----------------------------------------------------------------------------
(* What holds an environment is its latest deployment, or a rollback of it.*)

(* The deployment that the subject of an incident is or rolls back. *)
HolderOf(i) ==
    IF i.kind = "deployment" THEN i.subject ELSE operations[i.subject].source

HoldsLatest(i) ==
    LET d == HolderOf(i) IN
    /\ d \in DeploymentIds
    /\ deployments[d].env = i.env
    /\ IsLatest(d)
    /\ i.kind = "rollback_operation" =>
           i.subject \in OperationIds /\ references[d] = "active"

(* An active deployment and the subject of an unresolved incident are the  *)
(* latest of their environment; every rollback is of an eligible source.   *)
HolderLatest ==
    /\ \A d \in DeploymentIds : deployments[d].state \in NonTerminal => IsLatest(d)
    /\ \A i \in incidents : i.status = "unresolved" => HoldsLatest(i)
    /\ \A o \in OperationIds :
           /\ operations[o].source \in DeploymentIds
           /\ deployments[operations[o].source].state \in RollbackEligible
           /\ deployments[operations[o].source].env = operations[o].env

(* A deployment stays the latest while none is added to its environment.   *)
LEMMA LatestKept ==
    ASSUME NEW d \in DeploymentIds, IsLatest(d),
           \A n \in DeploymentIds : deployments'[n].env = deployments[n].env,
           \A n \in DeploymentIds' \ DeploymentIds :
               deployments'[n].env # deployments[d].env
    PROVE  IsLatest(d)'
BY DEF IsLatest

(* So does what an incident quarantines.                                   *)
LEMMA QuarantineKept ==
    ASSUME NEW i, HoldsLatest(i), i.kind \in {"deployment", "rollback_operation"},
           DeploymentIds \subseteq DeploymentIds',
           OperationIds \subseteq OperationIds',
           \A n \in DeploymentIds : deployments'[n].env = deployments[n].env,
           \A n \in DeploymentIds' \ DeploymentIds : deployments'[n].env # i.env,
           \A o \in OperationIds : operations'[o].source = operations[o].source,
           references[HolderOf(i)] = "active" =>
               references'[HolderOf(i)] = "active"
    PROVE  HoldsLatest(i)'
<1>1. PICK d : d = HolderOf(i) /\ d \in DeploymentIds /\ IsLatest(d)
               /\ deployments[d].env = i.env
  BY DEF HoldsLatest
<1>2. IsLatest(d)' /\ deployments'[d].env = i.env /\ d \in DeploymentIds'
  BY <1>1, LatestKept
<1>3. HolderOf(i)' = d
  <2>1. CASE i.kind = "deployment"
    BY <1>1, <2>1 DEF HolderOf
  <2>2. CASE i.kind = "rollback_operation"
    <3>1. i.subject \in OperationIds
      BY <2>2 DEF HoldsLatest
    <3>2. QED
      BY <1>1, <2>2, <3>1 DEF HolderOf
  <2>3. QED
    BY <2>1, <2>2
<1>4. i.kind = "rollback_operation" =>
          i.subject \in OperationIds' /\ references'[d] = "active"
  BY <1>1 DEF HoldsLatest
<1>5. QED
  BY <1>2, <1>3, <1>4 DEF HoldsLatest

(* The row that is added to deployments is the latest, and nothing held    *)
(* its environment.                                                        *)
LEMMA LatestReserve ==
    ASSUME TypeOK, HolderLatest, RecordsKept, NEW req \in Request, Reserve(req)
    PROVE  HolderLatest'
<1>1. PICK n : n = Len(deployments) + 1
  OBVIOUS
<1>2. /\ DeploymentIds' = DeploymentIds \cup {n}
      /\ n \notin DeploymentIds
      /\ deployments'[n].env = req.env
      /\ \A d \in DeploymentIds : /\ deployments'[d] = deployments[d]
                                 /\ references'[d] = references[d]
      /\ UNCHANGED <<operations, incidents>> /\ UNCHANGED OperationIds
  BY <1>1, ReserveEffect DEF Reserve, OperationIds
<1>3. ~DeploymentActive(req.env) /\ ~Quarantined(req.env)
  BY DEF Reserve, MayReserve, MayInsertDeployment
<1>4. ASSUME NEW d \in DeploymentIds', deployments'[d].state \in NonTerminal
      PROVE  IsLatest(d)'
  <2>1. CASE d = n
    BY <1>1, <1>2, <2>1, Rows DEF IsLatest, DeploymentIds
  <2>2. CASE d \in DeploymentIds
    <3>1. deployments[d].env # req.env /\ IsLatest(d)
      BY <1>2, <1>3, <1>4, <2>2 DEF HolderLatest, DeploymentActive
    <3>2. QED
      BY <1>2, <2>2, <3>1, LatestKept
  <2>3. QED
    BY <1>2, <2>1, <2>2
<1>5. ASSUME NEW i \in incidents', i.status = "unresolved" PROVE HoldsLatest(i)'
  <2>1. i \in incidents /\ HoldsLatest(i) /\ i.env # req.env
    BY <1>2, <1>3, <1>5 DEF HolderLatest, Quarantined
  <2>2. i.kind \in {"deployment", "rollback_operation"}
    BY <2>1 DEF TypeOK, IncidentRow
  <2>3. HolderOf(i) \in DeploymentIds
    BY <2>1 DEF HoldsLatest
  <2>4. QED
    BY <1>2, <2>1, <2>2, <2>3, QuarantineKept
<1>6. \A o \in OperationIds :
          /\ operations[o].source \in DeploymentIds
          /\ deployments[operations[o].source].state \in RollbackEligible
          /\ deployments[operations[o].source].env = operations[o].env
  BY DEF HolderLatest
<1>7. QED
  BY <1>2, <1>4, <1>5, <1>6 DEF HolderLatest

(* The state of one active deployment changes.                             *)
LEMMA LatestMoving ==
    ASSUME TypeOK, HolderLatest, RecordsKept,
           NEW d \in DeploymentIds, NEW s \in DeploymentState,
           deployments[d].state \in NonTerminal,
           deployments' = [deployments EXCEPT ![d].state = s],
           UNCHANGED <<references, operations>>
    PROVE  /\ IsLatest(d)'
           /\ \A c \in DeploymentIds' :
                  deployments'[c].state \in NonTerminal => IsLatest(c)'
           /\ \A i \in incidents : i.status = "unresolved" => HoldsLatest(i)'
           /\ \A o \in OperationIds' :
                  /\ operations'[o].source \in DeploymentIds'
                  /\ deployments'[operations'[o].source].state \in RollbackEligible
                  /\ deployments'[operations'[o].source].env = operations'[o].env
<1>1. /\ DeploymentIds' = DeploymentIds /\ OperationIds' = OperationIds
      /\ \A c \in DeploymentIds :
             /\ deployments'[c].env = deployments[c].env
             /\ c # d => deployments'[c] = deployments[c]
  BY UpdateEffect DEF OperationIds
<1>2. \A c \in DeploymentIds : IsLatest(c) => IsLatest(c)'
  BY <1>1, LatestKept
<1>3. IsLatest(d)
  BY DEF HolderLatest
<1>4. ASSUME NEW i \in incidents, i.status = "unresolved" PROVE HoldsLatest(i)'
  <2>1. HoldsLatest(i) /\ i.kind \in {"deployment", "rollback_operation"}
    BY <1>4 DEF HolderLatest, TypeOK, IncidentRow
  <2>2. QED
    BY <1>1, <2>1, QuarantineKept
<1>5. ASSUME NEW c \in DeploymentIds', deployments'[c].state \in NonTerminal
      PROVE  IsLatest(c)'
  BY <1>1, <1>2, <1>3, <1>5 DEF HolderLatest
<1>6. ASSUME NEW o \in OperationIds'
      PROVE  /\ operations'[o].source \in DeploymentIds'
             /\ deployments'[operations'[o].source].state \in RollbackEligible
             /\ deployments'[operations'[o].source].env = operations'[o].env
  <2>1. PICK c \in DeploymentIds : /\ c = operations[o].source
                                   /\ deployments[c].state \in RollbackEligible
                                   /\ deployments[c].env = operations[o].env
    BY <1>1 DEF HolderLatest
  <2>2. c # d
    BY <2>1 DEF RollbackEligible, NonTerminal, Terminal
  <2>3. QED
    BY <1>1, <2>1, <2>2
<1>7. QED
  BY <1>1, <1>2, <1>3, <1>4, <1>5, <1>6

(* References, operations or incidents change, and no deployment does.     *)
LEMMA LatestOfTables ==
    ASSUME TypeOK, HolderLatest, RecordsKept, UNCHANGED deployments,
           \A o \in OperationIds' \ OperationIds :
               /\ operations'[o].source \in DeploymentIds
               /\ deployments[operations'[o].source].state \in RollbackEligible
               /\ deployments[operations'[o].source].env = operations'[o].env,
           \A i \in incidents :
               /\ i.status = "unresolved" /\ i.kind = "rollback_operation"
               /\ references[HolderOf(i)] = "active"
               => references'[HolderOf(i)] = "active",
           \A i \in incidents' \ incidents :
               i.status = "unresolved" => HoldsLatest(i)'
    PROVE  HolderLatest'
<1>1. DeploymentIds' = DeploymentIds
  BY DEF DeploymentIds
<1>2. /\ OperationIds \subseteq OperationIds'
      /\ \A o \in OperationIds : /\ operations'[o].source = operations[o].source
                                /\ operations'[o].env = operations[o].env
  BY DEF RecordsKept
<1>3. ASSUME NEW i \in incidents, i.status = "unresolved" PROVE HoldsLatest(i)'
  <2>1. HoldsLatest(i) /\ i.kind \in {"deployment", "rollback_operation"}
    BY <1>3 DEF HolderLatest, TypeOK, IncidentRow
  <2>2. PICK d : d = HolderOf(i) /\ d \in DeploymentIds /\ IsLatest(d)
                 /\ deployments[d].env = i.env
    BY <2>1 DEF HoldsLatest
  <2>3. IsLatest(d)' /\ d \in DeploymentIds' /\ deployments'[d].env = i.env
    BY <1>1, <2>2 DEF IsLatest
  <2>4. i.kind = "rollback_operation" =>
            /\ i.subject \in OperationIds' /\ references'[d] = "active"
            /\ operations'[i.subject].source = operations[i.subject].source
    BY <1>2, <1>3, <2>1, <2>2 DEF HoldsLatest
  <2>5. HolderOf(i)' = d
    BY <2>1, <2>2, <2>4 DEF HolderOf
  <2>6. QED
    BY <2>3, <2>4, <2>5 DEF HoldsLatest
<1>4. \A d \in DeploymentIds' :
          deployments'[d].state \in NonTerminal => IsLatest(d)'
  BY <1>1 DEF HolderLatest, IsLatest
<1>5. ASSUME NEW o \in OperationIds'
      PROVE  /\ operations'[o].source \in DeploymentIds'
             /\ deployments'[operations'[o].source].state \in RollbackEligible
             /\ deployments'[operations'[o].source].env = operations'[o].env
  BY <1>1, <1>2 DEF HolderLatest
<1>6. QED
  BY <1>3, <1>4, <1>5 DEF HolderLatest

(* No step leaves an environment held by a deployment that is not its      *)
(* latest.                                                                 *)
LEMMA LatestStep ==
    /\ TypeOK /\ GuardExclusive /\ IncidentSubjectFailed /\ ReferenceInv
    /\ HolderLatest /\ [Next]_storeVars
    => HolderLatest'
<1> SUFFICES ASSUME TypeOK, GuardExclusive, IncidentSubjectFailed, ReferenceInv,
                    HolderLatest, [Next]_storeVars
             PROVE  HolderLatest'
  OBVIOUS
<1>1. RecordsKept
  BY RecordsStay
<1>2. ASSUME NEW req \in Request, Reserve(req) PROVE HolderLatest'
  BY <1>1, <1>2, LatestReserve
<1>3. ASSUME NEW d \in DeploymentIds, NEW from \in DeploymentState,
             NEW to \in DeploymentState, Transition(d, from, to)
      PROVE  HolderLatest'
  <2>1. deployments[d].state \in NonTerminal
    BY <1>3, TransitionEffect
  <2>2. /\ deployments' = [deployments EXCEPT ![d].state = to]
        /\ UNCHANGED <<references, operations, incidents>>
    BY <1>3 DEF Transition
  <2>3. QED
    BY <1>1, <2>1, <2>2, LatestMoving DEF HolderLatest
<1>4. ASSUME UNCHANGED <<deployments, references, operations>>,
             incidents' \subseteq incidents
                 \cup {[i EXCEPT !.status = "acknowledged"] : i \in incidents}
      PROVE  HolderLatest'
  <2>1. \A i \in incidents' \ incidents : i.status # "unresolved"
    BY <1>4 DEF TypeOK, IncidentRow
  <2>2. UNCHANGED OperationIds
    BY <1>4 DEF OperationIds
  <2>3. QED
    BY <1>1, <1>4, <2>1, <2>2, LatestOfTables
<1>5. ASSUME NEW d \in DeploymentIds, RecordReference(d) PROVE HolderLatest'
  <2>1. UNCHANGED <<deployments, operations, incidents, OperationIds>>
    BY <1>5 DEF RecordReference, OperationIds
  <2>2. ASSUME NEW i \in incidents, i.status = "unresolved",
               references[HolderOf(i)] = "active"
        PROVE  references'[HolderOf(i)] = "active"
    <3>1. PICK h : h = HolderOf(i) /\ h \in DeploymentIds /\ IsLatest(h)
      BY <2>2 DEF HolderLatest, HoldsLatest
    <3>2. IsLatest(d)
      BY <1>5 DEF RecordReference, EligibleSource
    <3>3. deployments[h].env = deployments[d].env => h = d
      BY <3>1, <3>2, Rows DEF IsLatest, DeploymentIds
    <3>4. QED
      BY <1>5, <2>2, <3>1, <3>3, RecordEffect
  <2>3. QED
    BY <1>1, <2>1, <2>2, LatestOfTables
<1>6. ASSUME NEW d \in DeploymentIds, BeginOperation(d) PROVE HolderLatest'
  <2>1. UNCHANGED <<deployments, references, incidents>>
    BY <1>6 DEF BeginOperation
  <2>2. PICK n : /\ OperationIds' = OperationIds \cup {n}
                 /\ operations'[n].source = d
                 /\ operations'[n].env = deployments[d].env
    BY <1>6, BeginEffect
  <2>3. deployments[d].state \in RollbackEligible
    BY <1>6 DEF BeginOperation, EligibleSource
  <2>4. QED
    BY <1>1, <2>1, <2>2, <2>3, LatestOfTables
<1>7. ASSUME NEW o \in OperationIds, NEW t \in {"succeeded", "failed"},
             FinishOperation(o, t)
      PROVE  HolderLatest'
  <2>1. UNCHANGED <<deployments, incidents, OperationIds>>
        /\ operations[o].state = "started"
    BY <1>7, CloseEffect DEF FinishOperation
  <2>2. ASSUME NEW i \in incidents, i.status = "unresolved",
               i.kind = "rollback_operation",
               references[HolderOf(i)] = "active"
        PROVE  references'[HolderOf(i)] = "active"
    <3>1. PICK h : h = HolderOf(i) /\ h \in DeploymentIds
                   /\ deployments[h].env = i.env
      BY <2>2 DEF HolderLatest, HoldsLatest
    <3>2. RollbackStarted(operations[o].env) /\ Quarantined(i.env)
          /\ i.env \in Environments
      BY <2>1, <2>2, Rows DEF RollbackStarted, Quarantined
    <3>3. operations[o].env # i.env
      BY <3>2 DEF GuardExclusive, HoldersExclude
    <3>4. h # operations[o].source
      BY <3>1, <3>3 DEF HolderLatest
    <3>5. QED
      BY <1>7, <2>2, <3>1, <3>4, FinishEffect
  <2>3. QED
    BY <1>1, <2>1, <2>2, LatestOfTables
<1>8. ASSUME NEW d \in DeploymentIds, NEW from \in DeploymentState,
             RecoverDeployment(d, from)
      PROVE  HolderLatest'
  <2>1. /\ deployments[d].state \in NonTerminal /\ "failed" \in DeploymentState
        /\ deployments' = [deployments EXCEPT ![d].state = "failed"]
        /\ UNCHANGED <<references, operations>>
    BY <1>8 DEF RecoverDeployment, StateIs, DeploymentState
  <2>2. PICK i : /\ incidents' = incidents \cup {i}
                 /\ i.kind = "deployment" /\ i.subject = d
                 /\ i.env = deployments[d].env
    <3>1. PICK i : i = [kind |-> "deployment", subject |-> d,
                        env |-> deployments[d].env, status |-> Disposition(from)]
      OBVIOUS
    <3>2. incidents' = incidents \cup {i}
      BY <1>8, <3>1, RecoverDeploymentEffect
    <3>3. QED
      BY <3>1, <3>2
  <2>3. IsLatest(d)' /\ d \in DeploymentIds' /\ deployments'[d].env = i.env
    BY <1>1, <2>1, <2>2, LatestMoving DEF RecordsKept
  <2>4. HoldsLatest(i)'
    BY <2>2, <2>3 DEF HoldsLatest, HolderOf
  <2>5. QED
    BY <1>1, <2>1, <2>2, <2>4, LatestMoving DEF HolderLatest
<1>9. ASSUME NEW o \in OperationIds, RecoverOperation(o) PROVE HolderLatest'
  <2>1. UNCHANGED <<deployments, references, OperationIds>>
        /\ operations[o].state = "started"
    BY <1>9, CloseEffect DEF RecoverOperation
  <2>2. PICK i : /\ incidents' = incidents \cup {i}
                 /\ i.kind = "rollback_operation" /\ i.subject = o
                 /\ i.env = operations[o].env
    <3>1. PICK i : i = [kind |-> "rollback_operation", subject |-> o,
                        env |-> operations[o].env, status |-> "unresolved"]
      OBVIOUS
    <3>2. incidents' = incidents \cup {i}
      BY <1>9, <3>1, RecoverOperationEffect
    <3>3. QED
      BY <3>1, <3>2
  <2>3. PICK d : /\ d = operations[o].source /\ d \in DeploymentIds
                 /\ IsLatest(d) /\ references[d] = "active"
                 /\ deployments[d].env = i.env
    BY <2>1, <2>2 DEF ReferenceInv, HoldsReference, EligibleSource
  <2>4. operations'[o].source = d /\ o \in OperationIds' /\ d \in DeploymentIds'
    BY <1>1, <2>3 DEF RecordsKept
  <2>5. IsLatest(d)'
    BY <2>1, <2>3 DEF IsLatest, DeploymentIds
  <2>6. HoldsLatest(i)'
    BY <2>1, <2>2, <2>3, <2>4, <2>5 DEF HoldsLatest, HolderOf
  <2>7. QED
    BY <1>1, <2>1, <2>2, <2>6, LatestOfTables
<1>10. ASSUME NEW i \in incidents, Acknowledge(i) PROVE HolderLatest'
  <2>1. /\ incidents' = (incidents \ {i}) \cup {[i EXCEPT !.status = "acknowledged"]}
        /\ UNCHANGED <<deployments, references, operations>>
    BY <1>10 DEF Acknowledge
  <2>2. QED
    BY <1>4, <2>1
<1>11. QED
  BY <1>2, <1>3, <1>4, <1>5, <1>6, <1>7, <1>8, <1>9, <1>10
  DEF Next, storeVars, StartStep, FinishStep, Prune

(* What holds an environment is its latest deployment: the active one, the *)
(* source of a rollback, or the subject of an unresolved incident, whose   *)
(* reference is then still active.  So what recovery quarantined is never  *)
(* buried under a newer deployment.                                        *)
THEOREM HolderLatestCorrect == Spec => []HolderLatest
<1>1. Init => HolderLatest
  BY DEF Init, HolderLatest, DeploymentIds, OperationIds
<1>2. QED
  BY <1>1, LatestStep, TypeCorrect, GuardCorrect, IncidentsCorrect,
     ReferenceInvCorrect, PTL DEF Spec
=============================================================================
