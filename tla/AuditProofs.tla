---------------------------- MODULE AuditProofs ----------------------------
(***************************************************************************)
(* Proofs about AuditHistory for all values of its constants.  The first   *)
(* part says what a step does to each table of timestamped rows; the       *)
(* second proves from that what the rows record of the past, and the last  *)
(* what the timeline and the queries make of them.                         *)
(***************************************************************************)
EXTENDS AuditHistory, MutationStoreProofs, FiniteSetTheorems

(* A step of the audited store is a step of the store. *)
LEMMA StoreStep == [AuditNext]_auditVars => [Next]_storeVars
<1> SUFFICES ASSUME [AuditNext]_auditVars PROVE [Next]_storeVars
  OBVIOUS
<1>1. CASE Tick \/ Read \/ UNCHANGED auditVars
  BY <1>1 DEF Tick, Read, ReadRows, ReadDetails, auditVars
<1>2. CASE Write
  <2>1. ASSUME NEW batch \in SUBSET Prunable, PruneAt(batch) PROVE Next
    BY <2>1 DEF PruneAt, Next
  <2>2. ASSUME NEW d \in DeploymentIds, NEW from \in DeploymentState,
               \/ RecoverDeploymentAt(d, from)
               \/ \E to \in DeploymentState : TransitionAt(d, from, to)
        PROVE  Next
    BY <2>2 DEF RecoverDeploymentAt, TransitionAt, Next
  <2>3. ASSUME NEW d \in DeploymentIds,
               \/ StartStepAt(d) \/ (\E s \in {"succeeded", "failed"} :
                                        FinishStepAt(d, s))
               \/ RecordReferenceAt(d) \/ BeginOperationAt(d)
        PROVE  Next
    BY <2>3 DEF StartStepAt, FinishStepAt, RecordReferenceAt,
                BeginOperationAt, Next
  <2>4. ASSUME NEW o \in OperationIds,
               \/ RecoverOperationAt(o)
               \/ \E s \in {"succeeded", "failed"} : FinishOperationAt(o, s)
        PROVE  Next
    BY <2>4 DEF RecoverOperationAt, FinishOperationAt, Next
  <2>5. ASSUME NEW i \in incidents, AcknowledgeAt(i) PROVE Next
    BY <2>5 DEF AcknowledgeAt, Next
  <2>6. ASSUME NEW req \in Request, ReserveAt(req) PROVE Next
    BY <2>6 DEF ReserveAt, Next
  <2>7. QED
    BY <1>2, <2>1, <2>2, <2>3, <2>4, <2>5, <2>6 DEF Write
<1>3. QED
  BY <1>1, <1>2 DEF AuditNext

(* So whatever is proved of the store holds of the audited store. *)
LEMMA AuditImplementsStore == AuditSpec => Spec
<1>1. AuditInit => Init
  BY DEF AuditInit
<1>2. QED
  BY <1>1, StoreStep, PTL DEF AuditSpec, Spec
-----------------------------------------------------------------------------
(* What a step does to each table of rows.                                 *)

TransitionRow == [deployment: Nat, from: DeploymentState,
                  to: DeploymentState, at: Nat]
AttemptRow == [deployment: Nat, started: Nat, finished: Nat,
               status: {"started", "succeeded", "failed"}]
RecoveryRow == [kind: {"deployment", "rollback_operation"}, subject: Nat,
                at: Nat, acknowledged: Nat]

(* The tables hold well-formed rows, as many as the records they stamp.    *)
RowsTyped ==
    /\ clock \in Nat \ {0}
    /\ createdAt \in Seq(Nat) /\ Len(createdAt) = Len(deployments)
    /\ recordedAt \in Seq(Nat) /\ Len(recordedAt) = Len(deployments)
    /\ updatedAt \in Seq(Nat) /\ Len(updatedAt) = Len(deployments)
    /\ startedAt \in Seq(Nat) /\ Len(startedAt) = Len(operations)
    /\ finishedAt \in Seq(Nat) /\ Len(finishedAt) = Len(operations)
    /\ transitions \in Seq(TransitionRow)
    /\ attempts \in Seq(AttemptRow)
    /\ incidentRows \in Seq(RecoveryRow)

(* A row inserted is the last, and leaves the others where they are.       *)
LEMMA RowInserted ==
    ASSUME NEW S, NEW rows \in Seq(S), NEW row \in S
    PROVE  LET new == Append(rows, row)
               n   == Len(rows) + 1
           IN  /\ new \in Seq(S) /\ Len(new) = n
               /\ DOMAIN rows = 1 .. Len(rows)
               /\ n \notin DOMAIN rows /\ DOMAIN new = DOMAIN rows \cup {n}
               /\ \A m \in DOMAIN rows : m < n /\ new[m] = rows[m]
               /\ new[n] = row
<1> DEFINE new == Append(rows, row)
           n   == Len(rows) + 1
<1>1. /\ new \in Seq(S) /\ Len(new) = n /\ new[n] = row
      /\ \A m \in 1 .. Len(rows) : new[m] = rows[m]
      /\ Len(rows) \in Nat
  BY AppendProperties, LenProperties
<1>2. DOMAIN rows = 1 .. Len(rows) /\ DOMAIN new = 1 .. n
  BY <1>1, LenProperties
<1> HIDE DEF new
<1>3. QED
  BY <1>1, <1>2

(* An UPDATE of any number of rows leaves as many as there were.           *)
LEMMA RowsUpdated ==
    ASSUME NEW S, NEW rows \in Seq(S), NEW new \in [DOMAIN rows -> S]
    PROVE  new \in Seq(S) /\ Len(new) = Len(rows) /\ DOMAIN new = DOMAIN rows
<1>1. Len(rows) \in Nat /\ DOMAIN rows = 1 .. Len(rows)
  BY LenProperties
<1>2. new \in Seq(S)
  BY <1>1, SeqDef
<1>3. Len(new) \in Nat /\ DOMAIN new = 1 .. Len(new)
  BY <1>2, LenProperties
<1>4. DOMAIN new = 1 .. Len(rows)
  BY <1>1
<1>5. Len(new) = Len(rows)
  BY <1>1, <1>3, <1>4
<1>6. QED
  BY <1>2, <1>5

(* An UPDATE of one cell. *)
LEMMA CellUpdated ==
    ASSUME NEW rows \in Seq(Nat), NEW n \in 1 .. Len(rows), NEW v \in Nat
    PROVE  LET new == [rows EXCEPT ![n] = v] IN
           /\ new \in Seq(Nat) /\ Len(new) = Len(rows)
           /\ \A m \in 1 .. Len(rows) : new[m] = IF m = n THEN v ELSE rows[m]
BY ExceptSeq

(* The domains of the tables. *)
LEMMA RowDomains ==
    ASSUME TypeOK, RowsTyped
    PROVE  /\ clock \in Nat /\ clock > 0
           /\ DOMAIN createdAt = DeploymentIds
           /\ DOMAIN recordedAt = DeploymentIds
           /\ DOMAIN updatedAt = DeploymentIds
           /\ DOMAIN startedAt = OperationIds
           /\ DOMAIN finishedAt = OperationIds
           /\ DOMAIN transitions = 1 .. Len(transitions)
           /\ DOMAIN attempts = 1 .. Len(attempts)
           /\ DOMAIN incidentRows = 1 .. Len(incidentRows)
           /\ Len(transitions) \in Nat /\ Len(attempts) \in Nat
           /\ Len(incidentRows) \in Nat
           /\ \A d \in DeploymentIds : /\ createdAt[d] \in Nat
                                       /\ recordedAt[d] \in Nat
                                       /\ updatedAt[d] \in Nat
           /\ \A o \in OperationIds : startedAt[o] \in Nat /\ finishedAt[o] \in Nat
           /\ \A n \in DOMAIN transitions : transitions[n] \in TransitionRow
           /\ \A n \in DOMAIN attempts : attempts[n] \in AttemptRow
           /\ \A n \in DOMAIN incidentRows : incidentRows[n] \in RecoveryRow
<1>1. /\ createdAt \in Seq(Nat) /\ Len(createdAt) = Len(deployments)
      /\ recordedAt \in Seq(Nat) /\ Len(recordedAt) = Len(deployments)
      /\ updatedAt \in Seq(Nat) /\ Len(updatedAt) = Len(deployments)
      /\ startedAt \in Seq(Nat) /\ Len(startedAt) = Len(operations)
      /\ finishedAt \in Seq(Nat) /\ Len(finishedAt) = Len(operations)
  BY DEF RowsTyped
<1>2. /\ DOMAIN createdAt = DeploymentIds
      /\ DOMAIN recordedAt = DeploymentIds
      /\ DOMAIN updatedAt = DeploymentIds
      /\ DOMAIN startedAt = OperationIds
      /\ DOMAIN finishedAt = OperationIds
  BY <1>1, LenProperties DEF DeploymentIds, OperationIds
<1>3. /\ \A d \in DeploymentIds : /\ createdAt[d] \in Nat
                                  /\ recordedAt[d] \in Nat
                                  /\ updatedAt[d] \in Nat
      /\ \A o \in OperationIds : startedAt[o] \in Nat /\ finishedAt[o] \in Nat
  BY <1>1, ElementOfSeq DEF DeploymentIds, OperationIds
<1>4. /\ transitions \in Seq(TransitionRow)
      /\ attempts \in Seq(AttemptRow)
      /\ incidentRows \in Seq(RecoveryRow)
      /\ clock \in Nat /\ clock > 0
  BY DEF RowsTyped
<1>5. /\ DOMAIN transitions = 1 .. Len(transitions)
      /\ DOMAIN attempts = 1 .. Len(attempts)
      /\ DOMAIN incidentRows = 1 .. Len(incidentRows)
      /\ Len(transitions) \in Nat /\ Len(attempts) \in Nat
      /\ Len(incidentRows) \in Nat
  BY <1>4, LenProperties
<1>6. /\ \A n \in DOMAIN transitions : transitions[n] \in TransitionRow
      /\ \A n \in DOMAIN attempts : attempts[n] \in AttemptRow
      /\ \A n \in DOMAIN incidentRows : incidentRows[n] \in RecoveryRow
  BY <1>4, <1>5, ElementOfSeq
<1>7. QED
  BY <1>2, <1>3, <1>4, <1>5, <1>6
-----------------------------------------------------------------------------
(* What a step of each kind leaves alone. *)

(* A step that is no transaction writes nothing. *)
LEMMA NothingWritten ==
    Tick \/ Read \/ UNCHANGED auditVars => UNCHANGED <<storeVars, rowVars>>
BY DEF Tick, Read, ReadRows, ReadDetails, auditVars

(* deployments and what is stamped with its rows. *)
CreatedStamped ==
    /\ createdAt' \in Seq(Nat) /\ Len(createdAt') = Len(deployments')
    /\ DeploymentIds \subseteq DeploymentIds'
    /\ \A d \in DeploymentIds : createdAt'[d] = createdAt[d]
    /\ \A d \in DeploymentIds' \ DeploymentIds :
           /\ createdAt'[d] = clock
           /\ references'[d] = "none"
           /\ deployments'[d].state = "created"

(* Only a reservation adds a deployment, and it stamps its row. *)
LEMMA CreatedStep ==
    ASSUME TypeOK, RowsTyped, [AuditNext]_auditVars
    PROVE  CreatedStamped
<1>0. /\ createdAt \in Seq(Nat) /\ Len(createdAt) = Len(deployments)
      /\ clock \in Nat
  BY DEF RowsTyped
<1>1. ASSUME NEW req \in Request, ReserveAt(req) PROVE CreatedStamped
  <2>1. Reserve(req) /\ createdAt' = Append(createdAt, clock)
    BY <1>1 DEF ReserveAt
  <2>2. PICK n : n = Len(deployments) + 1
    OBVIOUS
  <2>3. /\ DeploymentIds' = DeploymentIds \cup {n}
        /\ deployments'[n].state = "created"
        /\ references'[n] = "none"
    BY <2>1, <2>2, ReserveEffect
  <2>4. /\ createdAt' \in Seq(Nat) /\ Len(createdAt') = n
        /\ \A d \in DOMAIN createdAt : createdAt'[d] = createdAt[d]
        /\ createdAt'[n] = clock
        /\ DOMAIN createdAt = DeploymentIds
    BY <1>0, <2>1, <2>2, RowInserted DEF DeploymentIds
  <2>5. Len(deployments') = n
    <3>1. deployments \in Seq(DeploymentRow)
      BY DEF TypeOK
    <3>2. Len(deployments') = Len(deployments) + 1
      BY <2>1, <3>1, LenProperties DEF Reserve
    <3>3. QED
      BY <2>2, <3>2
  <2>6. QED
    BY <2>3, <2>4, <2>5 DEF CreatedStamped
<1>2. ASSUME UNCHANGED createdAt, Len(deployments') = Len(deployments)
      PROVE  CreatedStamped
  BY <1>0, <1>2 DEF CreatedStamped, DeploymentIds
<1>3. ASSUME NEW d \in DeploymentIds, NEW s \in DeploymentState,
             deployments' = [deployments EXCEPT ![d].state = s],
             UNCHANGED createdAt
      PROVE  CreatedStamped
  BY <1>2, <1>3, UpdateEffect
<1>4. ASSUME NEW d \in DeploymentIds, NEW from \in DeploymentState,
             NEW to \in DeploymentState, TransitionAt(d, from, to)
      PROVE  CreatedStamped
  BY <1>3, <1>4 DEF TransitionAt, Transition
<1>5. ASSUME NEW d \in DeploymentIds, NEW from \in DeploymentState,
             RecoverDeploymentAt(d, from)
      PROVE  CreatedStamped
  <2>1. "failed" \in DeploymentState
    BY DEF DeploymentState
  <2>2. QED
    BY <1>3, <1>5, <2>1 DEF RecoverDeploymentAt, RecoverDeployment
<1>6. ASSUME NEW d \in DeploymentIds,
             \/ StartStepAt(d) \/ (\E s \in {"succeeded", "failed"} :
                                      FinishStepAt(d, s))
             \/ RecordReferenceAt(d) \/ BeginOperationAt(d)
      PROVE  CreatedStamped
  BY <1>2, <1>6
  DEF StartStepAt, FinishStepAt, RecordReferenceAt, BeginOperationAt,
      StartStep, FinishStep, RecordReference, BeginOperation
<1>7. ASSUME NEW o \in OperationIds,
             \/ RecoverOperationAt(o)
             \/ \E s \in {"succeeded", "failed"} : FinishOperationAt(o, s)
      PROVE  CreatedStamped
  BY <1>2, <1>7 DEF RecoverOperationAt, FinishOperationAt, RecoverOperation,
                    FinishOperation
<1>8. ASSUME NEW i \in incidents, AcknowledgeAt(i) PROVE CreatedStamped
  BY <1>2, <1>8 DEF AcknowledgeAt, Acknowledge
<1>9. ASSUME NEW batch \in SUBSET Prunable, PruneAt(batch)
      PROVE  CreatedStamped
  BY <1>2, <1>9 DEF PruneAt, Prune, rowVars
<1>10. CASE Tick \/ Read \/ UNCHANGED auditVars
  BY <1>2, <1>10, NothingWritten DEF storeVars, rowVars
<1>11. QED
  BY <1>1, <1>4, <1>5, <1>6, <1>7, <1>8, <1>9, <1>10 DEF AuditNext, Write

(* deployments.state and the transitions, of which one is written with     *)
(* each change of a state.                                                 *)
Stays ==
    /\ UNCHANGED transitions
    /\ \A d \in DeploymentIds : deployments'[d].state = deployments[d].state

Moves(d, to) ==
    /\ deployments[d].state \in NonTerminal
    /\ DeploymentIds' = DeploymentIds
    /\ \A c \in DeploymentIds :
           deployments'[c].state = IF c = d THEN to ELSE deployments[c].state
    /\ transitions' = TransitionTo(d, deployments[d].state, to)

MovesLogged ==
    Stays \/ \E d \in DeploymentIds, to \in DeploymentState \ {"created"} :
                 Moves(d, to)

(* No deployment changes its state without a row that says so. *)
LEMMA MovesStep ==
    ASSUME TypeOK, [AuditNext]_auditVars
    PROVE  MovesLogged
<1>1. ASSUME NEW req \in Request, ReserveAt(req) PROVE Stays
  BY <1>1, ReserveEffect DEF ReserveAt, Stays
<1>2. ASSUME NEW d \in DeploymentIds, NEW s \in DeploymentState \ {"created"},
             deployments[d].state \in NonTerminal,
             deployments' = [deployments EXCEPT ![d].state = s],
             transitions' = TransitionTo(d, deployments[d].state, s)
      PROVE  MovesLogged
  <2>1. s \in DeploymentState
    BY <1>2
  <2>2. /\ DeploymentIds' = DeploymentIds
        /\ \A c \in DeploymentIds :
               deployments'[c].state = IF c = d THEN s ELSE deployments[c].state
    BY <1>2, <2>1, UpdateEffect
  <2>3. Moves(d, s)
    BY <1>2, <2>2 DEF Moves
  <2>4. QED
    BY <1>2, <2>3 DEF MovesLogged
<1>3. ASSUME NEW d \in DeploymentIds, NEW from \in DeploymentState,
             NEW to \in DeploymentState, TransitionAt(d, from, to)
      PROVE  MovesLogged
  <2>1. Transition(d, from, to) /\ transitions' = TransitionTo(d, from, to)
    BY <1>3 DEF TransitionAt
  <2>2. /\ from \in NonTerminal /\ deployments[d].state = from
        /\ <<from, to>> \in CanTransition
        /\ deployments' = [deployments EXCEPT ![d].state = to]
    BY <2>1, TransitionEffect DEF Transition
  <2>3. to \in DeploymentState \ {"created"}
    BY <1>3, <2>2 DEF CanTransition
  <2>4. transitions' = TransitionTo(d, deployments[d].state, to)
    BY <2>1, <2>2
  <2>5. QED
    BY <1>2, <2>2, <2>3, <2>4
<1>4. ASSUME NEW d \in DeploymentIds, NEW from \in DeploymentState,
             RecoverDeploymentAt(d, from)
      PROVE  MovesLogged
  <2>1. RecoverDeployment(d, from) /\ transitions' = TransitionTo(d, from, "failed")
    BY <1>4 DEF RecoverDeploymentAt
  <2>2. /\ from \in NonTerminal /\ deployments[d].state = from
        /\ deployments' = [deployments EXCEPT ![d].state = "failed"]
    BY <2>1 DEF RecoverDeployment, StateIs
  <2>3. "failed" \in DeploymentState \ {"created"}
    BY DEF DeploymentState
  <2>4. QED
    BY <1>2, <2>1, <2>2, <2>3
<1>5. ASSUME UNCHANGED <<deployments, transitions>> PROVE Stays
  BY <1>5 DEF Stays
<1>6. ASSUME NEW d \in DeploymentIds,
             \/ StartStepAt(d) \/ (\E s \in {"succeeded", "failed"} :
                                      FinishStepAt(d, s))
             \/ RecordReferenceAt(d) \/ BeginOperationAt(d)
      PROVE  Stays
  BY <1>5, <1>6
  DEF StartStepAt, FinishStepAt, RecordReferenceAt, BeginOperationAt,
      StartStep, FinishStep, RecordReference, BeginOperation
<1>7. ASSUME NEW o \in OperationIds,
             \/ RecoverOperationAt(o)
             \/ \E s \in {"succeeded", "failed"} : FinishOperationAt(o, s)
      PROVE  Stays
  BY <1>5, <1>7 DEF RecoverOperationAt, FinishOperationAt, RecoverOperation,
                    FinishOperation
<1>8. ASSUME NEW i \in incidents, AcknowledgeAt(i) PROVE Stays
  BY <1>5, <1>8 DEF AcknowledgeAt, Acknowledge
<1>9. ASSUME NEW batch \in SUBSET Prunable, PruneAt(batch) PROVE Stays
  BY <1>5, <1>9 DEF PruneAt, Prune, rowVars
<1>10. CASE Tick \/ Read \/ UNCHANGED auditVars
  BY <1>5, <1>10, NothingWritten DEF storeVars, rowVars, MovesLogged
<1>11. QED
  BY <1>1, <1>3, <1>4, <1>6, <1>7, <1>8, <1>9, <1>10
  DEF AuditNext, Write, MovesLogged

(* deployment_step_attempts. *)
AttemptsStamped ==
    /\ attempts' \in Seq(AttemptRow)
    /\ \A n \in DOMAIN attempts :
           /\ n \in DOMAIN attempts'
           /\ attempts'[n].deployment = attempts[n].deployment
           /\ attempts'[n].started = attempts[n].started
           /\ \/ attempts'[n] = attempts[n]
              \/ /\ attempts[n].status = "started"
                 /\ attempts'[n].status # "started"
                 /\ attempts'[n].finished = clock
    /\ \A n \in DOMAIN attempts' \ DOMAIN attempts :
           /\ attempts'[n].deployment \in DeploymentIds
           /\ attempts'[n].started = clock
           /\ attempts'[n].status = "started"

(* Closing the attempts of a deployment stamps those that are open. *)
LEMMA AttemptsClosed ==
    ASSUME TypeOK, RowsTyped, NEW d, NEW s \in {"succeeded", "failed"},
           attempts' = CloseAttempts(d, s)
    PROVE  AttemptsStamped
<1>1. /\ attempts \in Seq(AttemptRow) /\ clock \in Nat
      /\ \A n \in DOMAIN attempts : attempts[n] \in AttemptRow
  BY RowDomains DEF RowsTyped
<1>2. ASSUME NEW n \in DOMAIN attempts
      PROVE  /\ CloseAttempts(d, s)[n] \in AttemptRow
             /\ CloseAttempts(d, s)[n].deployment = attempts[n].deployment
             /\ CloseAttempts(d, s)[n].started = attempts[n].started
             /\ \/ CloseAttempts(d, s)[n] = attempts[n]
                \/ /\ attempts[n].status = "started"
                   /\ CloseAttempts(d, s)[n].status # "started"
                   /\ CloseAttempts(d, s)[n].finished = clock
  BY <1>1 DEF CloseAttempts, AttemptRow
<1>3. CloseAttempts(d, s) \in [DOMAIN attempts -> AttemptRow]
  BY <1>2 DEF CloseAttempts
<1>4. attempts' \in Seq(AttemptRow) /\ DOMAIN attempts' = DOMAIN attempts
  BY <1>1, <1>3, RowsUpdated
<1>5. QED
  BY <1>2, <1>4 DEF AttemptsStamped

(* Attempts are started with a row of their own and closed once. *)
LEMMA AttemptsStep ==
    ASSUME TypeOK, RowsTyped, [AuditNext]_auditVars
    PROVE  AttemptsStamped
<1>0. /\ attempts \in Seq(AttemptRow) /\ clock \in Nat
      /\ Len(deployments) \in Nat
  BY Rows DEF RowsTyped
<1>1. ASSUME UNCHANGED attempts PROVE AttemptsStamped
  BY <1>0, <1>1 DEF AttemptsStamped
<1>2. ASSUME NEW d \in DeploymentIds, StartStepAt(d) PROVE AttemptsStamped
  <2>1. PICK row : row = [deployment |-> d, started |-> clock,
                          finished |-> Null, status |-> "started"]
    OBVIOUS
  <2>2. /\ row \in AttemptRow /\ row.deployment = d /\ row.started = clock
        /\ row.status = "started"
    BY <1>0, <2>1 DEF AttemptRow, DeploymentIds, Null
  <2>3. attempts' = Append(attempts, row)
    BY <1>2, <2>1 DEF StartStepAt
  <2>4. PICK n : n = Len(attempts) + 1
    OBVIOUS
  <2>5. /\ attempts' \in Seq(AttemptRow)
        /\ n \notin DOMAIN attempts /\ DOMAIN attempts' = DOMAIN attempts \cup {n}
        /\ \A m \in DOMAIN attempts : attempts'[m] = attempts[m]
        /\ attempts'[n] = row
    BY <1>0, <2>2, <2>3, <2>4, RowInserted
  <2>6. QED
    BY <2>2, <2>5 DEF AttemptsStamped
<1>3. ASSUME NEW d \in DeploymentIds, NEW s \in {"succeeded", "failed"},
             FinishStepAt(d, s)
      PROVE  AttemptsStamped
  BY <1>3, AttemptsClosed DEF FinishStepAt
<1>4. ASSUME NEW d \in DeploymentIds, NEW from \in DeploymentState,
             RecoverDeploymentAt(d, from)
      PROVE  AttemptsStamped
  <2>1. attempts' = CloseAttempts(d, "failed")
    BY <1>4 DEF RecoverDeploymentAt
  <2>2. QED
    BY <2>1, AttemptsClosed
<1>5. ASSUME NEW req \in Request, ReserveAt(req) PROVE AttemptsStamped
  BY <1>1, <1>5 DEF ReserveAt
<1>6. ASSUME NEW d \in DeploymentIds,
             \/ RecordReferenceAt(d) \/ BeginOperationAt(d)
             \/ \E from, to \in DeploymentState : TransitionAt(d, from, to)
      PROVE  AttemptsStamped
  BY <1>1, <1>6 DEF RecordReferenceAt, BeginOperationAt, TransitionAt
<1>7. ASSUME NEW o \in OperationIds,
             \/ RecoverOperationAt(o)
             \/ \E s \in {"succeeded", "failed"} : FinishOperationAt(o, s)
      PROVE  AttemptsStamped
  BY <1>1, <1>7 DEF RecoverOperationAt, FinishOperationAt
<1>8. ASSUME NEW i \in incidents, AcknowledgeAt(i) PROVE AttemptsStamped
  BY <1>1, <1>8 DEF AcknowledgeAt
<1>9. ASSUME NEW batch \in SUBSET Prunable, PruneAt(batch)
      PROVE  AttemptsStamped
  BY <1>1, <1>9 DEF PruneAt, rowVars
<1>10. CASE Tick \/ Read \/ UNCHANGED auditVars
  BY <1>1, <1>10, NothingWritten DEF rowVars
<1>11. QED
  BY <1>2, <1>3, <1>4, <1>5, <1>6, <1>7, <1>8, <1>9, <1>10
  DEF AuditNext, Write

(* rollback_references: the recording of a reference is stamped once, its  *)
(* updates until it is spent.                                              *)
Spent == {"superseded", "consumed"}

ReferencesStamped ==
    /\ recordedAt' \in Seq(Nat) /\ Len(recordedAt') = Len(deployments')
    /\ updatedAt' \in Seq(Nat) /\ Len(updatedAt') = Len(deployments')
    /\ \A d \in DeploymentIds :
           /\ references[d] # "none" =>
                  /\ references'[d] # "none"
                  /\ recordedAt'[d] = recordedAt[d]
                  /\ updatedAt'[d] \in {updatedAt[d], clock}
           /\ references[d] \in Spent =>
                  /\ references'[d] = references[d]
                  /\ updatedAt'[d] = updatedAt[d]
           /\ references[d] = "none" /\ references'[d] # "none" =>
                  /\ recordedAt'[d] = clock
                  /\ updatedAt'[d] = clock
                  /\ deployments[d].state \in RollbackEligible
                  /\ UNCHANGED <<deployments, transitions>>

(* References are stamped when they are recorded and until they are spent. *)
LEMMA ReferencesStep ==
    ASSUME TypeOK, RowsTyped, SourcesExist, [AuditNext]_auditVars
    PROVE  ReferencesStamped
<1>0. /\ recordedAt \in Seq(Nat) /\ Len(recordedAt) = Len(deployments)
      /\ updatedAt \in Seq(Nat) /\ Len(updatedAt) = Len(deployments)
      /\ clock \in Nat
      /\ DOMAIN recordedAt = DeploymentIds /\ DOMAIN updatedAt = DeploymentIds
      /\ \A d \in DeploymentIds : recordedAt[d] \in Nat /\ updatedAt[d] \in Nat
      /\ Len(deployments') = Len(createdAt')
      /\ \A d \in DeploymentIds : references[d] \in ReferenceState
  BY RowDomains, CreatedStep, Rows DEF RowsTyped, CreatedStamped
<1>1. ASSUME UNCHANGED <<recordedAt, updatedAt, references>>,
             Len(deployments') = Len(deployments)
      PROVE  ReferencesStamped
  BY <1>0, <1>1 DEF ReferencesStamped
<1>2. ASSUME NEW req \in Request, ReserveAt(req) PROVE ReferencesStamped
  <2>1. /\ Reserve(req)
        /\ recordedAt' = Append(recordedAt, Null)
        /\ updatedAt' = Append(updatedAt, Null)
        /\ createdAt' = Append(createdAt, clock)
    BY <1>2 DEF ReserveAt
  <2>2. Null \in Nat
    BY DEF Null
  <2>3. /\ recordedAt' \in Seq(Nat) /\ Len(recordedAt') = Len(deployments) + 1
        /\ \A d \in DeploymentIds : recordedAt'[d] = recordedAt[d]
    BY <1>0, <2>1, <2>2, RowInserted
  <2>4. /\ updatedAt' \in Seq(Nat) /\ Len(updatedAt') = Len(deployments) + 1
        /\ \A d \in DeploymentIds : updatedAt'[d] = updatedAt[d]
    BY <1>0, <2>1, <2>2, RowInserted
  <2>5. Len(createdAt') = Len(deployments) + 1
    BY <1>0, <2>1, RowInserted DEF RowsTyped
  <2>6. \A d \in DeploymentIds : references'[d] = references[d]
    BY <2>1, ReserveEffect
  <2>7. QED
    BY <1>0, <2>3, <2>4, <2>5, <2>6 DEF ReferencesStamped, Spent
<1>3. ASSUME NEW d \in DeploymentIds, RecordReferenceAt(d)
      PROVE  ReferencesStamped
  <2>1. /\ RecordReference(d) /\ UNCHANGED <<deployments, transitions>>
        /\ deployments[d].state \in RollbackEligible
        /\ references[d] \in {"none", "active"}
    BY <1>3 DEF RecordReferenceAt, RecordReference, EligibleSource,
                RollbackEligible, Terminal
  <2>2. \A r \in DeploymentIds :
            references'[r] =
                CASE r = d -> "active"
                  [] r # d /\ references[d] # "active"
                           /\ references[r] = "active"
                           /\ deployments[r].env = deployments[d].env
                       -> "superseded"
                  [] OTHER -> references[r]
    BY <2>1, RecordEffect
  <2>3. /\ recordedAt' = [r \in DeploymentIds |->
               IF references[r] = "none" /\ references'[r] = "active"
               THEN clock ELSE recordedAt[r]]
        /\ updatedAt' = [r \in DeploymentIds |->
               IF references'[r] # references[r] THEN clock ELSE updatedAt[r]]
    BY <1>0, <1>3 DEF RecordReferenceAt
  <2>4. /\ recordedAt' \in [DOMAIN recordedAt -> Nat]
        /\ updatedAt' \in [DOMAIN updatedAt -> Nat]
    BY <1>0, <2>3
  <2>5. /\ recordedAt' \in Seq(Nat) /\ Len(recordedAt') = Len(deployments)
        /\ updatedAt' \in Seq(Nat) /\ Len(updatedAt') = Len(deployments)
    BY <1>0, <2>4, RowsUpdated
  <2>6. ASSUME NEW r \in DeploymentIds
        PROVE  /\ references[r] # "none" =>
                      /\ references'[r] # "none"
                      /\ recordedAt'[r] = recordedAt[r]
                      /\ updatedAt'[r] \in {updatedAt[r], clock}
               /\ references[r] \in Spent =>
                      /\ references'[r] = references[r]
                      /\ updatedAt'[r] = updatedAt[r]
               /\ references[r] = "none" /\ references'[r] # "none" =>
                      /\ recordedAt'[r] = clock
                      /\ updatedAt'[r] = clock
                      /\ r = d
    BY <2>1, <2>2, <2>3 DEF Spent
  <2>7. QED
    BY <2>1, <2>5, <2>6 DEF ReferencesStamped
<1>4. ASSUME NEW o \in OperationIds, NEW s \in {"succeeded", "failed"},
             FinishOperationAt(o, s)
      PROVE  ReferencesStamped
  <2>1. /\ FinishOperation(o, s) /\ UNCHANGED <<recordedAt, deployments>>
        /\ updatedAt' = IF s = "succeeded"
                        THEN [updatedAt EXCEPT ![operations[o].source] = clock]
                        ELSE updatedAt
    BY <1>4 DEF FinishOperationAt, FinishOperation
  <2>2. PICK d \in DeploymentIds : d = operations[o].source
    BY <1>4 DEF SourcesExist
  <2>3. s = "succeeded" => references[d] = "active"
    BY <2>1, <2>2 DEF FinishOperation
  <2>4. \A r \in DeploymentIds :
            references'[r] = IF s = "succeeded" /\ r = d
                             THEN "consumed" ELSE references[r]
    BY <1>4, <2>1, <2>2, FinishEffect
  <2>5. /\ updatedAt' \in Seq(Nat) /\ Len(updatedAt') = Len(deployments)
        /\ \A r \in DeploymentIds :
               updatedAt'[r] = IF s = "succeeded" /\ r = d
                               THEN clock ELSE updatedAt[r]
    BY <1>0, <2>1, <2>2, CellUpdated DEF DeploymentIds
  <2>6. QED
    BY <1>0, <2>1, <2>3, <2>4, <2>5 DEF ReferencesStamped, Spent
<1>5. ASSUME NEW d \in DeploymentIds, NEW from \in DeploymentState,
             NEW to \in DeploymentState, TransitionAt(d, from, to)
      PROVE  ReferencesStamped
  <2>1. UNCHANGED <<recordedAt, updatedAt, references, createdAt>>
    BY <1>5 DEF TransitionAt, Transition
  <2>2. QED
    BY <1>0, <1>1, <2>1 DEF RowsTyped
<1>6. ASSUME NEW d \in DeploymentIds, NEW from \in DeploymentState,
             RecoverDeploymentAt(d, from)
      PROVE  ReferencesStamped
  <2>1. UNCHANGED <<recordedAt, updatedAt, references, createdAt>>
    BY <1>6 DEF RecoverDeploymentAt, RecoverDeployment
  <2>2. QED
    BY <1>0, <1>1, <2>1 DEF RowsTyped
<1>7. ASSUME NEW d \in DeploymentIds,
             \/ StartStepAt(d) \/ BeginOperationAt(d)
             \/ \E s \in {"succeeded", "failed"} : FinishStepAt(d, s)
      PROVE  ReferencesStamped
  BY <1>1, <1>7 DEF StartStepAt, FinishStepAt, BeginOperationAt,
                    StartStep, FinishStep, BeginOperation
<1>8. ASSUME NEW o \in OperationIds, RecoverOperationAt(o)
      PROVE  ReferencesStamped
  BY <1>1, <1>8 DEF RecoverOperationAt, RecoverOperation
<1>9. ASSUME NEW i \in incidents, AcknowledgeAt(i) PROVE ReferencesStamped
  BY <1>1, <1>9 DEF AcknowledgeAt, Acknowledge
<1>10. ASSUME NEW batch \in SUBSET Prunable, PruneAt(batch)
       PROVE  ReferencesStamped
  BY <1>1, <1>10 DEF PruneAt, Prune, rowVars
<1>11. CASE Tick \/ Read \/ UNCHANGED auditVars
  BY <1>1, <1>11, NothingWritten DEF storeVars, rowVars
<1>12. QED
  BY <1>2, <1>3, <1>4, <1>5, <1>6, <1>7, <1>8, <1>9, <1>10, <1>11
  DEF AuditNext, Write

(* rollback_operations. *)
OperationsStamped ==
    /\ startedAt' \in Seq(Nat) /\ Len(startedAt') = Len(operations')
    /\ finishedAt' \in Seq(Nat) /\ Len(finishedAt') = Len(operations')
    /\ \A o \in OperationIds :
           /\ o \in OperationIds'
           /\ operations'[o].source = operations[o].source
           /\ startedAt'[o] = startedAt[o]
           /\ \/ /\ operations'[o].state = operations[o].state
                 /\ finishedAt'[o] = finishedAt[o]
              \/ /\ operations[o].state = "started"
                 /\ operations'[o].state \in {"succeeded", "failed"}
                 /\ finishedAt'[o] = clock
    /\ \A o \in OperationIds' \ OperationIds :
           /\ operations'[o].source \in DeploymentIds
           /\ references[operations'[o].source] # "none"
           /\ operations'[o].state = "started"
           /\ startedAt'[o] = clock

(* Closing an operation stamps its end. *)
LEMMA OperationClosed ==
    ASSUME TypeOK, RowsTyped, NEW o \in OperationIds,
           NEW s \in {"succeeded", "failed"},
           operations[o].state = "started",
           operations' = [operations EXCEPT ![o].state = s],
           UNCHANGED startedAt,
           finishedAt' = [finishedAt EXCEPT ![o] = clock]
    PROVE  OperationsStamped
<1>1. /\ startedAt \in Seq(Nat) /\ Len(startedAt) = Len(operations)
      /\ finishedAt \in Seq(Nat) /\ Len(finishedAt) = Len(operations)
      /\ clock \in Nat /\ operations \in Seq(OperationRow)
  BY DEF RowsTyped, TypeOK
<1>2. /\ operations' \in Seq(OperationRow) /\ OperationIds' = OperationIds
      /\ \A p \in OperationIds :
             /\ operations'[p].source = operations[p].source
             /\ operations'[p].state = IF p = o THEN s ELSE operations[p].state
  BY CloseEffect
<1>3. Len(operations') = Len(operations)
  <2>1. Len(operations') \in Nat /\ Len(operations) \in Nat
    BY <1>1, <1>2, LenProperties
  <2>2. QED
    BY <1>2, <2>1 DEF OperationIds
<1>4. /\ finishedAt' \in Seq(Nat) /\ Len(finishedAt') = Len(operations)
      /\ \A p \in OperationIds :
             finishedAt'[p] = IF p = o THEN clock ELSE finishedAt[p]
  BY <1>1, CellUpdated DEF OperationIds
<1>5. QED
  BY <1>1, <1>2, <1>3, <1>4 DEF OperationsStamped

(* An operation is stamped when it begins and once more when it ends. *)
LEMMA OperationsStep ==
    ASSUME TypeOK, RowsTyped, [AuditNext]_auditVars
    PROVE  OperationsStamped
<1>0. /\ startedAt \in Seq(Nat) /\ Len(startedAt) = Len(operations)
      /\ finishedAt \in Seq(Nat) /\ Len(finishedAt) = Len(operations)
      /\ clock \in Nat /\ operations \in Seq(OperationRow)
      /\ DOMAIN startedAt = OperationIds /\ DOMAIN finishedAt = OperationIds
  BY RowDomains DEF RowsTyped, TypeOK
<1>1. ASSUME UNCHANGED <<startedAt, finishedAt, operations>>
      PROVE  OperationsStamped
  BY <1>0, <1>1 DEF OperationsStamped, OperationIds
<1>2. ASSUME NEW d \in DeploymentIds, BeginOperationAt(d)
      PROVE  OperationsStamped
  <2>1. /\ BeginOperation(d) /\ references[d] = "active"
        /\ startedAt' = Append(startedAt, clock)
        /\ finishedAt' = Append(finishedAt, Null)
    BY <1>2 DEF BeginOperationAt, BeginOperation
  <2>2. PICK n : n = Len(operations) + 1
    OBVIOUS
  <2>3. /\ OperationIds' = OperationIds \cup {n} /\ n \notin OperationIds
        /\ \A o \in OperationIds : operations'[o] = operations[o]
        /\ operations'[n].source = d
        /\ operations'[n].state = "started"
    BY <2>1, <2>2, BeginEffect
  <2>4. Len(operations') = n
    <3>1. Len(operations') = Len(operations) + 1
      BY <1>0, <2>1, LenProperties DEF BeginOperation
    <3>2. QED
      BY <2>2, <3>1
  <2>5. /\ startedAt' \in Seq(Nat) /\ Len(startedAt') = n
        /\ \A o \in OperationIds : startedAt'[o] = startedAt[o]
        /\ startedAt'[n] = clock
    BY <1>0, <2>1, <2>2, RowInserted
  <2>6. Null \in Nat
    BY DEF Null
  <2>7. /\ finishedAt' \in Seq(Nat) /\ Len(finishedAt') = n
        /\ \A o \in OperationIds : finishedAt'[o] = finishedAt[o]
    BY <1>0, <2>1, <2>2, <2>6, RowInserted
  <2>8. QED
    BY <2>1, <2>3, <2>4, <2>5, <2>7 DEF OperationsStamped
<1>3. ASSUME NEW o \in OperationIds, NEW s \in {"succeeded", "failed"},
             FinishOperationAt(o, s)
      PROVE  OperationsStamped
  BY <1>3, OperationClosed DEF FinishOperationAt, FinishOperation
<1>4. ASSUME NEW o \in OperationIds, RecoverOperationAt(o)
      PROVE  OperationsStamped
  <2>1. /\ operations[o].state = "started"
        /\ operations' = [operations EXCEPT ![o].state = "failed"]
        /\ UNCHANGED startedAt
        /\ finishedAt' = [finishedAt EXCEPT ![o] = clock]
    BY <1>4 DEF RecoverOperationAt, RecoverOperation
  <2>2. QED
    BY <2>1, OperationClosed
<1>5. ASSUME NEW req \in Request, ReserveAt(req) PROVE OperationsStamped
  BY <1>1, <1>5 DEF ReserveAt, Reserve
<1>6. ASSUME NEW d \in DeploymentIds,
             \/ StartStepAt(d) \/ RecordReferenceAt(d)
             \/ \E s \in {"succeeded", "failed"} : FinishStepAt(d, s)
             \/ \E from, to \in DeploymentState : TransitionAt(d, from, to)
             \/ \E from \in DeploymentState : RecoverDeploymentAt(d, from)
      PROVE  OperationsStamped
  BY <1>1, <1>6
  DEF StartStepAt, RecordReferenceAt, FinishStepAt, TransitionAt,
      RecoverDeploymentAt, StartStep, RecordReference, FinishStep, Transition,
      RecoverDeployment
<1>7. ASSUME NEW i \in incidents, AcknowledgeAt(i) PROVE OperationsStamped
  BY <1>1, <1>7 DEF AcknowledgeAt, Acknowledge
<1>8. ASSUME NEW batch \in SUBSET Prunable, PruneAt(batch)
      PROVE  OperationsStamped
  BY <1>1, <1>8 DEF PruneAt, Prune, rowVars
<1>9. CASE Tick \/ Read \/ UNCHANGED auditVars
  BY <1>1, <1>9, NothingWritten DEF storeVars, rowVars
<1>10. QED
  BY <1>2, <1>3, <1>4, <1>5, <1>6, <1>7, <1>8, <1>9 DEF AuditNext, Write

(* recovery_incidents and recovery_acknowledgements.  Row n belongs to     *)
(* incident i.                                                             *)
RowOf(n, i) ==
    incidentRows[n].kind = i.kind /\ incidentRows[n].subject = i.subject

(* What a new row is about: a record that this step failed. *)
JustFailed(kind, subject) ==
    \/ /\ kind = "deployment" /\ subject \in DeploymentIds
       /\ deployments'[subject].state = "failed"
    \/ /\ kind = "rollback_operation" /\ subject \in OperationIds
       /\ operations'[subject].state = "failed"
       /\ operations[subject].state = "started"

IncidentsStamped ==
    /\ incidentRows' \in Seq(RecoveryRow)
    /\ \A n \in DOMAIN incidentRows :
           /\ n \in DOMAIN incidentRows'
           /\ incidentRows'[n].kind = incidentRows[n].kind
           /\ incidentRows'[n].subject = incidentRows[n].subject
           /\ incidentRows'[n].at = incidentRows[n].at
           /\ \/ incidentRows'[n] = incidentRows[n]
              \/ /\ incidentRows'[n].acknowledged = clock
                 /\ \E i \in incidents : /\ RowOf(n, i)
                                         /\ i.status = "unresolved"
                                         /\ Acknowledge(i)
    /\ \A n \in DOMAIN incidentRows' \ DOMAIN incidentRows :
           /\ incidentRows'[n].at = clock
           /\ incidentRows'[n].acknowledged = Null
           /\ JustFailed(incidentRows'[n].kind, incidentRows'[n].subject)
           /\ \E i \in incidents' :
                  /\ RowOf(n, i)'
                  /\ i.kind = "rollback_operation" => i.status = "unresolved"

(* The row of a new incident. *)
LEMMA IncidentRowInserted ==
    ASSUME TypeOK, RowsTyped, NEW kind \in {"deployment", "rollback_operation"},
           NEW subject \in Nat, JustFailed(kind, subject),
           incidentRows' = NewIncident(kind, subject),
           \E i \in incidents' :
               /\ i.kind = kind /\ i.subject = subject
               /\ kind = "rollback_operation" => i.status = "unresolved"
    PROVE  IncidentsStamped
<1>1. incidentRows \in Seq(RecoveryRow) /\ clock \in Nat
  BY DEF RowsTyped
<1>2. PICK row : row = [kind |-> kind, subject |-> subject, at |-> clock,
                        acknowledged |-> Null]
  OBVIOUS
<1>3. /\ row \in RecoveryRow /\ row.kind = kind /\ row.subject = subject
      /\ row.at = clock /\ row.acknowledged = Null
  BY <1>1, <1>2 DEF RecoveryRow, Null
<1>4. incidentRows' = Append(incidentRows, row)
  BY <1>2 DEF NewIncident
<1>5. PICK n : n = Len(incidentRows) + 1
  OBVIOUS
<1>6. /\ incidentRows' \in Seq(RecoveryRow)
      /\ n \notin DOMAIN incidentRows
      /\ DOMAIN incidentRows' = DOMAIN incidentRows \cup {n}
      /\ \A m \in DOMAIN incidentRows : incidentRows'[m] = incidentRows[m]
      /\ incidentRows'[n] = row
  BY <1>1, <1>3, <1>4, <1>5, RowInserted
<1>7. \E i \in incidents' :
          /\ RowOf(n, i)'
          /\ i.kind = "rollback_operation" => i.status = "unresolved"
  BY <1>3, <1>6 DEF RowOf
<1>8. QED
  BY <1>3, <1>6, <1>7 DEF IncidentsStamped

(* Incident rows are written with a failure and acknowledged once. *)
LEMMA IncidentsStep ==
    ASSUME TypeOK, RowsTyped, [AuditNext]_auditVars
    PROVE  IncidentsStamped
<1>0. /\ incidentRows \in Seq(RecoveryRow) /\ clock \in Nat
      /\ \A n \in DOMAIN incidentRows : incidentRows[n] \in RecoveryRow
      /\ DeploymentIds \subseteq Nat /\ OperationIds \subseteq Nat
  BY RowDomains DEF RowsTyped, DeploymentIds, OperationIds
<1>1. ASSUME UNCHANGED incidentRows PROVE IncidentsStamped
  BY <1>0, <1>1 DEF IncidentsStamped
<1>2. ASSUME NEW d \in DeploymentIds, NEW from \in DeploymentState,
             RecoverDeploymentAt(d, from)
      PROVE  IncidentsStamped
  <2>1. /\ RecoverDeployment(d, from)
        /\ incidentRows' = NewIncident("deployment", d)
        /\ deployments' = [deployments EXCEPT ![d].state = "failed"]
    BY <1>2 DEF RecoverDeploymentAt, RecoverDeployment
  <2>2. "failed" \in DeploymentState
    BY DEF DeploymentState
  <2>3. \A c \in DeploymentIds :
            deployments'[c].state = IF c = d THEN "failed"
                                    ELSE deployments[c].state
    BY <2>1, <2>2, UpdateEffect
  <2>4. JustFailed("deployment", d)
    BY <2>3 DEF JustFailed
  <2>5. PICK i : i = [kind |-> "deployment", subject |-> d,
                      env |-> deployments[d].env, status |-> Disposition(from)]
    OBVIOUS
  <2>6. i \in incidents' /\ i.kind = "deployment" /\ i.subject = d
    BY <2>1, <2>5, RecoverDeploymentEffect
  <2>7. QED
    BY <1>0, <2>1, <2>4, <2>6, IncidentRowInserted
<1>3. ASSUME NEW o \in OperationIds, RecoverOperationAt(o)
      PROVE  IncidentsStamped
  <2>1. /\ RecoverOperation(o)
        /\ incidentRows' = NewIncident("rollback_operation", o)
        /\ operations[o].state = "started"
        /\ operations' = [operations EXCEPT ![o].state = "failed"]
    BY <1>3 DEF RecoverOperationAt, RecoverOperation
  <2>2. \A p \in OperationIds :
            operations'[p].state = IF p = o THEN "failed"
                                   ELSE operations[p].state
    BY <2>1, CloseEffect
  <2>3. JustFailed("rollback_operation", o)
    BY <2>1, <2>2 DEF JustFailed
  <2>4. PICK i : i = [kind |-> "rollback_operation", subject |-> o,
                      env |-> operations[o].env, status |-> "unresolved"]
    OBVIOUS
  <2>5. /\ i \in incidents' /\ i.kind = "rollback_operation"
        /\ i.subject = o /\ i.status = "unresolved"
    BY <2>1, <2>4, RecoverOperationEffect
  <2>6. QED
    BY <1>0, <2>1, <2>3, <2>5, IncidentRowInserted
<1>4. ASSUME NEW i \in incidents, AcknowledgeAt(i) PROVE IncidentsStamped
  <2>1. /\ Acknowledge(i) /\ i.status = "unresolved"
        /\ incidentRows' = [n \in DOMAIN incidentRows |->
               IF RowOf(n, i)
               THEN [incidentRows[n] EXCEPT !.acknowledged = clock]
               ELSE incidentRows[n]]
    BY <1>4 DEF AcknowledgeAt, Acknowledge, RowOf
  <2>2. ASSUME NEW n \in DOMAIN incidentRows
        PROVE  /\ incidentRows'[n] \in RecoveryRow
               /\ incidentRows'[n].kind = incidentRows[n].kind
               /\ incidentRows'[n].subject = incidentRows[n].subject
               /\ incidentRows'[n].at = incidentRows[n].at
               /\ \/ incidentRows'[n] = incidentRows[n]
                  \/ RowOf(n, i) /\ incidentRows'[n].acknowledged = clock
    BY <1>0, <2>1 DEF RecoveryRow
  <2>3. incidentRows' \in [DOMAIN incidentRows -> RecoveryRow]
    BY <2>1, <2>2
  <2>4. /\ incidentRows' \in Seq(RecoveryRow)
        /\ DOMAIN incidentRows' = DOMAIN incidentRows
    BY <1>0, <2>3, RowsUpdated
  <2>5. QED
    BY <2>1, <2>2, <2>4 DEF IncidentsStamped
<1>5. ASSUME NEW req \in Request, ReserveAt(req) PROVE IncidentsStamped
  BY <1>1, <1>5 DEF ReserveAt
<1>6. ASSUME NEW d \in DeploymentIds,
             \/ StartStepAt(d) \/ RecordReferenceAt(d) \/ BeginOperationAt(d)
             \/ \E s \in {"succeeded", "failed"} : FinishStepAt(d, s)
             \/ \E from, to \in DeploymentState : TransitionAt(d, from, to)
      PROVE  IncidentsStamped
  BY <1>1, <1>6 DEF StartStepAt, RecordReferenceAt, BeginOperationAt,
                    FinishStepAt, TransitionAt
<1>7. ASSUME NEW o \in OperationIds, NEW s \in {"succeeded", "failed"},
             FinishOperationAt(o, s)
      PROVE  IncidentsStamped
  BY <1>1, <1>7 DEF FinishOperationAt
<1>8. ASSUME NEW batch \in SUBSET Prunable, PruneAt(batch)
      PROVE  IncidentsStamped
  BY <1>1, <1>8 DEF PruneAt, rowVars
<1>9. CASE Tick \/ Read \/ UNCHANGED auditVars
  BY <1>1, <1>9, NothingWritten DEF rowVars
<1>10. QED
  BY <1>2, <1>3, <1>4, <1>5, <1>6, <1>7, <1>8, <1>9 DEF AuditNext, Write
-----------------------------------------------------------------------------
(* What the rows record of the past.                                       *)

(* The clock never runs backwards. *)
LEMMA ClockStep ==
    ASSUME RowsTyped, [AuditNext]_auditVars
    PROVE  clock' \in Nat /\ clock' > 0 /\ clock <= clock'
<1>1. clock' = clock \/ clock' = clock + 1
  BY DEF AuditNext, Tick, Write, Read, ReadRows, ReadDetails, auditVars
<1>2. clock \in Nat /\ clock > 0
  BY DEF RowsTyped
<1>3. QED
  BY <1>1, <1>2

(* The transition of a deployment that moves is the last row. *)
LEMMA TransitionInserted ==
    ASSUME TypeOK, RowsTyped, NEW d \in DeploymentIds,
           NEW to \in DeploymentState, Moves(d, to)
    PROVE  LET n == Len(transitions) + 1 IN
           /\ transitions' \in Seq(TransitionRow)
           /\ n \in Nat /\ n \notin DOMAIN transitions
           /\ DOMAIN transitions' = DOMAIN transitions \cup {n}
           /\ \A m \in DOMAIN transitions :
                  m \in Nat /\ m < n /\ transitions'[m] = transitions[m]
           /\ transitions'[n].deployment = d
           /\ transitions'[n].from = deployments[d].state
           /\ transitions'[n].to = to
           /\ transitions'[n].at = clock
<1>1. /\ transitions \in Seq(TransitionRow) /\ clock \in Nat
      /\ d \in Nat /\ deployments[d].state \in DeploymentState
  <2>1. /\ Len(deployments) \in Nat
        /\ deployments[d].state \in DeploymentState
    BY Rows
  <2>2. QED
    BY <2>1 DEF RowsTyped, DeploymentIds
<1>2. PICK row : row = [deployment |-> d, from |-> deployments[d].state,
                        to |-> to, at |-> clock]
  OBVIOUS
<1>3. /\ row \in TransitionRow /\ row.deployment = d /\ row.to = to
      /\ row.from = deployments[d].state /\ row.at = clock
  BY <1>1, <1>2 DEF TransitionRow
<1>4. transitions' = Append(transitions, row)
  BY <1>2 DEF Moves, TransitionTo
<1>5. PICK n : n = Len(transitions) + 1
  OBVIOUS
<1>6. /\ transitions' \in Seq(TransitionRow)
      /\ n \notin DOMAIN transitions
      /\ DOMAIN transitions' = DOMAIN transitions \cup {n}
      /\ DOMAIN transitions = 1 .. Len(transitions)
      /\ \A m \in DOMAIN transitions :
             m < n /\ transitions'[m] = transitions[m]
      /\ transitions'[n] = row
  BY <1>1, <1>3, <1>4, <1>5, RowInserted
<1>7. Len(transitions) \in Nat
  BY <1>1, LenProperties
<1>8. n \in Nat /\ \A m \in DOMAIN transitions : m \in Nat
  BY <1>5, <1>6, <1>7
<1>9. QED
  BY <1>3, <1>5, <1>6, <1>8

(* The tables stay well formed. *)
LEMMA RowsStep ==
    ASSUME TypeOK, RowsTyped, SourcesExist, [AuditNext]_auditVars
    PROVE  RowsTyped'
<1>1. transitions' \in Seq(TransitionRow)
  <2>1. CASE Stays
    BY <2>1 DEF Stays, RowsTyped
  <2>2. ASSUME NEW d \in DeploymentIds,
               NEW to \in DeploymentState \ {"created"}, Moves(d, to)
        PROVE  transitions' \in Seq(TransitionRow)
    BY <2>2, TransitionInserted
  <2>3. QED
    BY <2>1, <2>2, MovesStep DEF MovesLogged
<1>2. CreatedStamped /\ AttemptsStamped /\ ReferencesStamped
      /\ OperationsStamped /\ IncidentsStamped
  BY CreatedStep, AttemptsStep, ReferencesStep, OperationsStep, IncidentsStep
<1>3. QED
  BY <1>1, <1>2, ClockStep
  DEF RowsTyped, CreatedStamped, AttemptsStamped, ReferencesStamped,
      OperationsStamped, IncidentsStamped

CreatedPast ==
    \A d \in DeploymentIds : 0 < createdAt[d] /\ createdAt[d] <= clock

TransitionPast(n) ==
    /\ transitions[n].deployment \in DeploymentIds
    /\ createdAt[transitions[n].deployment] <= transitions[n].at
    /\ transitions[n].at <= clock
    /\ \A m \in DOMAIN transitions :
           m < n /\ transitions[m].deployment = transitions[n].deployment
               => transitions[m].at <= transitions[n].at

AttemptPast(n) ==
    /\ attempts[n].deployment \in DeploymentIds
    /\ createdAt[attempts[n].deployment] <= attempts[n].started
    /\ attempts[n].started <= clock
    /\ attempts[n].status # "started" =>
           /\ attempts[n].started <= attempts[n].finished
           /\ attempts[n].finished <= clock

(* The reference of d was recorded when d was decided. *)
ReferencePast(d) ==
    /\ deployments[d].state \in RollbackEligible
    /\ createdAt[d] <= recordedAt[d]
    /\ recordedAt[d] <= updatedAt[d]
    /\ updatedAt[d] <= clock
    /\ \A n \in DOMAIN transitions :
           transitions[n].deployment = d => transitions[n].at <= recordedAt[d]

OperationPast(o) ==
    /\ operations[o].source \in DeploymentIds
    /\ references[operations[o].source] # "none"
    /\ recordedAt[operations[o].source] <= startedAt[o]
    /\ startedAt[o] <= clock
    /\ operations[o].state # "started" =>
           startedAt[o] <= finishedAt[o] /\ finishedAt[o] <= clock

(* An incident was recorded with the failure of its subject, which nothing *)
(* touches since.                                                          *)
DeploymentFailedBy(d, at) ==
    /\ d \in DeploymentIds
    /\ deployments[d].state = "failed"
    /\ createdAt[d] <= at
    /\ \A n \in DOMAIN transitions :
           transitions[n].deployment = d => transitions[n].at <= at

OperationFailedBy(o, at) ==
    /\ o \in OperationIds
    /\ operations[o].state = "failed"
    /\ finishedAt[o] <= at

IncidentPast(n) ==
    /\ incidentRows[n].at <= clock
    /\ incidentRows[n].acknowledged # Null =>
           /\ incidentRows[n].at <= incidentRows[n].acknowledged
           /\ incidentRows[n].acknowledged <= clock
    /\ \/ /\ incidentRows[n].kind = "deployment"
          /\ DeploymentFailedBy(incidentRows[n].subject, incidentRows[n].at)
       \/ /\ incidentRows[n].kind = "rollback_operation"
          /\ OperationFailedBy(incidentRows[n].subject, incidentRows[n].at)

(* A row that was acknowledged belongs to an incident that was resolved,   *)
(* so no second acknowledgement stamps it.                                 *)
IncidentLinked(n) ==
    \E i \in incidents :
        /\ RowOf(n, i)
        /\ incidentRows[n].acknowledged # Null => i.status # "unresolved"

(* The inductive invariant: every timestamp lies in the past, in the order *)
(* of the causes that the rows record.                                     *)
Chronicle ==
    /\ CreatedPast
    /\ \A n \in DOMAIN transitions : TransitionPast(n)
    /\ \A n \in DOMAIN attempts : AttemptPast(n)
    /\ \A d \in DeploymentIds : references[d] # "none" => ReferencePast(d)
    /\ \A o \in OperationIds : OperationPast(o)
    /\ \A n \in DOMAIN incidentRows : IncidentPast(n) /\ IncidentLinked(n)

(* A deployment's stamp never changes. *)
LEMMA CreatedKept ==
    ASSUME TypeOK, RowsTyped, Chronicle, [AuditNext]_auditVars
    PROVE  /\ DeploymentIds \subseteq DeploymentIds'
           /\ \A d \in DeploymentIds : createdAt'[d] = createdAt[d]
           /\ CreatedPast'
           /\ clock \in Nat /\ clock' \in Nat /\ clock <= clock'
           /\ \A d \in DeploymentIds : createdAt[d] \in Nat /\ createdAt[d] <= clock
<1>1. /\ CreatedStamped /\ CreatedPast
      /\ \A d \in DeploymentIds : createdAt[d] \in Nat
      /\ clock \in Nat /\ clock > 0
      /\ clock' \in Nat /\ clock <= clock'
  BY CreatedStep, ClockStep, RowDomains DEF Chronicle
<1>2. /\ DeploymentIds \subseteq DeploymentIds'
      /\ \A d \in DeploymentIds : createdAt'[d] = createdAt[d]
      /\ \A d \in DeploymentIds' \ DeploymentIds : createdAt'[d] = clock
  BY <1>1 DEF CreatedStamped
<1>3. CreatedPast'
  <2>1. ASSUME NEW d \in DeploymentIds'
        PROVE  0 < createdAt'[d] /\ createdAt'[d] <= clock'
    <3>1. CASE d \in DeploymentIds
      BY <1>1, <1>2, <3>1 DEF CreatedPast
    <3>2. CASE d \notin DeploymentIds
      BY <1>1, <1>2, <3>2
    <3>3. QED
      BY <3>1, <3>2
  <2>2. QED
    BY <2>1 DEF CreatedPast
<1>4. QED
  BY <1>1, <1>2, <1>3 DEF CreatedPast

(* A row of the transitions that is kept still lies in the past. *)
LEMMA TransitionPastKept ==
    ASSUME TypeOK, RowsTyped, Chronicle, [AuditNext]_auditVars,
           NEW n \in DOMAIN transitions, transitions'[n] = transitions[n],
           \A m \in DOMAIN transitions' :
               m < n => m \in DOMAIN transitions
                        /\ transitions'[m] = transitions[m]
    PROVE  TransitionPast(n)'
<1>1. TransitionPast(n) /\ transitions[n].at \in Nat
  BY RowDomains DEF Chronicle, TransitionRow
<1>2. PICK c : c = transitions[n].deployment
  OBVIOUS
<1>3. /\ c \in DeploymentIds' /\ createdAt'[c] <= transitions[n].at
      /\ transitions[n].at <= clock'
  BY <1>1, <1>2, CreatedKept DEF TransitionPast
<1>4. \A m \in DOMAIN transitions' :
          m < n /\ transitions'[m].deployment = c
              => transitions'[m].at <= transitions[n].at
  BY <1>1, <1>2 DEF TransitionPast
<1>5. QED
  BY <1>2, <1>3, <1>4 DEF TransitionPast

(* Transitions are recorded in the order of time. *)
LEMMA TransitionsPast ==
    ASSUME TypeOK, RowsTyped, Chronicle, [AuditNext]_auditVars
    PROVE  \A n \in DOMAIN transitions' : TransitionPast(n)'
<1>1. CASE Stays
  BY <1>1, TransitionPastKept DEF Stays
<1>2. ASSUME NEW d \in DeploymentIds,
             NEW to \in DeploymentState \ {"created"}, Moves(d, to),
             NEW n \in DOMAIN transitions'
      PROVE  TransitionPast(n)'
  <2>1. PICK l : l = Len(transitions) + 1
    OBVIOUS
  <2>2. /\ l \in Nat /\ l \notin DOMAIN transitions
        /\ DOMAIN transitions' = DOMAIN transitions \cup {l}
        /\ \A m \in DOMAIN transitions :
               m \in Nat /\ m < l /\ transitions'[m] = transitions[m]
        /\ transitions'[l].deployment = d
        /\ transitions'[l].at = clock
    BY <1>2, <2>1, TransitionInserted
  <2>3. CASE n # l
    BY <2>2, <2>3, TransitionPastKept
  <2>4. CASE n = l
    <3>1. /\ d \in DeploymentIds' /\ createdAt'[d] <= clock
          /\ clock <= clock'
      BY CreatedKept
    <3>2. \A m \in DOMAIN transitions : transitions[m].at <= clock
      BY DEF Chronicle, TransitionPast
    <3>3. \A m \in DOMAIN transitions' :
              m < l => transitions'[m].at <= clock
      BY <2>2, <3>2
    <3>4. TransitionPast(l)'
      BY <2>2, <3>1, <3>3 DEF TransitionPast
    <3>5. QED
      BY <2>4, <3>4
  <2>5. QED
    BY <2>3, <2>4
<1>3. QED
  BY <1>1, <1>2, MovesStep DEF MovesLogged

(* Attempts end after they started. *)
LEMMA AttemptsPast ==
    ASSUME TypeOK, RowsTyped, Chronicle, [AuditNext]_auditVars
    PROVE  \A n \in DOMAIN attempts' : AttemptPast(n)'
<1>1. SUFFICES ASSUME NEW n \in DOMAIN attempts' PROVE AttemptPast(n)'
  OBVIOUS
<1>2. AttemptsStamped
  BY AttemptsStep
<1>3. PICK c : c = attempts'[n].deployment
  OBVIOUS
<1>4. CASE n \in DOMAIN attempts
  <2>1. /\ AttemptPast(n) /\ attempts[n].started \in Nat
        /\ attempts[n].finished \in Nat
    BY <1>4, RowDomains DEF Chronicle, AttemptRow
  <2>2. /\ c = attempts[n].deployment
        /\ attempts'[n].started = attempts[n].started
        /\ \/ attempts'[n] = attempts[n]
           \/ attempts'[n].finished = clock
    BY <1>2, <1>3, <1>4 DEF AttemptsStamped
  <2>3. /\ c \in DeploymentIds' /\ createdAt'[c] <= attempts'[n].started
        /\ attempts'[n].started <= clock /\ clock <= clock'
        /\ attempts'[n].started <= clock'
    BY <2>1, <2>2, CreatedKept DEF AttemptPast
  <2>4. attempts'[n].status # "started" =>
            /\ attempts'[n].started <= attempts'[n].finished
            /\ attempts'[n].finished <= clock'
    BY <2>1, <2>2, <2>3, CreatedKept DEF AttemptPast
  <2>5. QED
    BY <1>3, <2>3, <2>4 DEF AttemptPast
<1>5. CASE n \notin DOMAIN attempts
  <2>1. /\ c \in DeploymentIds /\ attempts'[n].started = clock
        /\ attempts'[n].status = "started"
    BY <1>2, <1>3, <1>5 DEF AttemptsStamped
  <2>2. c \in DeploymentIds' /\ createdAt'[c] <= clock /\ clock <= clock'
    BY <2>1, CreatedKept
  <2>3. QED
    BY <1>3, <2>1, <2>2 DEF AttemptPast
<1>6. QED
  BY <1>4, <1>5

(* A decided deployment makes no more transitions. *)
LEMMA DecidedKept ==
    ASSUME TypeOK, RowsTyped, [AuditNext]_auditVars,
           NEW d \in DeploymentIds, deployments[d].state \in Terminal
    PROVE  /\ deployments'[d].state = deployments[d].state
           /\ \A n \in DOMAIN transitions' :
                  transitions'[n].deployment = d =>
                      n \in DOMAIN transitions /\ transitions'[n] = transitions[n]
<1>1. CASE Stays
  BY <1>1 DEF Stays
<1>2. ASSUME NEW c \in DeploymentIds,
             NEW to \in DeploymentState \ {"created"}, Moves(c, to)
      PROVE  /\ deployments'[d].state = deployments[d].state
             /\ \A n \in DOMAIN transitions' :
                    transitions'[n].deployment = d =>
                        /\ n \in DOMAIN transitions
                        /\ transitions'[n] = transitions[n]
  <2>1. /\ c # d
        /\ deployments'[d].state = deployments[d].state
    BY <1>2 DEF Moves, NonTerminal
  <2>2. PICK l : l = Len(transitions) + 1
    OBVIOUS
  <2>3. /\ DOMAIN transitions' = DOMAIN transitions \cup {l}
        /\ \A m \in DOMAIN transitions : transitions'[m] = transitions[m]
        /\ transitions'[l].deployment = c
    BY <1>2, <2>2, TransitionInserted
  <2>4. QED
    BY <2>1, <2>3
<1>3. QED
  BY <1>1, <1>2, MovesStep DEF MovesLogged

(* References are recorded after the last transition of their deployment   *)
(* and updated later, until they are spent.                                *)
LEMMA ReferencesPast ==
    ASSUME TypeOK, RowsTyped, Chronicle, SourcesExist, [AuditNext]_auditVars
    PROVE  \A d \in DeploymentIds' :
               references'[d] # "none" => ReferencePast(d)'
<1>1. SUFFICES ASSUME NEW d \in DeploymentIds', references'[d] # "none"
               PROVE  ReferencePast(d)'
  OBVIOUS
<1>2. /\ CreatedStamped /\ ReferencesStamped
      /\ clock \in Nat /\ clock' \in Nat /\ clock <= clock'
  BY CreatedStep, ReferencesStep, CreatedKept
<1>3. d \in DeploymentIds
  BY <1>1, <1>2 DEF CreatedStamped
<1>4. /\ createdAt'[d] = createdAt[d]
      /\ createdAt[d] \in Nat /\ createdAt[d] <= clock
  BY <1>3, CreatedKept
<1>5. CASE references[d] # "none"
  <2>1. ReferencePast(d) /\ recordedAt[d] \in Nat /\ updatedAt[d] \in Nat
    BY <1>3, <1>5, RowDomains DEF Chronicle
  <2>2. /\ recordedAt'[d] = recordedAt[d]
        /\ updatedAt'[d] \in {updatedAt[d], clock}
    BY <1>2, <1>3, <1>5 DEF ReferencesStamped
  <2>3. /\ deployments'[d].state \in RollbackEligible
        /\ \A n \in DOMAIN transitions' :
               transitions'[n].deployment = d =>
                   transitions'[n].at <= recordedAt[d]
    BY <1>3, <2>1, DecidedKept DEF ReferencePast, RollbackEligible, Terminal
  <2>4. /\ createdAt[d] <= recordedAt[d]
        /\ recordedAt[d] <= updatedAt'[d]
        /\ updatedAt'[d] <= clock'
    BY <1>2, <2>1, <2>2 DEF ReferencePast
  <2>5. QED
    BY <1>4, <2>2, <2>3, <2>4 DEF ReferencePast
<1>6. CASE references[d] = "none"
  <2>1. /\ recordedAt'[d] = clock /\ updatedAt'[d] = clock
        /\ deployments[d].state \in RollbackEligible
        /\ UNCHANGED <<deployments, transitions>>
    BY <1>1, <1>2, <1>3, <1>6 DEF ReferencesStamped
  <2>2. \A n \in DOMAIN transitions : transitions[n].at <= clock
    BY DEF Chronicle, TransitionPast
  <2>3. QED
    BY <1>2, <1>4, <2>1, <2>2 DEF ReferencePast
<1>7. QED
  BY <1>5, <1>6

(* Operations begin after the reference of their source was recorded. *)
LEMMA OperationsPast ==
    ASSUME TypeOK, RowsTyped, Chronicle, SourcesExist, [AuditNext]_auditVars
    PROVE  \A o \in OperationIds' : OperationPast(o)'
<1>1. SUFFICES ASSUME NEW o \in OperationIds' PROVE OperationPast(o)'
  OBVIOUS
<1>2. /\ OperationsStamped /\ ReferencesStamped
      /\ clock \in Nat /\ clock' \in Nat /\ clock <= clock'
      /\ DeploymentIds \subseteq DeploymentIds'
  BY OperationsStep, ReferencesStep, CreatedKept
<1>3. ASSUME NEW d \in DeploymentIds, references[d] # "none"
      PROVE  /\ d \in DeploymentIds' /\ references'[d] # "none"
             /\ recordedAt'[d] = recordedAt[d]
             /\ recordedAt[d] <= clock
  <2>1. ReferencePast(d) /\ recordedAt[d] \in Nat /\ updatedAt[d] \in Nat
    BY <1>3, RowDomains DEF Chronicle
  <2>2. recordedAt[d] <= clock
    BY <1>2, <2>1 DEF ReferencePast
  <2>3. QED
    BY <1>2, <1>3, <2>2 DEF ReferencesStamped
<1>4. PICK d : d = operations'[o].source
  OBVIOUS
<1>5. CASE o \in OperationIds
  <2>1. /\ OperationPast(o) /\ startedAt[o] \in Nat /\ finishedAt[o] \in Nat
    BY <1>5, RowDomains DEF Chronicle
  <2>2. /\ d = operations[o].source
        /\ startedAt'[o] = startedAt[o]
        /\ \/ /\ operations'[o].state = operations[o].state
              /\ finishedAt'[o] = finishedAt[o]
           \/ finishedAt'[o] = clock
    BY <1>2, <1>4, <1>5 DEF OperationsStamped
  <2>3. /\ d \in DeploymentIds' /\ references'[d] # "none"
        /\ recordedAt'[d] <= startedAt[o]
    BY <1>3, <2>1, <2>2 DEF OperationPast
  <2>4. /\ startedAt[o] <= clock'
        /\ operations'[o].state # "started" =>
               startedAt[o] <= finishedAt'[o] /\ finishedAt'[o] <= clock'
    BY <1>2, <2>1, <2>2 DEF OperationPast
  <2>5. QED
    BY <1>4, <2>2, <2>3, <2>4 DEF OperationPast
<1>6. CASE o \notin OperationIds
  <2>1. /\ d \in DeploymentIds /\ references[d] # "none"
        /\ operations'[o].state = "started" /\ startedAt'[o] = clock
    BY <1>1, <1>2, <1>4, <1>6 DEF OperationsStamped
  <2>2. QED
    BY <1>2, <1>3, <1>4, <2>1 DEF OperationPast
<1>7. QED
  BY <1>5, <1>6

(* A failure stays on record as it was. *)
LEMMA FailureKept ==
    ASSUME TypeOK, RowsTyped, Chronicle, [AuditNext]_auditVars, NEW c, NEW at
    PROVE  /\ DeploymentFailedBy(c, at) => DeploymentFailedBy(c, at)'
           /\ OperationFailedBy(c, at) => OperationFailedBy(c, at)'
<1>1. ASSUME DeploymentFailedBy(c, at) PROVE DeploymentFailedBy(c, at)'
  <2>1. c \in DeploymentIds /\ deployments[c].state \in Terminal
    BY <1>1 DEF DeploymentFailedBy, Terminal
  <2>2. /\ deployments'[c].state = deployments[c].state
        /\ \A n \in DOMAIN transitions' :
               transitions'[n].deployment = c =>
                   n \in DOMAIN transitions /\ transitions'[n] = transitions[n]
    BY <2>1, DecidedKept
  <2>3. c \in DeploymentIds' /\ createdAt'[c] = createdAt[c]
    BY <2>1, CreatedKept
  <2>4. QED
    BY <1>1, <2>2, <2>3 DEF DeploymentFailedBy
<1>2. ASSUME OperationFailedBy(c, at) PROVE OperationFailedBy(c, at)'
  <2>1. OperationsStamped
    BY OperationsStep
  <2>2. QED
    BY <1>2, <2>1 DEF OperationFailedBy, OperationsStamped
<1>3. QED
  BY <1>1, <1>2

(* An incident is recorded after all that led to its subject's failure,    *)
(* and acknowledged later.                                                 *)
LEMMA IncidentsPast ==
    ASSUME TypeOK, RowsTyped, Chronicle, [AuditNext]_auditVars
    PROVE  \A n \in DOMAIN incidentRows' : IncidentPast(n)'
<1>1. SUFFICES ASSUME NEW n \in DOMAIN incidentRows' PROVE IncidentPast(n)'
  OBVIOUS
<1>2. /\ IncidentsStamped
      /\ clock \in Nat /\ clock' \in Nat /\ clock <= clock'
  BY IncidentsStep, CreatedKept
<1>3. PICK c, at : c = incidentRows'[n].subject /\ at = incidentRows'[n].at
  OBVIOUS
<1>4. CASE n \in DOMAIN incidentRows
  <2>1. /\ IncidentPast(n) /\ incidentRows[n].at \in Nat
        /\ incidentRows[n].acknowledged \in Nat
    BY <1>4, RowDomains DEF Chronicle, RecoveryRow
  <2>2. /\ incidentRows'[n].kind = incidentRows[n].kind
        /\ c = incidentRows[n].subject /\ at = incidentRows[n].at
        /\ \/ incidentRows'[n] = incidentRows[n]
           \/ incidentRows'[n].acknowledged = clock
    BY <1>2, <1>3, <1>4 DEF IncidentsStamped
  <2>3. /\ at <= clock'
        /\ incidentRows'[n].acknowledged # Null =>
               /\ at <= incidentRows'[n].acknowledged
               /\ incidentRows'[n].acknowledged <= clock'
    BY <1>2, <2>1, <2>2 DEF IncidentPast
  <2>4. \/ /\ incidentRows'[n].kind = "deployment"
           /\ DeploymentFailedBy(c, at)'
        \/ /\ incidentRows'[n].kind = "rollback_operation"
           /\ OperationFailedBy(c, at)'
    BY <2>1, <2>2, FailureKept DEF IncidentPast
  <2>5. QED
    BY <1>3, <2>3, <2>4 DEF IncidentPast, DeploymentFailedBy, OperationFailedBy
<1>5. CASE n \notin DOMAIN incidentRows
  <2>1. /\ at = clock /\ incidentRows'[n].acknowledged = Null
        /\ JustFailed(incidentRows'[n].kind, c)
    BY <1>2, <1>3, <1>5 DEF IncidentsStamped
  <2>2. ASSUME c \in DeploymentIds, deployments'[c].state = "failed"
        PROVE  DeploymentFailedBy(c, at)'
    <3>1. c \in DeploymentIds' /\ createdAt'[c] <= clock
      BY <2>2, CreatedKept
    <3>2. \A m \in DOMAIN transitions' : transitions'[m].at <= clock
      <4>1. \A m \in DOMAIN transitions : transitions[m].at <= clock
        BY DEF Chronicle, TransitionPast
      <4>2. CASE Stays
        BY <4>1, <4>2 DEF Stays
      <4>3. ASSUME NEW d \in DeploymentIds,
                   NEW to \in DeploymentState \ {"created"}, Moves(d, to)
            PROVE  \A m \in DOMAIN transitions' : transitions'[m].at <= clock
        <5>1. PICK l : l = Len(transitions) + 1
          OBVIOUS
        <5>2. /\ DOMAIN transitions' = DOMAIN transitions \cup {l}
              /\ \A m \in DOMAIN transitions : transitions'[m] = transitions[m]
              /\ transitions'[l].at = clock
          BY <4>3, <5>1, TransitionInserted
        <5>3. QED
          BY <1>2, <4>1, <5>2
      <4>4. QED
        BY <4>2, <4>3, MovesStep DEF MovesLogged
    <3>3. QED
      BY <2>1, <2>2, <3>1, <3>2 DEF DeploymentFailedBy
  <2>3. ASSUME c \in OperationIds, operations'[c].state = "failed",
               operations[c].state = "started"
        PROVE  OperationFailedBy(c, at)'
    <3>1. c \in OperationIds' /\ finishedAt'[c] = clock
      BY <2>3, OperationsStep DEF OperationsStamped
    <3>2. QED
      BY <1>2, <2>1, <2>3, <3>1 DEF OperationFailedBy
  <2>4. \/ /\ incidentRows'[n].kind = "deployment"
           /\ DeploymentFailedBy(c, at)'
        \/ /\ incidentRows'[n].kind = "rollback_operation"
           /\ OperationFailedBy(c, at)'
    BY <2>1, <2>2, <2>3 DEF JustFailed
  <2>5. at <= clock'
    BY <1>2, <2>1
  <2>6. QED
    BY <1>3, <2>1, <2>4, <2>5
    DEF IncidentPast, DeploymentFailedBy, OperationFailedBy
<1>6. QED
  BY <1>4, <1>5

(* Incidents are replaced only by their acknowledged form. *)
LEMMA IncidentsEvolve ==
    ASSUME TypeOK, [Next]_storeVars, NEW i \in incidents
    PROVE  \E j \in incidents' :
               /\ j.kind = i.kind /\ j.subject = i.subject
               /\ j = i \/ j.status = "acknowledged"
<1>1. ASSUME incidents \subseteq incidents' PROVE i \in incidents'
  BY <1>1
<1>2. ASSUME NEW d \in DeploymentIds, NEW from \in DeploymentState,
             RecoverDeployment(d, from)
      PROVE  i \in incidents'
  BY <1>1, <1>2, RecoverDeploymentEffect
<1>3. ASSUME NEW o \in OperationIds, RecoverOperation(o)
      PROVE  i \in incidents'
  BY <1>1, <1>3, RecoverOperationEffect
<1>4. ASSUME NEW k \in incidents, Acknowledge(k)
      PROVE  \E j \in incidents' :
                 /\ j.kind = i.kind /\ j.subject = i.subject
                 /\ j = i \/ j.status = "acknowledged"
  <2>1. PICK l : l = [k EXCEPT !.status = "acknowledged"]
    OBVIOUS
  <2>2. /\ l.kind = k.kind /\ l.subject = k.subject
        /\ l.status = "acknowledged"
        /\ incidents' = (incidents \ {k}) \cup {l}
    BY <1>4, <2>1, AcknowledgeEffect
  <2>3. CASE i = k
    BY <2>2, <2>3
  <2>4. CASE i # k
    BY <2>2, <2>4
  <2>5. QED
    BY <2>3, <2>4
<1>5. ASSUME NEW d \in DeploymentIds,
             \/ StartStep(d) \/ FinishStep(d) \/ RecordReference(d)
             \/ BeginOperation(d)
             \/ \E from, to \in DeploymentState : Transition(d, from, to)
      PROVE  i \in incidents'
  BY <1>5 DEF StartStep, FinishStep, RecordReference, BeginOperation,
              Transition
<1>6. ASSUME NEW o \in OperationIds, NEW s \in {"succeeded", "failed"},
             FinishOperation(o, s)
      PROVE  i \in incidents'
  BY <1>6 DEF FinishOperation
<1>7. ASSUME NEW req \in Request, Reserve(req) PROVE i \in incidents'
  BY <1>7 DEF Reserve
<1>8. ASSUME NEW batch \in SUBSET Prunable, Prune(batch)
      PROVE  i \in incidents'
  BY <1>8 DEF Prune
<1>9. CASE UNCHANGED storeVars
  BY <1>9 DEF storeVars
<1>10. QED
  BY <1>2, <1>3, <1>4, <1>5, <1>6, <1>7, <1>8, <1>9 DEF Next

(* Every row of an incident keeps belonging to an incident, and the row    *)
(* that is acknowledged to one that is resolved.                           *)
LEMMA IncidentsLinked ==
    ASSUME TypeOK, RowsTyped, Chronicle, [AuditNext]_auditVars
    PROVE  \A n \in DOMAIN incidentRows' : IncidentLinked(n)'
<1>1. SUFFICES ASSUME NEW n \in DOMAIN incidentRows' PROVE IncidentLinked(n)'
  OBVIOUS
<1>2. IncidentsStamped /\ [Next]_storeVars
  BY IncidentsStep, StoreStep
<1>3. CASE n \notin DOMAIN incidentRows
  BY <1>2, <1>3 DEF IncidentsStamped, IncidentLinked
<1>4. CASE n \in DOMAIN incidentRows /\ incidentRows'[n] = incidentRows[n]
  <2>1. PICK i \in incidents :
            /\ RowOf(n, i)
            /\ incidentRows[n].acknowledged # Null => i.status # "unresolved"
    BY <1>4 DEF Chronicle, IncidentLinked
  <2>2. PICK j \in incidents' : /\ j.kind = i.kind /\ j.subject = i.subject
                                /\ j = i \/ j.status = "acknowledged"
    BY <1>2, IncidentsEvolve
  <2>3. QED
    BY <1>4, <2>1, <2>2 DEF IncidentLinked, RowOf
<1>5. CASE n \in DOMAIN incidentRows /\ incidentRows'[n] # incidentRows[n]
  <2>1. /\ incidentRows'[n].kind = incidentRows[n].kind
        /\ incidentRows'[n].subject = incidentRows[n].subject
        /\ \E i \in incidents : RowOf(n, i) /\ Acknowledge(i)
    BY <1>2, <1>5 DEF IncidentsStamped
  <2>2. PICK i \in incidents : RowOf(n, i) /\ Acknowledge(i)
    BY <2>1
  <2>3. PICK j : j = [i EXCEPT !.status = "acknowledged"]
    OBVIOUS
  <2>4. /\ j \in incidents' /\ j.kind = i.kind /\ j.subject = i.subject
        /\ j.status = "acknowledged"
    BY <2>2, <2>3, AcknowledgeEffect
  <2>5. QED
    BY <2>1, <2>2, <2>4 DEF IncidentLinked, RowOf
<1>6. QED
  BY <1>3, <1>4, <1>5

(* Every step keeps the chronicle. *)
LEMMA ChronicleStep ==
    TypeOK /\ RowsTyped /\ SourcesExist /\ Chronicle /\ [AuditNext]_auditVars
        => RowsTyped' /\ Chronicle'
<1> SUFFICES ASSUME TypeOK, RowsTyped, SourcesExist, Chronicle,
                    [AuditNext]_auditVars
             PROVE  RowsTyped' /\ Chronicle'
  OBVIOUS
<1>1. RowsTyped' /\ CreatedPast'
  BY RowsStep, CreatedKept
<1>2. \A n \in DOMAIN transitions' : TransitionPast(n)'
  BY TransitionsPast
<1>3. \A n \in DOMAIN attempts' : AttemptPast(n)'
  BY AttemptsPast
<1>4. /\ \A d \in DeploymentIds' : references'[d] # "none" => ReferencePast(d)'
      /\ \A o \in OperationIds' : OperationPast(o)'
  BY ReferencesPast, OperationsPast
<1>5. \A n \in DOMAIN incidentRows' : IncidentPast(n)' /\ IncidentLinked(n)'
  BY IncidentsPast, IncidentsLinked
<1>6. QED
  BY <1>1, <1>2, <1>3, <1>4, <1>5 DEF Chronicle

(* Nothing has happened at first. *)
LEMMA ChronicleInit == AuditInit => RowsTyped /\ Chronicle
<1> SUFFICES ASSUME AuditInit PROVE RowsTyped /\ Chronicle
  OBVIOUS
<1>1. /\ deployments = <<>> /\ operations = <<>>
      /\ createdAt = <<>> /\ transitions = <<>> /\ attempts = <<>>
      /\ recordedAt = <<>> /\ updatedAt = <<>>
      /\ startedAt = <<>> /\ finishedAt = <<>>
      /\ incidentRows = <<>> /\ clock = 1
  BY DEF AuditInit, Init
<1>2. RowsTyped
  BY <1>1, EmptySeq DEF RowsTyped
<1>3. /\ DeploymentIds = {} /\ OperationIds = {}
      /\ DOMAIN transitions = {} /\ DOMAIN attempts = {}
      /\ DOMAIN incidentRows = {}
  BY <1>1, EmptySeq DEF DeploymentIds, OperationIds
<1>4. Chronicle
  BY <1>3 DEF Chronicle, CreatedPast
<1>5. QED
  BY <1>2, <1>4

(* What holds of the store and of the rows together. *)
LEMMA SourcesCorrect == Spec => []SourcesExist
<1>1. ReferenceInv => SourcesExist
  BY DEF ReferenceInv
<1>2. QED
  BY <1>1, ReferenceInvCorrect, PTL

(* Every timestamp of the store lies in the past, in the order of the      *)
(* causes that the rows record.                                            *)
THEOREM ChronicleCorrect == AuditSpec => [](RowsTyped /\ Chronicle)
<1>1. RowsTyped /\ Chronicle /\ TypeOK /\ SourcesExist /\ [AuditNext]_auditVars
          => (RowsTyped /\ Chronicle)'
  BY ChronicleStep
<1>2. QED
  BY <1>1, ChronicleInit, AuditImplementsStore, TypeCorrect, SourcesCorrect,
     PTL DEF AuditSpec
-----------------------------------------------------------------------------
(* Retention. *)

(* Snapshots are pruned when they are old, and then not touched. *)
LEMMA PrunedStep ==
    ASSUME TypeOK, RowsTyped, SourcesExist, Chronicle, PrunedInactive,
           PrunedWhenOld, [AuditNext]_auditVars
    PROVE  PrunedWhenOld'
<1>0. /\ ReferencesStamped /\ clock \in Nat /\ clock' \in Nat /\ clock <= clock'
      /\ \A d \in DeploymentIds : updatedAt[d] \in Nat
      /\ pruned \subseteq DeploymentIds
      /\ RetentionTime \in Nat
  BY ReferencesStep, CreatedKept, RowDomains, RetentionAssumption
  DEF TypeOK, RetentionAssumption
<1>1. ASSUME NEW d \in DeploymentIds, references[d] \in Spent,
             updatedAt[d] # Null, updatedAt[d] + RetentionTime <= clock
      PROVE  updatedAt'[d] # Null /\ updatedAt'[d] + RetentionTime <= clock'
  BY <1>0, <1>1 DEF ReferencesStamped
<1>2. \A d \in pruned :
          updatedAt'[d] # Null /\ updatedAt'[d] + RetentionTime <= clock'
  BY <1>0, <1>1 DEF PrunedWhenOld, PrunedInactive, Spent
<1>3. CASE UNCHANGED pruned
  BY <1>2, <1>3 DEF PrunedWhenOld
<1>4. ASSUME NEW batch \in SUBSET Prunable, PruneAt(batch)
      PROVE  PrunedWhenOld'
  <2>1. pruned' = pruned \cup batch /\ batch \subseteq Expired
    BY <1>4 DEF PruneAt, Prune, OldestExpired
  <2>2. ASSUME NEW d \in batch
        PROVE  /\ d \in DeploymentIds /\ references[d] \in Spent
               /\ updatedAt[d] # Null /\ updatedAt[d] + RetentionTime <= clock
    <3>1. /\ d \in DeploymentIds /\ references[d] \in Spent
          /\ updatedAt[d] + RetentionTime <= clock
      BY <2>1, <2>2 DEF Expired, Prunable, Spent
    <3>2. /\ references[d] # "none"
          /\ recordedAt[d] \in Nat /\ createdAt[d] \in Nat
      BY <3>1, RowDomains DEF Spent
    <3>3. ReferencePast(d) /\ 0 < createdAt[d]
      BY <3>1, <3>2 DEF Chronicle, CreatedPast
    <3>4. updatedAt[d] # Null
      BY <1>0, <3>1, <3>2, <3>3 DEF ReferencePast, Null
    <3>5. QED
      BY <3>1, <3>4
  <2>3. QED
    BY <1>1, <1>2, <2>1, <2>2 DEF PrunedWhenOld
<1>5. CASE Tick \/ Read \/ UNCHANGED auditVars
  BY <1>3, <1>5, NothingWritten DEF storeVars
<1>6. ASSUME NEW d \in DeploymentIds,
             \/ StartStepAt(d) \/ RecordReferenceAt(d) \/ BeginOperationAt(d)
             \/ \E s \in {"succeeded", "failed"} : FinishStepAt(d, s)
             \/ \E from, to \in DeploymentState : TransitionAt(d, from, to)
             \/ \E from \in DeploymentState : RecoverDeploymentAt(d, from)
      PROVE  UNCHANGED pruned
  BY <1>6
  DEF StartStepAt, RecordReferenceAt, BeginOperationAt, FinishStepAt,
      TransitionAt, RecoverDeploymentAt, StartStep, RecordReference,
      BeginOperation, FinishStep, Transition, RecoverDeployment
<1>7. ASSUME NEW o \in OperationIds,
             \/ RecoverOperationAt(o)
             \/ \E s \in {"succeeded", "failed"} : FinishOperationAt(o, s)
      PROVE  UNCHANGED pruned
  BY <1>7 DEF RecoverOperationAt, FinishOperationAt, RecoverOperation,
              FinishOperation
<1>8. ASSUME NEW req \in Request, ReserveAt(req) PROVE UNCHANGED pruned
  BY <1>8 DEF ReserveAt, Reserve
<1>9. ASSUME NEW i \in incidents, AcknowledgeAt(i) PROVE UNCHANGED pruned
  BY <1>9 DEF AcknowledgeAt, Acknowledge
<1>10. QED
  BY <1>3, <1>4, <1>5, <1>6, <1>7, <1>8, <1>9 DEF AuditNext, Write

(* A snapshot is hidden only after its reference has been inactive for the *)
(* whole retention time, and nothing touches the reference afterwards.     *)
THEOREM PrunedWhenOldCorrect == AuditSpec => []PrunedWhenOld
<1>1. AuditInit => PrunedWhenOld
  BY DEF AuditInit, Init, PrunedWhenOld
<1>2. ReferenceInv => PrunedInactive /\ SourcesExist
  BY DEF ReferenceInv
<1>3. /\ TypeOK /\ RowsTyped /\ SourcesExist /\ Chronicle /\ PrunedInactive
      /\ PrunedWhenOld /\ [AuditNext]_auditVars
      => PrunedWhenOld'
  BY PrunedStep
<1>4. QED
  BY <1>1, <1>2, <1>3, AuditImplementsStore, TypeCorrect, ReferenceInvCorrect,
     ChronicleCorrect, PTL DEF AuditSpec
-----------------------------------------------------------------------------
(* History. *)

(* What was shown of a deployment's own life is shown ever after. *)
LEMMA LifecycleShown ==
    ASSUME TypeOK, RowsTyped, [AuditNext]_auditVars, NEW d \in DeploymentIds
    PROVE  LifecycleEvents(d) \subseteq LifecycleEvents(d)'
<1>1. createdAt'[d] = createdAt[d] /\ AttemptsStamped
  BY CreatedStep, AttemptsStep DEF CreatedStamped
<1>2. \A n \in DOMAIN transitions :
          n \in DOMAIN transitions' /\ transitions'[n] = transitions[n]
  <2>1. CASE Stays
    BY <2>1 DEF Stays
  <2>2. ASSUME NEW c \in DeploymentIds,
               NEW to \in DeploymentState \ {"created"}, Moves(c, to)
        PROVE  \A n \in DOMAIN transitions :
                   n \in DOMAIN transitions' /\ transitions'[n] = transitions[n]
    BY <2>2, TransitionInserted
  <2>3. QED
    BY <2>1, <2>2, MovesStep DEF MovesLogged
<1>3. SUFFICES ASSUME NEW e \in LifecycleEvents(d)
               PROVE  e \in LifecycleEvents(d)'
  OBVIOUS
<1>4. CASE e = Event(createdAt[d], 10, 0, "deployment_created")
  BY <1>1, <1>4 DEF LifecycleEvents
<1>5. ASSUME NEW n \in DOMAIN transitions, transitions[n].deployment = d,
             e = Event(transitions[n].at, 20, n, "deployment_transition")
      PROVE  e \in LifecycleEvents(d)'
  <2>1. /\ n \in DOMAIN transitions' /\ transitions'[n].deployment = d
        /\ e = Event(transitions'[n].at, 20, n, "deployment_transition")
    BY <1>2, <1>5
  <2>2. QED
    BY <2>1 DEF LifecycleEvents, Indices
<1>6. ASSUME NEW n \in DOMAIN attempts, attempts[n].deployment = d,
             \/ e = Event(attempts[n].started, 30, n, "deployment_step_started")
             \/ /\ attempts[n].status # "started"
                /\ e = Event(attempts[n].finished, 40, n,
                             "deployment_step_finished")
      PROVE  e \in LifecycleEvents(d)'
  <2>1. /\ n \in DOMAIN attempts' /\ attempts'[n].deployment = d
        /\ attempts'[n].started = attempts[n].started
        /\ attempts[n].status # "started" => attempts'[n] = attempts[n]
    BY <1>1, <1>6 DEF AttemptsStamped
  <2>2. CASE e = Event(attempts[n].started, 30, n, "deployment_step_started")
    <3>1. e = Event(attempts'[n].started, 30, n, "deployment_step_started")
      BY <2>1, <2>2
    <3>2. QED
      BY <2>1, <3>1 DEF LifecycleEvents, Indices
  <2>3. CASE /\ attempts[n].status # "started"
             /\ e = Event(attempts[n].finished, 40, n,
                          "deployment_step_finished")
    <3>1. /\ attempts'[n].status # "started"
          /\ e = Event(attempts'[n].finished, 40, n,
                       "deployment_step_finished")
      BY <2>1, <2>3
    <3>2. QED
      BY <2>1, <3>1 DEF LifecycleEvents, Indices
  <2>4. QED
    BY <1>6, <2>2, <2>3
<1>7. QED
  BY <1>4, <1>5, <1>6 DEF LifecycleEvents, Indices

(* What was shown of a reference is shown ever after. *)
LEMMA ReferenceShown ==
    ASSUME TypeOK, RowsTyped, SourcesExist, [AuditNext]_auditVars,
           NEW d \in DeploymentIds
    PROVE  ReferenceEvents(d) \subseteq ReferenceEvents(d)'
<1>1. ReferencesStamped
  BY ReferencesStep
<1>2. SUFFICES ASSUME NEW e \in ReferenceEvents(d)
               PROVE  e \in ReferenceEvents(d)'
  OBVIOUS
<1>3. CASE /\ references[d] # "none"
           /\ e = Event(recordedAt[d], 50, d, "rollback_reference_recorded")
  <2>1. /\ references'[d] # "none"
        /\ e = Event(recordedAt'[d], 50, d, "rollback_reference_recorded")
    BY <1>1, <1>3 DEF ReferencesStamped
  <2>2. QED
    BY <2>1 DEF ReferenceEvents
<1>4. CASE /\ references[d] \in Spent
           /\ e = Event(updatedAt[d], 60, d, references[d])
  <2>1. /\ references'[d] \in Spent
        /\ e = Event(updatedAt'[d], 60, d, references'[d])
    BY <1>1, <1>4 DEF ReferencesStamped
  <2>2. QED
    BY <2>1 DEF ReferenceEvents, Spent
<1>5. QED
  BY <1>3, <1>4 DEF ReferenceEvents, Spent

(* What was shown of the rollbacks of a deployment is shown ever after. *)
LEMMA OperationShown ==
    ASSUME TypeOK, RowsTyped, [AuditNext]_auditVars, NEW d
    PROVE  OperationEvents(d) \subseteq OperationEvents(d)'
<1>1. OperationsStamped
  BY OperationsStep
<1>2. SUFFICES ASSUME NEW e \in OperationEvents(d)
               PROVE  e \in OperationEvents(d)'
  OBVIOUS
<1>3. ASSUME NEW o \in OperationIds, operations[o].source = d,
             e = Event(startedAt[o], 70, o, "rollback_operation_started")
      PROVE  e \in OperationEvents(d)'
  <2>1. /\ o \in OperationIds' /\ operations'[o].source = d
        /\ e = Event(startedAt'[o], 70, o, "rollback_operation_started")
    BY <1>1, <1>3 DEF OperationsStamped
  <2>2. QED
    BY <2>1 DEF OperationEvents
<1>4. ASSUME NEW o \in OperationIds, operations[o].source = d,
             operations[o].state # "started",
             e = Event(finishedAt[o], 80, o, operations[o].state)
      PROVE  e \in OperationEvents(d)'
  <2>1. /\ o \in OperationIds' /\ operations'[o].source = d
        /\ operations'[o].state # "started"
        /\ e = Event(finishedAt'[o], 80, o, operations'[o].state)
    BY <1>1, <1>4 DEF OperationsStamped
  <2>2. QED
    BY <2>1 DEF OperationEvents
<1>5. QED
  BY <1>3, <1>4 DEF OperationEvents

(* An acknowledgement that was recorded is not recorded again. *)
LEMMA AcknowledgedOnce ==
    ASSUME TypeOK, RowsTyped, Chronicle, IncidentSubjectFailed,
           [AuditNext]_auditVars, NEW n \in DOMAIN incidentRows,
           incidentRows[n].acknowledged # Null
    PROVE  incidentRows'[n] = incidentRows[n]
<1>1. PICK i \in incidents : RowOf(n, i) /\ i.status # "unresolved"
  BY DEF Chronicle, IncidentLinked
<1>2. ASSUME NEW j \in incidents, RowOf(n, j), j.status = "unresolved"
      PROVE  FALSE
  BY <1>1, <1>2 DEF IncidentSubjectFailed, RowOf
<1>3. QED
  BY <1>2, IncidentsStep DEF IncidentsStamped

(* What was shown of recovery is shown ever after. *)
LEMMA RecoveryShown ==
    ASSUME TypeOK, RowsTyped, Chronicle, IncidentSubjectFailed,
           [AuditNext]_auditVars, NEW d
    PROVE  RecoveryEvents(d) \subseteq RecoveryEvents(d)'
<1>1. ASSUME NEW n \in DOMAIN incidentRows,
             ConcernsDeployment(incidentRows[n], d)
      PROVE  /\ n \in DOMAIN incidentRows'
             /\ ConcernsDeployment(incidentRows[n], d)'
             /\ incidentRows'[n].at = incidentRows[n].at
  <2>1. /\ IncidentsStamped /\ OperationsStamped /\ IncidentPast(n)
    BY <1>1, IncidentsStep, OperationsStep DEF Chronicle
  <2>2. PICK c : c = incidentRows[n].subject
    OBVIOUS
  <2>3. incidentRows[n].kind = "rollback_operation" => c \in OperationIds
    BY <2>1, <2>2 DEF IncidentPast, OperationFailedBy
  <2>4. /\ n \in DOMAIN incidentRows'
        /\ incidentRows'[n].kind = incidentRows[n].kind
        /\ incidentRows'[n].subject = c
        /\ incidentRows'[n].at = incidentRows[n].at
        /\ c \in OperationIds => operations'[c].source = operations[c].source
    BY <1>1, <2>1, <2>2 DEF IncidentsStamped, OperationsStamped
  <2>5. QED
    BY <1>1, <2>2, <2>3, <2>4 DEF ConcernsDeployment
<1>2. SUFFICES ASSUME NEW e \in RecoveryEvents(d)
               PROVE  e \in RecoveryEvents(d)'
  OBVIOUS
<1>3. ASSUME NEW n \in DOMAIN incidentRows,
             ConcernsDeployment(incidentRows[n], d),
             e = Event(incidentRows[n].at, 90, n, "recovery_incident_recorded")
      PROVE  e \in RecoveryEvents(d)'
  <2>1. e = Event(incidentRows'[n].at, 90, n, "recovery_incident_recorded")
    BY <1>1, <1>3
  <2>2. QED
    BY <1>1, <1>3, <2>1 DEF RecoveryEvents, Indices
<1>4. ASSUME NEW n \in DOMAIN incidentRows,
             ConcernsDeployment(incidentRows[n], d),
             incidentRows[n].acknowledged # Null,
             e = Event(incidentRows[n].acknowledged, 100, n,
                       "recovery_acknowledged")
      PROVE  e \in RecoveryEvents(d)'
  <2>1. /\ incidentRows'[n].acknowledged # Null
        /\ e = Event(incidentRows'[n].acknowledged, 100, n,
                     "recovery_acknowledged")
    BY <1>4, AcknowledgedOnce
  <2>2. QED
    BY <1>1, <1>4, <2>1 DEF RecoveryEvents, Indices
<1>5. QED
  BY <1>3, <1>4 DEF RecoveryEvents, Indices

(* An event that was shown once is shown ever after, unchanged, whatever   *)
(* is recovered, superseded, acknowledged or pruned.                       *)
THEOREM HistoryAppendsCorrect == AuditSpec => HistoryAppends
<1>1. ASSUME TypeOK, RowsTyped, SourcesExist, Chronicle,
             IncidentSubjectFailed, [AuditNext]_auditVars
      PROVE  \A d \in DeploymentIds : Events(d) \subseteq Events(d)'
  BY <1>1, LifecycleShown, ReferenceShown, OperationShown, RecoveryShown
  DEF Events
<1>2. TypeOK /\ RowsTyped /\ SourcesExist /\ Chronicle
      /\ IncidentSubjectFailed /\ [AuditNext]_auditVars
      => [\A d \in DeploymentIds : Events(d) \subseteq Events(d)']_auditVars
  BY <1>1
<1>3. QED
  BY <1>2, AuditImplementsStore, TypeCorrect, SourcesCorrect,
     IncidentsCorrect, ChronicleCorrect, PTL DEF AuditSpec, HistoryAppends
-----------------------------------------------------------------------------
(* The transitions of a deployment lead to its state.                      *)

(* Before row n, the transitions of d led to s. *)
LastBefore(m, d, n) ==
    /\ m \in DOMAIN transitions /\ m < n /\ transitions[m].deployment = d
    /\ \A k \in DOMAIN transitions :
           k < n /\ transitions[k].deployment = d => k <= m

LedTo(s, d, n) ==
    \/ /\ s = "created"
       /\ \A k \in DOMAIN transitions : k < n => transitions[k].deployment # d
    \/ \E m \in DOMAIN transitions :
           LastBefore(m, d, n) /\ transitions[m].to = s

(* The inductive invariant: the rows chain, up to the present state. *)
Chained ==
    /\ \A n \in DOMAIN transitions :
           LedTo(transitions[n].from, transitions[n].deployment, n)
    /\ \A d \in DeploymentIds :
           LedTo(deployments[d].state, d, Len(transitions) + 1)

(* Where the rows before row n led they still lead when none of the rows   *)
(* of d between n and k is new.                                            *)
LEMMA LedToKept ==
    ASSUME NEW s, NEW d, NEW n \in Nat, NEW k \in Nat, LedTo(s, d, n),
           n <= k, DOMAIN transitions \subseteq Nat,
           \A m \in DOMAIN transitions :
               m \in DOMAIN transitions' /\ transitions'[m] = transitions[m],
           \A m \in DOMAIN transitions' :
               m < k /\ transitions'[m].deployment = d
                   => m \in DOMAIN transitions /\ m < n
    PROVE  LedTo(s, d, k)'
<1>1. CASE /\ s = "created"
           /\ \A m \in DOMAIN transitions :
                  m < n => transitions[m].deployment # d
  BY <1>1 DEF LedTo
<1>2. ASSUME NEW m \in DOMAIN transitions, LastBefore(m, d, n),
             transitions[m].to = s
      PROVE  LedTo(s, d, k)'
  <2>1. m \in Nat /\ m < k
    BY <1>2 DEF LastBefore
  <2>2. LastBefore(m, d, k)'
    BY <1>2, <2>1 DEF LastBefore
  <2>3. QED
    BY <1>2, <2>2 DEF LedTo
<1>3. QED
  BY <1>1, <1>2 DEF LedTo

(* Every step chains its transition to those before. *)
LEMMA ChainedStep ==
    ASSUME TypeOK, RowsTyped, Chronicle, Chained, [AuditNext]_auditVars
    PROVE  Chained'
<1>1. /\ DOMAIN transitions = 1 .. Len(transitions)
      /\ Len(transitions) \in Nat /\ DOMAIN transitions \subseteq Nat
      /\ \A n \in DOMAIN transitions : transitions[n].deployment \in DeploymentIds
  BY RowDomains DEF Chronicle, TransitionPast
<1>2. PICK l \in Nat : l = Len(transitions) + 1
  BY <1>1
<1>3. /\ \A n \in DOMAIN transitions :
             LedTo(transitions[n].from, transitions[n].deployment, n)
      /\ \A d \in DeploymentIds : LedTo(deployments[d].state, d, l)
      /\ \A n \in DOMAIN transitions : n < l
  BY <1>1, <1>2 DEF Chained
<1>4. CASE Stays
  <2>1. /\ transitions' = transitions
        /\ \A d \in DeploymentIds :
               deployments'[d].state = deployments[d].state
        /\ \A d \in DeploymentIds' \ DeploymentIds :
               deployments'[d].state = "created"
    BY <1>4, CreatedStep DEF Stays, CreatedStamped
  <2>2. ASSUME NEW n \in DOMAIN transitions'
        PROVE  LedTo(transitions[n].from, transitions[n].deployment, n)'
    BY <1>3, <2>1, <2>2 DEF LedTo, LastBefore
  <2>3. ASSUME NEW d \in DeploymentIds'
        PROVE  LedTo(deployments[d].state, d, l)'
    <3>1. CASE d \in DeploymentIds
      BY <1>3, <2>1, <3>1 DEF LedTo, LastBefore
    <3>2. CASE d \notin DeploymentIds
      BY <1>1, <2>1, <2>3, <3>2 DEF LedTo
    <3>3. QED
      BY <3>1, <3>2
  <2>4. l = Len(transitions') + 1
    BY <1>2, <2>1
  <2>5. QED
    BY <2>2, <2>3, <2>4 DEF Chained
<1>5. ASSUME NEW c \in DeploymentIds,
             NEW to \in DeploymentState \ {"created"}, Moves(c, to)
      PROVE  Chained'
  <2>1. /\ l \notin DOMAIN transitions
        /\ DOMAIN transitions' = DOMAIN transitions \cup {l}
        /\ \A m \in DOMAIN transitions : transitions'[m] = transitions[m]
        /\ transitions'[l].deployment = c
        /\ transitions'[l].from = deployments[c].state
        /\ transitions'[l].to = to
        /\ transitions' \in Seq(TransitionRow)
    BY <1>2, <1>5, TransitionInserted
  <2>2. Len(transitions') = l
    <3>1. Len(transitions') \in Nat /\ DOMAIN transitions' = 1 .. Len(transitions')
      BY <2>1, LenProperties
    <3>2. QED
      BY <1>1, <1>2, <2>1, <3>1
  <2>3. ASSUME NEW n \in DOMAIN transitions'
        PROVE  LedTo(transitions[n].from, transitions[n].deployment, n)'
    <3>1. PICK s, d : s = transitions'[n].from /\ d = transitions'[n].deployment
      OBVIOUS
    <3>2. n \in Nat /\ n <= l
      BY <1>1, <1>3, <2>1
    <3>3. LedTo(s, d, n)
      BY <1>3, <2>1, <3>1
    <3>4. \A m \in DOMAIN transitions' :
              m < n => m \in DOMAIN transitions /\ m < n
      BY <1>1, <2>1, <3>2
    <3>5. LedTo(s, d, n)'
      BY <1>1, <2>1, <3>2, <3>3, <3>4, LedToKept
    <3>6. QED
      BY <3>1, <3>5
  <2>4. ASSUME NEW d \in DeploymentIds'
        PROVE  LedTo(deployments[d].state, d, l + 1)'
    <3>1. /\ d \in DeploymentIds
          /\ deployments'[d].state = IF d = c THEN to ELSE deployments[d].state
      BY <1>5 DEF Moves
    <3>2. CASE d = c
      <4>1. LastBefore(l, d, l + 1)'
        BY <1>1, <1>2, <2>1, <3>2 DEF LastBefore
      <4>2. QED
        BY <2>1, <3>1, <3>2, <4>1 DEF LedTo
    <3>3. CASE d # c
      <4>1. PICK s : s = deployments[d].state
        OBVIOUS
      <4>2. LedTo(s, d, l) /\ l + 1 \in Nat /\ l <= l + 1
        BY <1>3, <3>1, <4>1
      <4>3. \A m \in DOMAIN transitions' :
                m < l + 1 /\ transitions'[m].deployment = d
                    => m \in DOMAIN transitions /\ m < l
        BY <1>3, <2>1, <3>3
      <4>4. LedTo(s, d, l + 1)'
        BY <1>1, <2>1, <4>2, <4>3, LedToKept
      <4>5. QED
        BY <3>1, <3>3, <4>1, <4>4
    <3>4. QED
      BY <3>2, <3>3
  <2>5. QED
    BY <2>2, <2>3, <2>4 DEF Chained
<1>6. QED
  BY <1>4, <1>5, MovesStep DEF MovesLogged

(* The transitions of a deployment always chain from its creation to its   *)
(* state.                                                                  *)
LEMMA ChainedCorrect == AuditSpec => []Chained
<1>1. AuditInit => Chained
  <2>1. SUFFICES ASSUME AuditInit PROVE Chained
    OBVIOUS
  <2>2. transitions = <<>> /\ deployments = <<>>
    BY <2>1 DEF AuditInit, Init
  <2>3. DOMAIN transitions = {} /\ DeploymentIds = {}
    BY <2>2, EmptySeq DEF DeploymentIds
  <2>4. QED
    BY <2>3 DEF Chained
<1>2. TypeOK /\ RowsTyped /\ Chronicle /\ Chained /\ [AuditNext]_auditVars
          => Chained'
  BY ChainedStep
<1>3. QED
  BY <1>1, <1>2, AuditImplementsStore, TypeCorrect, ChronicleCorrect, PTL
  DEF AuditSpec
-----------------------------------------------------------------------------
(* Queries that read a row and its details apart.                          *)

(* A transition of d leads to s. *)
Reached(s, d) ==
    \/ s = "created"
    \/ \E n \in DOMAIN transitions :
           transitions[n].deployment = d /\ transitions[n].to = s

(* The inductive invariant: what a query has read was reached. *)
ViewReached ==
    /\ view = [rows |-> view.rows]
    /\ view.rows = [d \in DOMAIN view.rows |-> view.rows[d]]
    /\ \A d \in DOMAIN view.rows :
           /\ Reached(view.rows[d].state, d)
           /\ view.rows[d].detailed =>
                  \/ view.rows[d].state = "created"
                  \/ \E n \in DOMAIN view.rows[d].transitions :
                         view.rows[d].transitions[n].to = view.rows[d].state

(* Every state is reached by a transition on record. *)
LEMMA StatesReached ==
    ASSUME Chained, NEW d \in DeploymentIds
    PROVE  Reached(deployments[d].state, d)
BY DEF Chained, LedTo, LastBefore, Reached

(* A row and its details keep belonging together whatever is written       *)
(* between the two reads.                                                  *)
LEMMA ViewStep ==
    ASSUME TypeOK, RowsTyped, Chained, ViewReached, [AuditNext]_auditVars
    PROVE  ViewReached'
<1>1. ASSUME NEW s, NEW d, Reached(s, d) PROVE Reached(s, d)'
  <2>1. \A n \in DOMAIN transitions :
            n \in DOMAIN transitions' /\ transitions'[n] = transitions[n]
    <3>1. CASE Stays
      BY <3>1 DEF Stays
    <3>2. ASSUME NEW c \in DeploymentIds,
                 NEW to \in DeploymentState \ {"created"}, Moves(c, to)
          PROVE  \A n \in DOMAIN transitions :
                     n \in DOMAIN transitions' /\ transitions'[n] = transitions[n]
      BY <3>2, TransitionInserted
    <3>3. QED
      BY <3>1, <3>2, MovesStep DEF MovesLogged
  <2>2. QED
    BY <1>1, <2>1 DEF Reached
<1>2. CASE UNCHANGED view
  BY <1>1, <1>2 DEF ViewReached
<1>3. ASSUME NEW env \in Environments, NEW limit \in 1 .. MaxDeployments,
             ReadRows(env, limit)
      PROVE  ViewReached'
  <2>1. PICK S \in SUBSET DeploymentIds :
            view' = [rows |-> [d \in S |-> [state |-> deployments[d].state,
                                            detailed |-> FALSE]]]
    BY <1>3 DEF ReadRows, Listed
  <2>2. /\ view' = [rows |-> view'.rows]
        /\ view'.rows = [d \in DOMAIN view'.rows |-> view'.rows[d]]
        /\ DOMAIN view'.rows = S
        /\ \A d \in S : /\ view'.rows[d].state = deployments[d].state
                        /\ ~view'.rows[d].detailed
    BY <2>1
  <2>3. \A d \in S : Reached(deployments[d].state, d)
    BY <2>1, StatesReached
  <2>4. UNCHANGED transitions
    BY <1>3 DEF ReadRows, rowVars
  <2>5. QED
    BY <2>2, <2>3, <2>4 DEF ViewReached, Reached
<1>4. ASSUME NEW d \in DOMAIN view.rows, ReadDetails(d)
      PROVE  ViewReached'
  <2>1. PICK rows : rows = view.rows
    OBVIOUS
  <2>2. PICK r : r = [state |-> rows[d].state, detailed |-> TRUE,
                      transitions |-> TransitionsOf(d),
                      attempts |-> AttemptsOf(d)]
    OBVIOUS
  <2>3. view' = [rows |-> [rows EXCEPT ![d] = r]] /\ UNCHANGED transitions
    BY <1>4, <2>1, <2>2 DEF ReadDetails, ViewReached, rowVars
  <2>4. /\ view' = [rows |-> view'.rows]
        /\ view'.rows = [c \in DOMAIN view'.rows |-> view'.rows[c]]
        /\ DOMAIN view'.rows = DOMAIN rows
        /\ \A c \in DOMAIN rows :
               view'.rows[c] = IF c = d THEN r ELSE rows[c]
    BY <1>4, <2>1, <2>3 DEF ViewReached
  <2>5. r.state = rows[d].state /\ r.transitions = TransitionsOf(d)
    BY <2>2
  <2>6. \A n \in DOMAIN transitions :
            transitions[n].deployment = d =>
                /\ n \in DOMAIN r.transitions
                /\ r.transitions[n] = transitions[n]
    BY <2>5 DEF TransitionsOf, RowsOf, Restrict
  <2>7. Reached(r.state, d)
    BY <1>4, <2>1, <2>5 DEF ViewReached
  <2>8. \/ r.state = "created"
        \/ \E n \in DOMAIN r.transitions : r.transitions[n].to = r.state
    BY <2>6, <2>7 DEF Reached
  <2>9. ASSUME NEW c \in DOMAIN view'.rows
        PROVE  /\ Reached(view'.rows[c].state, c)
               /\ view'.rows[c].detailed =>
                      \/ view'.rows[c].state = "created"
                      \/ \E n \in DOMAIN view'.rows[c].transitions :
                             view'.rows[c].transitions[n].to =
                                 view'.rows[c].state
    BY <2>1, <2>4, <2>7, <2>8 DEF ViewReached
  <2>10. QED
    BY <2>3, <2>4, <2>9 DEF ViewReached, Reached
<1>5. QED
  BY <1>2, <1>3, <1>4 DEF AuditNext, Tick, Write, Read, auditVars

(* A deployment that a query returns has reached its state by the          *)
(* transitions returned with it, although both are read apart.             *)
THEOREM DetailsReachStateCorrect == AuditSpec => []DetailsReachState
<1>1. AuditInit => ViewReached
  <2>1. SUFFICES ASSUME AuditInit PROVE ViewReached
    OBVIOUS
  <2>2. view = [rows |-> <<>>]
    BY <2>1 DEF AuditInit
  <2>3. /\ view = [rows |-> view.rows] /\ view.rows = <<>>
        /\ DOMAIN view.rows = {}
    BY <2>2
  <2>4. view.rows = [d \in DOMAIN view.rows |-> view.rows[d]]
    BY <2>3
  <2>5. QED
    BY <2>3, <2>4 DEF ViewReached
<1>2. TypeOK /\ RowsTyped /\ Chained /\ ViewReached /\ [AuditNext]_auditVars
          => ViewReached'
  BY ViewStep
<1>3. ViewReached => DetailsReachState
  BY DEF ViewReached, DetailsReachState
<1>4. QED
  BY <1>1, <1>2, <1>3, AuditImplementsStore, TypeCorrect, ChronicleCorrect,
     ChainedCorrect, PTL DEF AuditSpec
-----------------------------------------------------------------------------
(* What follows a rollback: the next one, and the end of its reference.    *)

(* By the time at, rollback o was over: closed and, if it was interrupted, *)
(* acknowledged.                                                           *)
EndedBy(o, at) ==
    /\ operations[o].state # "started"
    /\ finishedAt[o] <= at
    /\ \A n \in DOMAIN incidentRows :
           /\ incidentRows[n].kind = "rollback_operation"
           /\ incidentRows[n].subject = o
           => /\ incidentRows[n].acknowledged # Null
              /\ incidentRows[n].acknowledged <= at

(* A row of an interrupted rollback that nobody acknowledged belongs to an *)
(* incident that holds the environment.                                    *)
RowsAwait ==
    \A n \in DOMAIN incidentRows :
        /\ incidentRows[n].kind = "rollback_operation"
        /\ incidentRows[n].acknowledged = Null
        => \E i \in incidents : RowOf(n, i) /\ i.status = "unresolved"

(* The inductive invariant: whatever comes after a rollback in the history *)
(* of its deployment comes after its acknowledgement too.                  *)
Succession ==
    /\ RowsAwait
    /\ \A o, p \in OperationIds :
           operations[p].source = operations[o].source /\ o < p
               => EndedBy(o, startedAt[p])
    /\ \A o \in OperationIds :
           references[operations[o].source] \in Spent
               => EndedBy(o, updatedAt[operations[o].source])

(* What was over stays over. *)
LEMMA EndedByKept ==
    ASSUME TypeOK, RowsTyped, Chronicle, IncidentSubjectFailed,
           [AuditNext]_auditVars, NEW o \in OperationIds, NEW at,
           EndedBy(o, at)
    PROVE  EndedBy(o, at)'
<1>1. /\ operations'[o].state # "started"
      /\ finishedAt'[o] = finishedAt[o]
  BY OperationsStep DEF OperationsStamped, EndedBy
<1>2. SUFFICES ASSUME NEW n \in DOMAIN incidentRows',
                      incidentRows'[n].kind = "rollback_operation",
                      incidentRows'[n].subject = o
               PROVE  /\ incidentRows'[n].acknowledged # Null
                      /\ incidentRows'[n].acknowledged <= at
  BY <1>1 DEF EndedBy
<1>3. n \in DOMAIN incidentRows
  BY <1>2, IncidentsStep DEF IncidentsStamped, JustFailed, EndedBy
<1>4. /\ incidentRows[n].kind = "rollback_operation"
      /\ incidentRows[n].subject = o
  BY <1>2, <1>3, IncidentsStep DEF IncidentsStamped
<1>5. /\ incidentRows[n].acknowledged # Null
      /\ incidentRows[n].acknowledged <= at
  BY <1>3, <1>4 DEF EndedBy
<1>6. QED
  BY <1>3, <1>5, AcknowledgedOnce

(* A closed rollback without an unresolved incident is over. *)
LEMMA EndedNow ==
    ASSUME TypeOK, RowsTyped, Chronicle, RowsAwait, NEW o \in OperationIds,
           operations[o].state # "started",
           \A i \in incidents :
               i.kind = "rollback_operation" /\ i.subject = o
                   => i.status # "unresolved"
    PROVE  EndedBy(o, clock)
<1>1. finishedAt[o] <= clock
  BY DEF Chronicle, OperationPast
<1>2. ASSUME NEW n \in DOMAIN incidentRows,
             incidentRows[n].kind = "rollback_operation",
             incidentRows[n].subject = o
      PROVE  /\ incidentRows[n].acknowledged # Null
             /\ incidentRows[n].acknowledged <= clock
  <2>1. incidentRows[n].acknowledged # Null
    BY <1>2 DEF RowsAwait, RowOf
  <2>2. QED
    BY <2>1 DEF Chronicle, IncidentPast
<1>3. QED
  BY <1>1, <1>2 DEF EndedBy

(* Rollbacks of one deployment are of one environment, and so are their    *)
(* incidents.                                                              *)
LEMMA SameEnvironment ==
    ASSUME IncidentSubjectFailed, HolderLatest, NEW o \in OperationIds
    PROVE  /\ operations[o].env = deployments[operations[o].source].env
           /\ \A i \in incidents :
                  i.kind = "rollback_operation" /\ i.subject = o
                      => i.env = operations[o].env
BY DEF IncidentSubjectFailed, HolderLatest

(* A rollback begins when all others of its source are over. *)
LEMMA OverWhenNextBegins ==
    ASSUME TypeOK, RowsTyped, Chronicle, RowsAwait, IncidentSubjectFailed,
           HolderLatest, NEW d \in DeploymentIds, BeginOperation(d),
           NEW o \in OperationIds, operations[o].source = d
    PROVE  EndedBy(o, clock)
<1>1. MayInsertOperation(deployments[d].env)
  BY DEF BeginOperation
<1>2. operations[o].state # "started"
  BY <1>1, SameEnvironment DEF MayInsertOperation, RollbackStarted
<1>3. \A i \in incidents :
          i.kind = "rollback_operation" /\ i.subject = o
              => i.status # "unresolved"
  BY <1>1, SameEnvironment DEF MayInsertOperation, Quarantined
<1>4. QED
  BY <1>2, <1>3, EndedNow

(* A reference is superseded when all rollbacks of its deployment are over:*)
(* one that was not would make that deployment the latest.                 *)
LEMMA OverWhenSuperseded ==
    ASSUME TypeOK, RowsTyped, Chronicle, RowsAwait, ReferenceInv,
           HolderLatest, NEW c \in DeploymentIds, RecordReference(c),
           NEW o \in OperationIds, operations[o].source # c,
           deployments[operations[o].source].env = deployments[c].env
    PROVE  EndedBy(o, clock)
<1>1. PICK d : d = operations[o].source
  OBVIOUS
<1>2. d \in DeploymentIds /\ c # d /\ deployments[d].env = deployments[c].env
  BY <1>1 DEF HolderLatest
<1>3. ~IsLatest(d)
  <2>1. IsLatest(c)
    BY DEF RecordReference, EligibleSource
  <2>2. c \in Nat /\ d \in Nat
    BY <1>2 DEF DeploymentIds
  <2>3. QED
    BY <1>2, <2>1, <2>2 DEF IsLatest
<1>4. operations[o].state # "started"
  BY <1>1, <1>3 DEF ReferenceInv, HoldsReference, EligibleSource
<1>5. ASSUME NEW i \in incidents, i.kind = "rollback_operation",
             i.subject = o, i.status = "unresolved"
      PROVE  FALSE
  <2>1. HolderOf(i) = d
    BY <1>1, <1>5 DEF HolderOf
  <2>2. QED
    BY <1>3, <1>5, <2>1 DEF HolderLatest, HoldsLatest
<1>6. QED
  BY <1>4, <1>5, EndedNow

(* While a rollback is started, all others of its source are over. *)
LEMMA OverWhileStarted ==
    ASSUME TypeOK, RowsTyped, Chronicle, RowsAwait, GuardExclusive,
           IncidentSubjectFailed, HolderLatest,
           NEW p \in OperationIds, operations[p].state = "started",
           NEW o \in OperationIds, o # p,
           operations[o].source = operations[p].source
    PROVE  EndedBy(o, clock)
<1>1. /\ operations[o].env = operations[p].env
      /\ operations[o].env \in Environments
  BY SameEnvironment, Rows
<1>2. operations[o].state # "started"
  BY <1>1 DEF GuardExclusive, OneStartedRollback
<1>3. ~Quarantined(operations[o].env)
  BY <1>1 DEF GuardExclusive, HoldersExclude, RollbackStarted
<1>4. \A i \in incidents :
          i.kind = "rollback_operation" /\ i.subject = o
              => i.status # "unresolved"
  BY <1>3, SameEnvironment DEF Quarantined
<1>5. QED
  BY <1>2, <1>4, EndedNow

(* Incidents stay on record in every step but an acknowledgement. *)
LEMMA IncidentsRemain ==
    ASSUME TypeOK, [AuditNext]_auditVars
    PROVE  \/ \E i \in incidents : AcknowledgeAt(i)
           \/ incidents \subseteq incidents'
<1>1. ASSUME NEW d \in DeploymentIds, NEW from \in DeploymentState,
             RecoverDeploymentAt(d, from)
      PROVE  incidents \subseteq incidents'
  BY <1>1, RecoverDeploymentEffect DEF RecoverDeploymentAt
<1>2. ASSUME NEW o \in OperationIds, RecoverOperationAt(o)
      PROVE  incidents \subseteq incidents'
  BY <1>2, RecoverOperationEffect DEF RecoverOperationAt
<1>3. ASSUME NEW d \in DeploymentIds,
             \/ StartStepAt(d) \/ RecordReferenceAt(d) \/ BeginOperationAt(d)
             \/ \E status \in {"succeeded", "failed"} : FinishStepAt(d, status)
             \/ \E from, to \in DeploymentState : TransitionAt(d, from, to)
      PROVE  incidents \subseteq incidents'
  BY <1>3 DEF StartStepAt, RecordReferenceAt, BeginOperationAt, FinishStepAt,
              TransitionAt, StartStep, RecordReference, BeginOperation,
              FinishStep, Transition
<1>4. ASSUME NEW o \in OperationIds, NEW s \in {"succeeded", "failed"},
             FinishOperationAt(o, s)
      PROVE  incidents \subseteq incidents'
  BY <1>4 DEF FinishOperationAt, FinishOperation
<1>5. ASSUME NEW req \in Request, ReserveAt(req)
      PROVE  incidents \subseteq incidents'
  BY <1>5 DEF ReserveAt, Reserve
<1>6. ASSUME NEW batch \in SUBSET Prunable, PruneAt(batch)
      PROVE  incidents \subseteq incidents'
  BY <1>6 DEF PruneAt, Prune
<1>7. CASE Tick \/ Read \/ UNCHANGED auditVars
  BY <1>7, NothingWritten DEF storeVars
<1>8. QED
  BY <1>1, <1>2, <1>3, <1>4, <1>5, <1>6, <1>7 DEF AuditNext, Write

(* A reference is spent by a newer one or by a successful rollback. *)
LEMMA SpentInStep ==
    ASSUME TypeOK, [AuditNext]_auditVars, NEW d \in DeploymentIds,
           references[d] \notin Spent, references'[d] \in Spent
    PROVE  \/ \E c \in DeploymentIds : RecordReferenceAt(c)
           \/ \E o \in OperationIds : FinishOperationAt(o, "succeeded")
<1>1. ASSUME references'[d] = references[d] PROVE FALSE
  BY <1>1
<1>2. ASSUME NEW req \in Request, ReserveAt(req) PROVE FALSE
  <2>1. references'[d] = references[d]
    BY <1>2, ReserveEffect DEF ReserveAt, Spent
  <2>2. QED
    BY <1>1, <2>1
<1>3. ASSUME NEW c \in DeploymentIds,
             \/ StartStepAt(c) \/ BeginOperationAt(c)
             \/ \E status \in {"succeeded", "failed"} : FinishStepAt(c, status)
             \/ \E from, to \in DeploymentState : TransitionAt(c, from, to)
             \/ \E from \in DeploymentState : RecoverDeploymentAt(c, from)
      PROVE  FALSE
  BY <1>1, <1>3
  DEF StartStepAt, BeginOperationAt, FinishStepAt, TransitionAt,
      RecoverDeploymentAt, StartStep, BeginOperation, FinishStep, Transition,
      RecoverDeployment
<1>4. ASSUME NEW o \in OperationIds,
             RecoverOperationAt(o) \/ FinishOperationAt(o, "failed")
      PROVE  FALSE
  BY <1>1, <1>4 DEF RecoverOperationAt, RecoverOperation, FinishOperationAt,
                    FinishOperation
<1>5. ASSUME NEW i \in incidents, AcknowledgeAt(i) PROVE FALSE
  BY <1>1, <1>5 DEF AcknowledgeAt, Acknowledge
<1>6. ASSUME NEW batch \in SUBSET Prunable, PruneAt(batch) PROVE FALSE
  BY <1>1, <1>6 DEF PruneAt, Prune
<1>7. CASE Tick \/ Read \/ UNCHANGED auditVars
  BY <1>1, <1>7, NothingWritten DEF storeVars
<1>8. QED
  BY <1>2, <1>3, <1>4, <1>5, <1>6, <1>7 DEF AuditNext, Write

(* A new operation is the last row, begun on its source. *)
LEMMA NewestIsLast ==
    ASSUME TypeOK, [AuditNext]_auditVars, NEW p \in OperationIds',
           p \notin OperationIds
    PROVE  /\ \A o \in OperationIds' : o < p => o \in OperationIds
           /\ \E d \in DeploymentIds :
                  BeginOperation(d) /\ operations'[p].source = d
<1>1. ASSUME OperationIds' = OperationIds PROVE FALSE
  BY <1>1
<1>2. ASSUME NEW d \in DeploymentIds, BeginOperationAt(d)
      PROVE  /\ \A o \in OperationIds' : o < p => o \in OperationIds
             /\ BeginOperation(d) /\ operations'[p].source = d
  <2>1. BeginOperation(d)
    BY <1>2 DEF BeginOperationAt
  <2>2. PICK n : n = Len(operations) + 1
    OBVIOUS
  <2>3. /\ OperationIds' = OperationIds \cup {n}
        /\ operations'[n].source = d
    BY <2>1, <2>2, BeginEffect
  <2>4. p = n
    BY <2>3
  <2>5. p \in Nat
    BY DEF OperationIds
  <2>6. QED
    BY <2>1, <2>3, <2>4, <2>5
<1>3. ASSUME UNCHANGED operations PROVE FALSE
  BY <1>1, <1>3 DEF OperationIds
<1>4. ASSUME NEW o \in OperationIds,
             \/ RecoverOperationAt(o)
             \/ \E s \in {"succeeded", "failed"} : FinishOperationAt(o, s)
      PROVE  FALSE
  BY <1>1, <1>4, CloseEffect
  DEF RecoverOperationAt, RecoverOperation, FinishOperationAt, FinishOperation
<1>5. ASSUME NEW req \in Request, ReserveAt(req) PROVE FALSE
  BY <1>3, <1>5 DEF ReserveAt, Reserve
<1>6. ASSUME NEW d \in DeploymentIds,
             \/ StartStepAt(d) \/ RecordReferenceAt(d)
             \/ \E status \in {"succeeded", "failed"} : FinishStepAt(d, status)
             \/ \E from, to \in DeploymentState : TransitionAt(d, from, to)
             \/ \E from \in DeploymentState : RecoverDeploymentAt(d, from)
      PROVE  FALSE
  BY <1>3, <1>6
  DEF StartStepAt, RecordReferenceAt, FinishStepAt, TransitionAt,
      RecoverDeploymentAt, StartStep, RecordReference, FinishStep, Transition,
      RecoverDeployment
<1>7. ASSUME NEW i \in incidents, AcknowledgeAt(i) PROVE FALSE
  BY <1>3, <1>7 DEF AcknowledgeAt, Acknowledge
<1>8. ASSUME NEW batch \in SUBSET Prunable, PruneAt(batch) PROVE FALSE
  BY <1>3, <1>8 DEF PruneAt, Prune
<1>9. CASE Tick \/ Read \/ UNCHANGED auditVars
  BY <1>3, <1>9, NothingWritten DEF storeVars
<1>10. QED
  BY <1>2, <1>4, <1>5, <1>6, <1>7, <1>8, <1>9 DEF AuditNext, Write

(* The rows of interrupted rollbacks stay linked to what holds the         *)
(* environment until they are acknowledged.                                *)
LEMMA RowsAwaitStep ==
    ASSUME TypeOK, RowsTyped, Chronicle, RowsAwait, [AuditNext]_auditVars
    PROVE  RowsAwait'
<1>1. SUFFICES ASSUME NEW n \in DOMAIN incidentRows',
                      incidentRows'[n].kind = "rollback_operation",
                      incidentRows'[n].acknowledged = Null
               PROVE  \E i \in incidents' :
                          RowOf(n, i)' /\ i.status = "unresolved"
  BY DEF RowsAwait
<1>2. IncidentsStamped
  BY IncidentsStep
<1>3. CASE n \notin DOMAIN incidentRows
  BY <1>1, <1>2, <1>3 DEF IncidentsStamped, RowOf
<1>4. CASE n \in DOMAIN incidentRows
  <2>1. /\ incidentRows[n].kind = "rollback_operation"
        /\ incidentRows'[n].subject = incidentRows[n].subject
    BY <1>1, <1>2, <1>4 DEF IncidentsStamped
  <2>2. clock # Null
    <3>1. PICK o : o = incidentRows[n].subject
      OBVIOUS
    <3>2. o \in OperationIds
      BY <1>4, <2>1, <3>1 DEF Chronicle, IncidentPast, OperationFailedBy
    <3>3. PICK d : d = operations[o].source
      OBVIOUS
    <3>4. d \in DeploymentIds
      BY <3>2, <3>3 DEF Chronicle, OperationPast
    <3>5. 0 < createdAt[d] /\ createdAt[d] <= clock
      BY <3>4 DEF Chronicle, CreatedPast
    <3>6. clock \in Nat /\ createdAt[d] \in Nat
      BY <3>4, RowDomains DEF RowsTyped
    <3>7. QED
      BY <3>5, <3>6 DEF Null
  <2>3. incidentRows'[n] = incidentRows[n]
    BY <1>1, <1>2, <1>4, <2>2 DEF IncidentsStamped
  <2>4. PICK i \in incidents : RowOf(n, i) /\ i.status = "unresolved"
    BY <1>1, <1>4, <2>1, <2>3 DEF RowsAwait
  <2>5. CASE incidents \subseteq incidents'
    BY <2>3, <2>4, <2>5 DEF RowOf
  <2>6. ASSUME NEW k \in incidents, AcknowledgeAt(k) PROVE i \in incidents'
    <3>1. k # i
      <4>1. SUFFICES ASSUME k = i PROVE FALSE
        OBVIOUS
      <4>2. incidentRows'[n] = [incidentRows[n] EXCEPT !.acknowledged = clock]
        BY <1>4, <2>4, <2>6, <4>1 DEF AcknowledgeAt, RowOf
      <4>3. incidentRows[n] \in RecoveryRow
        BY <1>4, RowDomains
      <4>4. incidentRows'[n].acknowledged = clock
        BY <4>2, <4>3 DEF RecoveryRow
      <4>5. QED
        BY <1>1, <2>2, <4>4
    <3>2. QED
      BY <2>6, <3>1 DEF AcknowledgeAt, Acknowledge
  <2>7. QED
    BY <2>3, <2>4, <2>5, <2>6, IncidentsRemain DEF RowOf
<1>5. QED
  BY <1>3, <1>4

(* Every step keeps the succession. *)
LEMMA SuccessionStep ==
    ASSUME TypeOK, RowsTyped, Chronicle, GuardExclusive, ReferenceInv,
           IncidentSubjectFailed, HolderLatest, Succession,
           [AuditNext]_auditVars
    PROVE  Succession'
<1>1. /\ RowsAwait /\ RowsAwait'
      /\ OperationsStamped /\ ReferencesStamped
      /\ clock \in Nat
      /\ SourcesExist
  BY RowsAwaitStep, OperationsStep, ReferencesStep
  DEF Succession, RowsTyped, ReferenceInv
<1>2. ASSUME NEW o \in OperationIds', NEW p \in OperationIds',
             operations'[p].source = operations'[o].source, o < p
      PROVE  EndedBy(o, startedAt[p])'
  <2>1. PICK at : at = startedAt'[p]
    OBVIOUS
  <2>2. SUFFICES EndedBy(o, at)'
    BY <2>1 DEF EndedBy
  <2>3. o \in OperationIds
    <3>1. CASE p \in OperationIds
      <4>1. o \in Nat /\ 1 <= o /\ Len(operations) \in Nat
        BY Rows DEF OperationIds
      <4>2. QED
        BY <1>2, <3>1, <4>1 DEF OperationIds
    <3>2. CASE p \notin OperationIds
      BY <1>2, <3>2, NewestIsLast
    <3>3. QED
      BY <3>1, <3>2
  <2>4. CASE p \in OperationIds
    <3>1. /\ operations[p].source = operations[o].source
          /\ at = startedAt[p]
      BY <1>1, <1>2, <2>1, <2>3, <2>4 DEF OperationsStamped
    <3>2. EndedBy(o, at)
      BY <1>2, <2>3, <2>4, <3>1 DEF Succession
    <3>3. QED
      BY <2>3, <3>2, EndedByKept
  <2>5. CASE p \notin OperationIds
    <3>1. at = clock
      BY <1>1, <1>2, <2>1, <2>5 DEF OperationsStamped
    <3>2. PICK d \in DeploymentIds : /\ BeginOperation(d)
                                     /\ operations'[p].source = d
      BY <1>2, <2>5, NewestIsLast
    <3>3. operations[o].source = d
      BY <1>1, <1>2, <2>3, <3>2 DEF OperationsStamped
    <3>4. EndedBy(o, at)
      BY <1>1, <2>3, <3>1, <3>2, <3>3, OverWhenNextBegins
    <3>5. QED
      BY <2>3, <3>4, EndedByKept
  <2>6. QED
    BY <2>4, <2>5
<1>3. ASSUME NEW o \in OperationIds',
             references'[operations'[o].source] \in Spent
      PROVE  EndedBy(o, updatedAt[operations[o].source])'
  <2>1. PICK d, at : d = operations'[o].source /\ at = updatedAt'[d]
    OBVIOUS
  <2>2. SUFFICES EndedBy(o, at)'
    BY <2>1 DEF EndedBy
  <2>3. o \in OperationIds
    <3>1. SUFFICES ASSUME o \notin OperationIds PROVE FALSE
      OBVIOUS
    <3>2. PICK c \in DeploymentIds : /\ BeginOperation(c)
                                     /\ operations'[o].source = c
      BY <1>3, <3>1, NewestIsLast
    <3>3. QED
      BY <1>3, <3>2 DEF BeginOperation, Spent
  <2>4. operations[o].source = d /\ d \in DeploymentIds
    BY <1>1, <2>1, <2>3 DEF OperationsStamped, SourcesExist
  <2>5. CASE references[d] \in Spent
    <3>1. at = updatedAt[d]
      BY <1>1, <2>1, <2>4, <2>5 DEF ReferencesStamped
    <3>2. EndedBy(o, at)
      BY <2>3, <2>4, <2>5, <3>1 DEF Succession
    <3>3. QED
      BY <2>3, <3>2, EndedByKept
  <2>6. ASSUME NEW c \in DeploymentIds, RecordReferenceAt(c),
               references[d] \notin Spent
        PROVE  EndedBy(o, at)'
    <3>1. at = clock
      BY <1>1, <1>3, <2>1, <2>4, <2>6, RowDomains DEF RecordReferenceAt
    <3>2. RecordReference(c)
      BY <2>6 DEF RecordReferenceAt
    <3>3. d # c /\ deployments[d].env = deployments[c].env
      BY <1>3, <2>1, <2>4, <2>6, <3>2, RecordEffect DEF Spent
    <3>4. EndedBy(o, at)
      BY <1>1, <2>3, <2>4, <3>1, <3>2, <3>3, OverWhenSuperseded
    <3>5. QED
      BY <2>3, <3>4, EndedByKept
  <2>7. ASSUME NEW p \in OperationIds, FinishOperationAt(p, "succeeded"),
               references[d] \notin Spent
        PROVE  EndedBy(o, at)'
    <3>1. /\ FinishOperation(p, "succeeded") /\ operations[p].state = "started"
          /\ finishedAt' = [finishedAt EXCEPT ![p] = clock]
          /\ updatedAt' = [updatedAt EXCEPT ![operations[p].source] = clock]
          /\ references' = [references EXCEPT ![operations[p].source] =
                                                               "consumed"]
          /\ operations' = [operations EXCEPT ![p].state = "succeeded"]
          /\ UNCHANGED incidentRows
      BY <2>7 DEF FinishOperationAt, FinishOperation
    <3>2. operations[p].source = d
      BY <1>3, <2>1, <2>4, <2>7, <3>1
    <3>3. at = clock
      BY <1>1, <2>1, <2>4, <3>1, <3>2, RowDomains
    <3>4. CASE o # p
      <4>1. EndedBy(o, at)
        BY <1>1, <2>3, <2>4, <3>1, <3>2, <3>3, <3>4, OverWhileStarted
      <4>2. QED
        BY <2>3, <4>1, EndedByKept
    <3>5. CASE o = p
      <4>1. operations'[o].state = "succeeded"
        <5>1. operations' = [operations EXCEPT ![p].state = "succeeded"]
          BY <3>1
        <5>2. operations'[p].state = "succeeded"
          BY <5>1, CloseEffect
        <5>3. QED
          BY <3>5, <5>2
      <4>2. finishedAt'[o] = clock
        BY <2>3, <3>1, <3>5, RowDomains
      <4>3. \A n \in DOMAIN incidentRows :
                ~(/\ incidentRows[n].kind = "rollback_operation"
                  /\ incidentRows[n].subject = o)
        BY <3>1, <3>5 DEF Chronicle, IncidentPast, OperationFailedBy
      <4>4. QED
        BY <1>1, <3>1, <3>3, <4>1, <4>2, <4>3 DEF EndedBy
    <3>6. QED
      BY <3>4, <3>5
  <2>8. QED
    BY <1>3, <2>1, <2>4, <2>5, <2>6, <2>7, SpentInStep
<1>4. QED
  BY <1>1, <1>2, <1>3 DEF Succession

(* Whatever comes after a rollback in the history of its deployment comes  *)
(* after its end and its acknowledgement.                                  *)
LEMMA SuccessionCorrect == AuditSpec => []Succession
<1>1. AuditInit => Succession
  <2>1. SUFFICES ASSUME AuditInit PROVE Succession
    OBVIOUS
  <2>2. DOMAIN incidentRows = {} /\ OperationIds = {}
    BY <2>1, EmptySeq DEF AuditInit, Init, OperationIds
  <2>3. QED
    BY <2>2 DEF Succession, RowsAwait
<1>2. /\ TypeOK /\ RowsTyped /\ Chronicle /\ GuardExclusive /\ ReferenceInv
      /\ IncidentSubjectFailed /\ HolderLatest /\ Succession
      /\ [AuditNext]_auditVars
      => Succession'
  BY SuccessionStep
<1>3. QED
  BY <1>1, <1>2, AuditImplementsStore, TypeCorrect, ChronicleCorrect,
     GuardCorrect, ReferenceInvCorrect, IncidentsCorrect, HolderLatestCorrect,
     PTL DEF AuditSpec
-----------------------------------------------------------------------------
(* The timeline: what each event of it says, by its rank.                  *)

Ranks == {10, 20, 30, 40, 50, 60, 70, 80, 90, 100}

IsEvent(e, at, rank, n, kind) ==
    e = Event(at, rank, n, kind) /\ e.source = n /\ e.at = at /\ e.kind = kind

(* What there is when d has an event e. *)
OfLifecycle(d, e) ==
    LET n == e.source IN
    /\ e.rank = 10 => IsEvent(e, createdAt[d], 10, 0, "deployment_created")
    /\ e.rank = 20 =>
           /\ n \in DOMAIN transitions /\ transitions[n].deployment = d
           /\ IsEvent(e, transitions[n].at, 20, n, "deployment_transition")
    /\ e.rank = 30 =>
           /\ n \in DOMAIN attempts /\ attempts[n].deployment = d
           /\ IsEvent(e, attempts[n].started, 30, n, "deployment_step_started")
    /\ e.rank = 40 =>
           /\ n \in DOMAIN attempts /\ attempts[n].deployment = d
           /\ attempts[n].status # "started"
           /\ IsEvent(e, attempts[n].finished, 40, n,
                      "deployment_step_finished")

OfReference(d, e) ==
    /\ e.rank = 50 =>
           /\ references[d] # "none"
           /\ IsEvent(e, recordedAt[d], 50, d, "rollback_reference_recorded")
    /\ e.rank = 60 =>
           /\ references[d] \in Spent
           /\ IsEvent(e, updatedAt[d], 60, d, references[d])

OfOperation(d, e) ==
    LET n == e.source IN
    /\ e.rank = 70 =>
           /\ n \in OperationIds /\ operations[n].source = d
           /\ IsEvent(e, startedAt[n], 70, n, "rollback_operation_started")
    /\ e.rank = 80 =>
           /\ n \in OperationIds /\ operations[n].source = d
           /\ operations[n].state \in {"succeeded", "failed"}
           /\ IsEvent(e, finishedAt[n], 80, n, operations[n].state)

OfRecovery(d, e) ==
    LET n == e.source IN
    /\ e.rank = 90 =>
           /\ n \in DOMAIN incidentRows
           /\ ConcernsDeployment(incidentRows[n], d)
           /\ IsEvent(e, incidentRows[n].at, 90, n,
                      "recovery_incident_recorded")
    /\ e.rank = 100 =>
           /\ n \in DOMAIN incidentRows
           /\ ConcernsDeployment(incidentRows[n], d)
           /\ incidentRows[n].acknowledged # Null
           /\ IsEvent(e, incidentRows[n].acknowledged, 100, n,
                      "recovery_acknowledged")

Grounded(d, e) ==
    /\ e.rank \in Ranks
    /\ OfLifecycle(d, e) /\ OfReference(d, e)
    /\ OfOperation(d, e) /\ OfRecovery(d, e)

(* An event is made of its fields. *)
LEMMA EventFields ==
    ASSUME NEW e, NEW at, NEW rank, NEW n, NEW kind,
           e = Event(at, rank, n, kind)
    PROVE  e.rank = rank /\ e.source = n /\ IsEvent(e, at, rank, n, kind)
BY DEF Event, IsEvent

(* The events of a deployment are those with grounds. *)
LEMMA LifecycleGrounded ==
    ASSUME NEW d, NEW e \in LifecycleEvents(d)
    PROVE  Grounded(d, e)
<1>1. ASSUME e = Event(createdAt[d], 10, 0, "deployment_created")
      PROVE  Grounded(d, e)
  <2>1. e.rank = 10 /\ IsEvent(e, createdAt[d], 10, 0, "deployment_created")
    BY <1>1, EventFields
  <2>2. QED
    BY <2>1 DEF Grounded, Ranks, OfLifecycle, OfReference, OfOperation,
                OfRecovery
<1>2. ASSUME NEW n \in DOMAIN transitions, transitions[n].deployment = d,
             e = Event(transitions[n].at, 20, n, "deployment_transition")
      PROVE  Grounded(d, e)
  <2>1. /\ e.rank = 20 /\ e.source = n
        /\ IsEvent(e, transitions[n].at, 20, n, "deployment_transition")
    BY <1>2, EventFields
  <2>2. QED
    BY <1>2, <2>1 DEF Grounded, Ranks, OfLifecycle, OfReference, OfOperation,
                      OfRecovery
<1>3. ASSUME NEW n \in DOMAIN attempts, attempts[n].deployment = d,
             e = Event(attempts[n].started, 30, n, "deployment_step_started")
      PROVE  Grounded(d, e)
  <2>1. /\ e.rank = 30 /\ e.source = n
        /\ IsEvent(e, attempts[n].started, 30, n, "deployment_step_started")
    BY <1>3, EventFields
  <2>2. QED
    BY <1>3, <2>1 DEF Grounded, Ranks, OfLifecycle, OfReference, OfOperation,
                      OfRecovery
<1>4. ASSUME NEW n \in DOMAIN attempts, attempts[n].deployment = d,
             attempts[n].status # "started",
             e = Event(attempts[n].finished, 40, n, "deployment_step_finished")
      PROVE  Grounded(d, e)
  <2>1. /\ e.rank = 40 /\ e.source = n
        /\ IsEvent(e, attempts[n].finished, 40, n, "deployment_step_finished")
    BY <1>4, EventFields
  <2>2. QED
    BY <1>4, <2>1 DEF Grounded, Ranks, OfLifecycle, OfReference, OfOperation,
                      OfRecovery
<1>5. QED
  BY <1>1, <1>2, <1>3, <1>4 DEF LifecycleEvents, Indices

(* The same of the events of its reference. *)
LEMMA ReferenceGrounded ==
    ASSUME NEW d, NEW e \in ReferenceEvents(d)
    PROVE  Grounded(d, e)
<1>1. ASSUME references[d] # "none",
             e = Event(recordedAt[d], 50, d, "rollback_reference_recorded")
      PROVE  Grounded(d, e)
  <2>1. /\ e.rank = 50
        /\ IsEvent(e, recordedAt[d], 50, d, "rollback_reference_recorded")
    BY <1>1, EventFields
  <2>2. QED
    BY <1>1, <2>1 DEF Grounded, Ranks, OfLifecycle, OfReference, OfOperation,
                      OfRecovery
<1>2. ASSUME references[d] \in Spent,
             e = Event(updatedAt[d], 60, d, references[d])
      PROVE  Grounded(d, e)
  <2>1. e.rank = 60 /\ IsEvent(e, updatedAt[d], 60, d, references[d])
    BY <1>2, EventFields
  <2>2. QED
    BY <1>2, <2>1 DEF Grounded, Ranks, OfLifecycle, OfReference, OfOperation,
                      OfRecovery
<1>3. QED
  BY <1>1, <1>2 DEF ReferenceEvents, Spent

(* The same of the events of its rollbacks. *)
LEMMA OperationGrounded ==
    ASSUME TypeOK, NEW d, NEW e \in OperationEvents(d)
    PROVE  Grounded(d, e)
<1>1. ASSUME NEW o \in OperationIds, operations[o].source = d,
             e = Event(startedAt[o], 70, o, "rollback_operation_started")
      PROVE  Grounded(d, e)
  <2>1. /\ e.rank = 70 /\ e.source = o
        /\ IsEvent(e, startedAt[o], 70, o, "rollback_operation_started")
    BY <1>1, EventFields
  <2>2. QED
    BY <1>1, <2>1 DEF Grounded, Ranks, OfLifecycle, OfReference, OfOperation,
                      OfRecovery
<1>2. ASSUME NEW o \in OperationIds, operations[o].source = d,
             operations[o].state # "started",
             e = Event(finishedAt[o], 80, o, operations[o].state)
      PROVE  Grounded(d, e)
  <2>1. /\ e.rank = 80 /\ e.source = o
        /\ IsEvent(e, finishedAt[o], 80, o, operations[o].state)
    BY <1>2, EventFields
  <2>2. operations[o].state \in {"succeeded", "failed"}
    BY <1>2, Rows DEF OperationState
  <2>3. QED
    BY <1>2, <2>1, <2>2 DEF Grounded, Ranks, OfLifecycle, OfReference,
                            OfOperation, OfRecovery
<1>3. QED
  BY <1>1, <1>2 DEF OperationEvents

(* The same of the events of recovery. *)
LEMMA RecoveryGrounded ==
    ASSUME NEW d, NEW e \in RecoveryEvents(d)
    PROVE  Grounded(d, e)
<1>1. ASSUME NEW n \in DOMAIN incidentRows,
             ConcernsDeployment(incidentRows[n], d),
             e = Event(incidentRows[n].at, 90, n, "recovery_incident_recorded")
      PROVE  Grounded(d, e)
  <2>1. /\ e.rank = 90 /\ e.source = n
        /\ IsEvent(e, incidentRows[n].at, 90, n, "recovery_incident_recorded")
    BY <1>1, EventFields
  <2>2. QED
    BY <1>1, <2>1 DEF Grounded, Ranks, OfLifecycle, OfReference, OfOperation,
                      OfRecovery
<1>2. ASSUME NEW n \in DOMAIN incidentRows,
             ConcernsDeployment(incidentRows[n], d),
             incidentRows[n].acknowledged # Null,
             e = Event(incidentRows[n].acknowledged, 100, n,
                       "recovery_acknowledged")
      PROVE  Grounded(d, e)
  <2>1. /\ e.rank = 100 /\ e.source = n
        /\ IsEvent(e, incidentRows[n].acknowledged, 100, n,
                   "recovery_acknowledged")
    BY <1>2, EventFields
  <2>2. QED
    BY <1>2, <2>1 DEF Grounded, Ranks, OfLifecycle, OfReference, OfOperation,
                      OfRecovery
<1>3. QED
  BY <1>1, <1>2 DEF RecoveryEvents, Indices

(* So every event of the timeline has grounds. *)
LEMMA EventGrounded ==
    ASSUME TypeOK, NEW d, NEW e \in Events(d)
    PROVE  Grounded(d, e)
BY LifecycleGrounded, ReferenceGrounded, OperationGrounded, RecoveryGrounded
DEF Events

(* The times an event of d may have. *)
LEMMA EventTimes ==
    ASSUME TypeOK, RowsTyped, Chronicle, NEW d \in DeploymentIds,
           NEW e \in Events(d)
    PROVE  /\ e.at \in Nat /\ e.rank \in Nat /\ e.source \in Nat
           /\ createdAt[d] \in Nat /\ createdAt[d] <= e.at
<1>1. Grounded(d, e)
  BY EventGrounded
<1>2. PICK n : n = e.source
  OBVIOUS
<1>3. createdAt[d] \in Nat /\ recordedAt[d] \in Nat /\ updatedAt[d] \in Nat
      /\ d \in Nat
  BY RowDomains, Rows DEF DeploymentIds
<1>4. e.rank \in Nat
  BY <1>1 DEF Grounded, Ranks
<1>5. CASE e.rank = 10
  BY <1>1, <1>3, <1>4, <1>5 DEF Grounded, OfLifecycle, IsEvent
<1>6. CASE e.rank = 20
  <2>1. /\ n \in DOMAIN transitions /\ transitions[n].deployment = d
        /\ e.at = transitions[n].at
    BY <1>1, <1>2, <1>6 DEF Grounded, OfLifecycle, IsEvent
  <2>2. TransitionPast(n) /\ transitions[n].at \in Nat /\ n \in Nat
    BY <2>1, RowDomains DEF Chronicle, TransitionRow
  <2>3. QED
    BY <1>2, <1>3, <1>4, <2>1, <2>2 DEF TransitionPast
<1>7. CASE e.rank \in {30, 40}
  <2>1. /\ n \in DOMAIN attempts /\ attempts[n].deployment = d
        /\ \/ e.at = attempts[n].started
           \/ attempts[n].status # "started" /\ e.at = attempts[n].finished
    BY <1>1, <1>2, <1>7 DEF Grounded, OfLifecycle, IsEvent
  <2>2. /\ AttemptPast(n) /\ n \in Nat /\ attempts[n].started \in Nat
        /\ attempts[n].finished \in Nat
    BY <2>1, RowDomains DEF Chronicle, AttemptRow
  <2>3. QED
    BY <1>2, <1>3, <1>4, <2>1, <2>2 DEF AttemptPast
<1>8. CASE e.rank \in {50, 60}
  <2>1. /\ e.source = d /\ references[d] # "none"
        /\ e.at = recordedAt[d] \/ e.at = updatedAt[d]
    BY <1>1, <1>8 DEF Grounded, OfReference, IsEvent, Spent
  <2>2. ReferencePast(d)
    BY <2>1 DEF Chronicle
  <2>3. QED
    BY <1>3, <1>4, <2>1, <2>2 DEF ReferencePast
<1>9. ASSUME NEW o \in OperationIds, operations[o].source = d
      PROVE  /\ startedAt[o] \in Nat /\ finishedAt[o] \in Nat /\ o \in Nat
             /\ createdAt[d] <= startedAt[o]
             /\ operations[o].state # "started" =>
                    startedAt[o] <= finishedAt[o]
  <2>1. /\ OperationPast(o) /\ startedAt[o] \in Nat /\ finishedAt[o] \in Nat
        /\ o \in Nat
    BY <1>9, RowDomains, Rows DEF Chronicle, OperationIds
  <2>2. ReferencePast(d)
    BY <1>9, <2>1 DEF OperationPast, Chronicle
  <2>3. QED
    BY <1>3, <1>9, <2>1, <2>2 DEF OperationPast, ReferencePast
<1>10. CASE e.rank \in {70, 80}
  <2>1. /\ n \in OperationIds /\ operations[n].source = d
        /\ \/ e.at = startedAt[n]
           \/ operations[n].state # "started" /\ e.at = finishedAt[n]
    BY <1>1, <1>2, <1>10 DEF Grounded, OfOperation, IsEvent
  <2>2. QED
    BY <1>2, <1>3, <1>4, <1>9, <2>1
<1>11. CASE e.rank \in {90, 100}
  <2>1. /\ n \in DOMAIN incidentRows
        /\ ConcernsDeployment(incidentRows[n], d)
        /\ \/ e.at = incidentRows[n].at
           \/ /\ incidentRows[n].acknowledged # Null
              /\ e.at = incidentRows[n].acknowledged
    BY <1>1, <1>2, <1>11 DEF Grounded, OfRecovery, IsEvent
  <2>2. /\ IncidentPast(n) /\ n \in Nat /\ incidentRows[n].at \in Nat
        /\ incidentRows[n].acknowledged \in Nat
    BY <2>1, RowDomains DEF Chronicle, RecoveryRow
  <2>3. PICK c : c = incidentRows[n].subject
    OBVIOUS
  <2>4. \/ incidentRows[n].kind = "deployment" /\ c = d
        \/ /\ incidentRows[n].kind = "rollback_operation"
           /\ operations[c].source = d
    BY <2>1, <2>3 DEF ConcernsDeployment
  <2>5. ASSUME incidentRows[n].kind = "deployment", c = d
        PROVE  createdAt[d] <= incidentRows[n].at
    BY <2>2, <2>3, <2>5 DEF IncidentPast, DeploymentFailedBy
  <2>6. ASSUME incidentRows[n].kind = "rollback_operation",
               operations[c].source = d
        PROVE  createdAt[d] <= incidentRows[n].at
    <3>1. /\ c \in OperationIds /\ operations[c].state = "failed"
          /\ finishedAt[c] <= incidentRows[n].at
      BY <2>2, <2>3, <2>6 DEF IncidentPast, OperationFailedBy
    <3>2. QED
      BY <1>3, <1>9, <2>2, <2>6, <3>1
  <2>7. createdAt[d] <= incidentRows[n].at
    BY <2>4, <2>5, <2>6
  <2>8. QED
    BY <1>2, <1>3, <1>4, <2>1, <2>2, <2>7 DEF IncidentPast
<1>12. QED
  BY <1>1, <1>5, <1>6, <1>7, <1>8, <1>10, <1>11 DEF Grounded, Ranks

(* The order of the timeline is strict, and total on the events of d.      *)
LEMMA TimelineOrdered ==
    ASSUME TypeOK, RowsTyped, Chronicle, NEW d \in DeploymentIds
    PROVE  /\ \A a \in Events(d) : ~SortsBefore(a, a)
           /\ \A a, b, c \in Events(d) :
                  SortsBefore(a, b) /\ SortsBefore(b, c) => SortsBefore(a, c)
           /\ \A a, b \in Events(d) :
                  a # b => SortsBefore(a, b) \/ SortsBefore(b, a)
<1>1. \A a \in Events(d) : a.at \in Nat /\ a.rank \in Nat /\ a.source \in Nat
  BY EventTimes
<1>2. \A a \in Events(d) : ~SortsBefore(a, a)
  BY <1>1 DEF SortsBefore
<1>3. \A a, b, c \in Events(d) :
          SortsBefore(a, b) /\ SortsBefore(b, c) => SortsBefore(a, c)
  BY <1>1 DEF SortsBefore
<1>4. ASSUME NEW a \in Events(d), NEW b \in Events(d), a.rank = b.rank,
             a.source = b.source
      PROVE  a = b
  <2>1. Grounded(d, a) /\ Grounded(d, b)
    BY EventGrounded
  <2>2. CASE a.rank \in {10, 20, 30, 40}
    BY <1>4, <2>1, <2>2 DEF Grounded, OfLifecycle, IsEvent
  <2>3. CASE a.rank \in {50, 60}
    BY <1>4, <2>1, <2>3 DEF Grounded, OfReference, IsEvent
  <2>4. CASE a.rank \in {70, 80}
    BY <1>4, <2>1, <2>4 DEF Grounded, OfOperation, IsEvent
  <2>5. CASE a.rank \in {90, 100}
    BY <1>4, <2>1, <2>5 DEF Grounded, OfRecovery, IsEvent
  <2>6. QED
    BY <2>1, <2>2, <2>3, <2>4, <2>5 DEF Grounded, Ranks
<1>5. \A a, b \in Events(d) :
          a # b => SortsBefore(a, b) \/ SortsBefore(b, a)
  BY <1>1, <1>4 DEF SortsBefore
<1>6. QED
  BY <1>2, <1>3, <1>5

(* The kind of an event tells its rank. *)
LEMMA KindRanks ==
    ASSUME TypeOK, NEW d, NEW e \in Events(d)
    PROVE  /\ e.kind = "deployment_created" <=> e.rank = 10
           /\ e.kind = "deployment_transition" <=> e.rank = 20
           /\ e.kind = "deployment_step_started" <=> e.rank = 30
           /\ e.kind = "deployment_step_finished" <=> e.rank = 40
           /\ e.kind = "rollback_reference_recorded" <=> e.rank = 50
           /\ e.kind \in {"superseded", "consumed"} <=> e.rank = 60
           /\ e.kind = "rollback_operation_started" <=> e.rank = 70
           /\ e.kind \in {"succeeded", "failed"} <=> e.rank = 80
           /\ e.kind = "recovery_incident_recorded" <=> e.rank = 90
           /\ e.kind = "recovery_acknowledged" <=> e.rank = 100
<1>1. Grounded(d, e)
  BY EventGrounded
<1>2. /\ e.rank = 10 => e.kind = "deployment_created"
      /\ e.rank = 20 => e.kind = "deployment_transition"
      /\ e.rank = 30 => e.kind = "deployment_step_started"
      /\ e.rank = 40 => e.kind = "deployment_step_finished"
  BY <1>1 DEF Grounded, OfLifecycle, IsEvent
<1>3. /\ e.rank = 50 => e.kind = "rollback_reference_recorded"
      /\ e.rank = 60 => e.kind \in {"superseded", "consumed"}
  BY <1>1 DEF Grounded, OfReference, IsEvent, Spent
<1>4. /\ e.rank = 70 => e.kind = "rollback_operation_started"
      /\ e.rank = 80 => e.kind \in {"succeeded", "failed"}
  BY <1>1 DEF Grounded, OfOperation, IsEvent
<1>5. /\ e.rank = 90 => e.kind = "recovery_incident_recorded"
      /\ e.rank = 100 => e.kind = "recovery_acknowledged"
  BY <1>1 DEF Grounded, OfRecovery, IsEvent
<1>6. e.rank \in Ranks
  BY <1>1 DEF Grounded
<1>7. QED
  BY <1>2, <1>3, <1>4, <1>5, <1>6 DEF Ranks

(* Transitions are shown in the order of their rows. *)
LEMMA TransitionsOrdered ==
    ASSUME TypeOK, RowsTyped, Chronicle, NEW d \in DeploymentIds,
           NEW a \in Events(d), a.kind = "deployment_transition",
           NEW b \in Events(d), b.kind = "deployment_transition",
           a.source < b.source
    PROVE  SortsBefore(a, b)
<1>1. /\ Grounded(d, a) /\ Grounded(d, b)
      /\ a.at \in Nat /\ b.at \in Nat
  BY EventGrounded, EventTimes
<1>2. PICK n, m : n = a.source /\ m = b.source
  OBVIOUS
<1>3. a.rank = 20 /\ b.rank = 20
  BY KindRanks
<1>4. /\ n \in DOMAIN transitions /\ m \in DOMAIN transitions
      /\ transitions[n].deployment = d /\ transitions[m].deployment = d
      /\ a.at = transitions[n].at /\ b.at = transitions[m].at
  BY <1>1, <1>2, <1>3 DEF Grounded, OfLifecycle, IsEvent
<1>5. TransitionPast(m)
  BY <1>4 DEF Chronicle
<1>6. a.at <= b.at
  BY <1>2, <1>4, <1>5 DEF TransitionPast
<1>7. QED
  BY <1>1, <1>3, <1>6 DEF SortsBefore

(* A rollback starts before the next one of its deployment. *)
LEMMA RollbackBefore ==
    ASSUME TypeOK, RowsTyped, Chronicle, Succession,
           NEW o \in OperationIds, NEW p \in OperationIds,
           operations[p].source = operations[o].source, o < p
    PROVE  startedAt[o] <= startedAt[p]
<1>1. EndedBy(o, startedAt[p]) /\ OperationPast(o)
  BY DEF Succession, Chronicle
<1>2. /\ startedAt[o] \in Nat /\ finishedAt[o] \in Nat
      /\ startedAt[p] \in Nat
  BY RowDomains
<1>3. QED
  BY <1>1, <1>2 DEF EndedBy, OperationPast

(* A deployment that failed has no reference. *)
LEMMA FailedUnreferenced ==
    ASSUME Chronicle, NEW d \in DeploymentIds,
           deployments[d].state = "failed", references[d] # "none"
    PROVE  FALSE
BY DEF Chronicle, ReferencePast, RollbackEligible

(* A cause in the past of what it causes is shown first when it ranks      *)
(* before it.                                                              *)
LEMMA CausesOrdered ==
    ASSUME TypeOK, RowsTyped, Chronicle, Succession, NEW d \in DeploymentIds,
           NEW a \in Events(d), NEW b \in Events(d), PrecedesByRank(a, b)
    PROVE  SortsBefore(a, b)
<1>1. /\ Grounded(d, a) /\ Grounded(d, b)
      /\ a.at \in Nat /\ a.rank \in Nat /\ a.source \in Nat
      /\ b.at \in Nat /\ b.rank \in Nat /\ b.source \in Nat
  BY EventGrounded, EventTimes
<1>2. PICK n, m : n = a.source /\ m = b.source
  OBVIOUS
<1>3. ASSUME a.at <= b.at, a.rank < b.rank PROVE SortsBefore(a, b)
  BY <1>1, <1>3 DEF SortsBefore
<1>4. CASE a.kind = "deployment_created" /\ b.kind # "deployment_created"
  <2>1. a.rank = 10 /\ b.rank \in Ranks \ {10}
    BY <1>1, <1>4, KindRanks DEF Grounded
  <2>2. a.at = createdAt[d] /\ createdAt[d] <= b.at
    BY <1>1, <2>1, EventTimes DEF Grounded, OfLifecycle, IsEvent
  <2>3. QED
    BY <1>3, <2>1, <2>2 DEF Ranks
<1>5. CASE /\ a.kind = "deployment_transition" /\ b.kind = a.kind
           /\ a.source < b.source
  BY <1>5, TransitionsOrdered
<1>14. CASE /\ a.kind = "rollback_operation_started" /\ b.kind = a.kind
            /\ a.source < b.source
  <2>1. a.rank = 70 /\ b.rank = 70
    BY <1>14, KindRanks
  <2>2. /\ n \in OperationIds /\ m \in OperationIds
        /\ operations[n].source = d /\ operations[m].source = d
        /\ a.at = startedAt[n] /\ b.at = startedAt[m]
    BY <1>1, <1>2, <2>1 DEF Grounded, OfOperation, IsEvent
  <2>3. a.at <= b.at
    BY <1>2, <1>14, <2>2, RollbackBefore
  <2>4. QED
    BY <1>1, <1>14, <2>1, <2>3 DEF SortsBefore
<1>6. CASE /\ a.kind = "deployment_step_started" /\ a.source = b.source
           /\ b.kind = "deployment_step_finished"
  <2>1. a.rank = 30 /\ b.rank = 40
    BY <1>6, KindRanks
  <2>2. /\ n \in DOMAIN attempts /\ attempts[n].status # "started"
        /\ a.at = attempts[n].started /\ b.at = attempts[n].finished
    BY <1>1, <1>2, <1>6, <2>1 DEF Grounded, OfLifecycle, IsEvent
  <2>3. AttemptPast(n)
    BY <2>2 DEF Chronicle
  <2>4. QED
    BY <1>3, <2>1, <2>2, <2>3 DEF AttemptPast
<1>7. CASE /\ a.kind = "deployment_transition"
           /\ b.kind = "rollback_reference_recorded"
  <2>1. a.rank = 20 /\ b.rank = 50
    BY <1>7, KindRanks
  <2>2. /\ n \in DOMAIN transitions /\ transitions[n].deployment = d
        /\ a.at = transitions[n].at
    BY <1>1, <1>2, <2>1 DEF Grounded, OfLifecycle, IsEvent
  <2>3. references[d] # "none" /\ b.at = recordedAt[d]
    BY <1>1, <2>1 DEF Grounded, OfReference, IsEvent
  <2>4. ReferencePast(d)
    BY <2>3 DEF Chronicle
  <2>5. QED
    BY <1>3, <2>1, <2>2, <2>3, <2>4 DEF ReferencePast
<1>8. CASE /\ a.kind = "rollback_reference_recorded"
           /\ b.kind \in SpentKinds \cup {"rollback_operation_started"}
  <2>1. a.rank = 50 /\ b.rank \in {60, 70}
    BY <1>8, KindRanks DEF SpentKinds
  <2>2. references[d] # "none" /\ a.at = recordedAt[d]
    BY <1>1, <2>1 DEF Grounded, OfReference, IsEvent
  <2>3. CASE b.rank = 60
    <3>1. b.at = updatedAt[d] /\ ReferencePast(d)
      BY <1>1, <2>2, <2>3 DEF Grounded, OfReference, IsEvent, Chronicle
    <3>2. QED
      BY <1>3, <2>1, <2>2, <2>3, <3>1 DEF ReferencePast
  <2>4. CASE b.rank = 70
    <3>1. /\ m \in OperationIds /\ operations[m].source = d
          /\ b.at = startedAt[m]
      BY <1>1, <1>2, <2>4 DEF Grounded, OfOperation, IsEvent
    <3>2. OperationPast(m)
      BY <3>1 DEF Chronicle
    <3>3. QED
      BY <1>3, <2>1, <2>2, <2>4, <3>1, <3>2 DEF OperationPast
  <2>5. QED
    BY <2>1, <2>3, <2>4
<1>9. CASE /\ a.kind = "rollback_operation_started" /\ a.source = b.source
           /\ b.kind \in EndKinds
  <2>1. a.rank = 70 /\ b.rank = 80
    BY <1>9, KindRanks DEF EndKinds
  <2>2. /\ n \in OperationIds /\ a.at = startedAt[n]
        /\ b.at = finishedAt[n] /\ operations[n].state # "started"
    BY <1>1, <1>2, <1>9, <2>1 DEF Grounded, OfOperation, IsEvent
  <2>3. OperationPast(n)
    BY <2>2 DEF Chronicle
  <2>4. QED
    BY <1>3, <2>1, <2>2, <2>3 DEF OperationPast
<1>10. CASE /\ b.kind = "recovery_incident_recorded"
            /\ incidentRows[b.source].kind = "deployment"
            /\ a.kind = "deployment_transition"
  <2>1. a.rank = 20 /\ b.rank = 90
    BY <1>10, KindRanks
  <2>2. /\ n \in DOMAIN transitions /\ transitions[n].deployment = d
        /\ a.at = transitions[n].at
    BY <1>1, <1>2, <2>1 DEF Grounded, OfLifecycle, IsEvent
  <2>3. /\ m \in DOMAIN incidentRows /\ b.at = incidentRows[m].at
        /\ ConcernsDeployment(incidentRows[m], d)
    BY <1>1, <1>2, <2>1 DEF Grounded, OfRecovery, IsEvent
  <2>4. /\ IncidentPast(m) /\ incidentRows[m].kind = "deployment"
        /\ incidentRows[m].subject = d
    BY <1>2, <1>10, <2>3 DEF Chronicle, ConcernsDeployment
  <2>5. a.at <= b.at
    BY <2>2, <2>3, <2>4 DEF IncidentPast, DeploymentFailedBy
  <2>6. QED
    BY <1>3, <2>1, <2>5
<1>11. CASE /\ b.kind = "recovery_incident_recorded"
            /\ incidentRows[b.source].kind = "rollback_operation"
            /\ a.kind \in EndKinds
            /\ a.source = incidentRows[b.source].subject
  <2>1. a.rank = 80 /\ b.rank = 90
    BY <1>11, KindRanks DEF EndKinds
  <2>2. a.at = finishedAt[n]
    BY <1>1, <1>2, <2>1 DEF Grounded, OfOperation, IsEvent
  <2>3. m \in DOMAIN incidentRows /\ b.at = incidentRows[m].at
    BY <1>1, <1>2, <2>1 DEF Grounded, OfRecovery, IsEvent
  <2>4. /\ IncidentPast(m) /\ incidentRows[m].kind = "rollback_operation"
        /\ incidentRows[m].subject = n
    BY <1>2, <1>11, <2>3 DEF Chronicle
  <2>5. a.at <= b.at
    BY <2>2, <2>3, <2>4 DEF IncidentPast, OperationFailedBy
  <2>6. QED
    BY <1>3, <2>1, <2>5
<1>12. CASE /\ a.kind = "recovery_incident_recorded" /\ a.source = b.source
            /\ b.kind = "recovery_acknowledged"
  <2>1. a.rank = 90 /\ b.rank = 100
    BY <1>12, KindRanks
  <2>2. /\ n \in DOMAIN incidentRows /\ a.at = incidentRows[n].at
        /\ incidentRows[n].acknowledged # Null
        /\ b.at = incidentRows[n].acknowledged
    BY <1>1, <1>2, <1>12, <2>1 DEF Grounded, OfRecovery, IsEvent
  <2>3. IncidentPast(n)
    BY <2>2 DEF Chronicle
  <2>4. QED
    BY <1>3, <2>1, <2>2, <2>3 DEF IncidentPast
<1>13. QED
  BY <1>4, <1>5, <1>6, <1>7, <1>8, <1>9, <1>10, <1>11, <1>12, <1>14
  DEF PrecedesByRank

(* What concerns a rollback of d is stamped no later than the next one and *)
(* the end of the reference, although it ranks after both.                 *)
LEMMA CausesStamped ==
    ASSUME TypeOK, RowsTyped, Chronicle, Succession, NEW d \in DeploymentIds,
           NEW a \in Events(d), NEW b \in Events(d), PrecedesAgainstRank(a, b)
    PROVE  a.at <= b.at
<1>1. Grounded(d, a) /\ Grounded(d, b)
  BY EventGrounded
<1>2. PICK n, m : n = a.source /\ m = b.source
  OBVIOUS
<1>3. /\ b.kind \in SpentKinds \/ b.kind = "rollback_operation_started"
      /\ \/ a.kind \in EndKinds \cup {"rollback_operation_started"}
         \/ a.kind \in {"recovery_incident_recorded", "recovery_acknowledged"}
  BY DEF PrecedesAgainstRank
<1>4. /\ b.rank = 60 \/ b.rank = 70
      /\ b.kind \in SpentKinds <=> b.rank = 60
      /\ b.kind = "rollback_operation_started" <=> b.rank = 70
      /\ a.kind \in EndKinds <=> a.rank = 80
      /\ a.kind = "rollback_operation_started" <=> a.rank = 70
      /\ a.kind \in {"recovery_incident_recorded", "recovery_acknowledged"}
             <=> a.rank \in {90, 100}
  BY <1>3, KindRanks DEF SpentKinds, EndKinds
<1>5. PICK o : o = IF a.rank \in {90, 100} THEN incidentRows[n].subject ELSE n
  OBVIOUS
<1>6. CASE a.rank \in {90, 100} /\ incidentRows[n].kind = "deployment"
  <2>1. incidentRows[n].subject = d /\ n \in DOMAIN incidentRows
    BY <1>1, <1>2, <1>6 DEF Grounded, OfRecovery, ConcernsDeployment
  <2>2. deployments[d].state = "failed"
    BY <1>6, <2>1 DEF Chronicle, IncidentPast, DeploymentFailedBy
  <2>3. b.rank = 60
    BY <1>2, <1>4, <1>6 DEF PrecedesAgainstRank, EndKinds
  <2>4. references[d] \in Spent
    BY <1>1, <2>3 DEF Grounded, OfReference
  <2>5. QED
    BY <2>2, <2>4, FailedUnreferenced DEF Spent
<1>7. ASSUME o \in OperationIds, operations[o].source = d,
             b.rank = 70 => o < m
      PROVE  /\ OperationPast(o) /\ startedAt[o] \in Nat
             /\ finishedAt[o] \in Nat
             /\ EndedBy(o, b.at) /\ b.at \in Nat
  <2>1. OperationPast(o) /\ startedAt[o] \in Nat /\ finishedAt[o] \in Nat
    BY <1>7, RowDomains DEF Chronicle
  <2>2. b.at \in Nat
    BY EventTimes
  <2>3. CASE b.rank = 60
    <3>1. references[d] \in Spent /\ b.at = updatedAt[d]
      BY <1>1, <2>3 DEF Grounded, OfReference, IsEvent
    <3>2. QED
      BY <1>7, <2>1, <2>2, <3>1 DEF Succession
  <2>4. CASE b.rank = 70
    <3>1. /\ m \in OperationIds /\ operations[m].source = d
          /\ b.at = startedAt[m]
      BY <1>1, <1>2, <2>4 DEF Grounded, OfOperation, IsEvent
    <3>2. QED
      BY <1>7, <2>1, <2>2, <2>4, <3>1 DEF Succession
  <2>5. QED
    BY <1>4, <2>3, <2>4
<1>8. CASE a.rank \in {70, 80}
  <2>1. /\ o \in OperationIds /\ operations[o].source = d
        /\ a.at = startedAt[o] \/ a.at = finishedAt[o]
    BY <1>1, <1>2, <1>5, <1>8 DEF Grounded, OfOperation, IsEvent
  <2>2. b.rank = 70 => o < m
    BY <1>2, <1>4, <1>5, <1>8
    DEF PrecedesAgainstRank, SpentKinds, EndKinds
  <2>3. /\ OperationPast(o) /\ startedAt[o] \in Nat /\ finishedAt[o] \in Nat
        /\ EndedBy(o, b.at) /\ b.at \in Nat
    BY <1>7, <2>1, <2>2
  <2>4. QED
    BY <2>1, <2>3 DEF OperationPast, EndedBy
<1>9. CASE a.rank \in {90, 100} /\ incidentRows[n].kind # "deployment"
  <2>1. /\ n \in DOMAIN incidentRows
        /\ incidentRows[n].kind = "rollback_operation"
        /\ operations[o].source = d
        /\ a.at = incidentRows[n].at \/ a.at = incidentRows[n].acknowledged
    BY <1>1, <1>2, <1>5, <1>9
    DEF Grounded, OfRecovery, IsEvent, ConcernsDeployment
  <2>2. IncidentPast(n) /\ o \in OperationIds
    BY <1>5, <1>9, <2>1 DEF Chronicle, IncidentPast, OperationFailedBy
  <2>3. b.rank = 70 => o < m
    BY <1>2, <1>4, <1>5, <1>9
    DEF PrecedesAgainstRank, SpentKinds, EndKinds
  <2>4. EndedBy(o, b.at) /\ b.at \in Nat
    BY <1>7, <2>1, <2>2, <2>3
  <2>5. incidentRows[n].at \in Nat /\ incidentRows[n].acknowledged \in Nat
    BY <2>1, RowDomains DEF RecoveryRow
  <2>6. QED
    BY <1>5, <1>9, <2>1, <2>2, <2>4, <2>5 DEF EndedBy, IncidentPast
<1>10. QED
  BY <1>3, <1>4, <1>6, <1>8, <1>9

(* However many events share a millisecond, no two of them tie, and the    *)
(* timeline departs from the order of the store's transactions only where  *)
(* two events share a millisecond and their ranks are the wrong way round.                                                *)
THEOREM TimelineFollowsCausesCorrect == AuditSpec => []TimelineFollowsCauses
<1>1. TypeOK /\ RowsTyped /\ Chronicle /\ Succession => TimelineFollowsCauses
  <2> SUFFICES ASSUME TypeOK, RowsTyped, Chronicle, Succession,
                      NEW d \in DeploymentIds,
                      NEW a \in Events(d), NEW b \in Events(d)
               PROVE  /\ a # b => SortsBefore(a, b) \/ SortsBefore(b, a)
                      /\ PrecedesByRank(a, b) => SortsBefore(a, b)
                      /\ PrecedesAgainstRank(a, b) =>
                             SortsBefore(a, b) \/ a.at = b.at
    BY DEF TimelineFollowsCauses
  <2>1. a.at \in Nat /\ b.at \in Nat
    BY EventTimes
  <2>2. PrecedesAgainstRank(a, b) => SortsBefore(a, b) \/ a.at = b.at
    BY <2>1, CausesStamped DEF SortsBefore
  <2>3. QED
    BY <2>2, TimelineOrdered, CausesOrdered
<1>2. QED
  BY <1>1, AuditImplementsStore, TypeCorrect, ChronicleCorrect,
     SuccessionCorrect, PTL
-----------------------------------------------------------------------------
(* The transitions that a timeline shows.                                  *)

Move(n) == Event(transitions[n].at, 20, n, "deployment_transition")

(* The transitions on the timeline of d are those of its rows.             *)
LEMMA MovesShown ==
    ASSUME TypeOK, NEW d
    PROVE  /\ \A n \in DOMAIN transitions :
                  transitions[n].deployment = d =>
                      /\ Move(n) \in Events(d)
                      /\ Move(n).kind = "deployment_transition"
                      /\ Move(n).source = n
           /\ \A e \in Events(d) :
                  e.kind = "deployment_transition" =>
                      /\ e.source \in DOMAIN transitions
                      /\ transitions[e.source].deployment = d
                      /\ e = Move(e.source)
<1>1. ASSUME NEW n \in DOMAIN transitions, transitions[n].deployment = d
      PROVE  /\ Move(n) \in Events(d)
             /\ Move(n).kind = "deployment_transition"
             /\ Move(n).source = n
  <2>1. Move(n) \in LifecycleEvents(d)
    BY <1>1 DEF LifecycleEvents, Indices, Move
  <2>2. QED
    BY <2>1 DEF Events, Move, Event
<1>2. ASSUME NEW e \in Events(d), e.kind = "deployment_transition"
      PROVE  /\ e.source \in DOMAIN transitions
             /\ transitions[e.source].deployment = d
             /\ e = Move(e.source)
  <2>1. e.rank = 20 /\ Grounded(d, e)
    BY <1>2, KindRanks, EventGrounded
  <2>2. QED
    BY <2>1 DEF Grounded, OfLifecycle, IsEvent, Move
<1>3. QED
  BY <1>1, <1>2

(* The timeline shows them in the order of their rows. *)
LEMMA MovesOrdered ==
    ASSUME TypeOK, RowsTyped, Chronicle, NEW d \in DeploymentIds,
           NEW a \in Events(d), a.kind = "deployment_transition",
           NEW b \in Events(d), b.kind = "deployment_transition"
    PROVE  SortsBefore(a, b) <=> a.source < b.source
<1>1. a.source \in Nat /\ b.source \in Nat
  BY EventTimes
<1>2. ASSUME a.source < b.source PROVE SortsBefore(a, b)
  BY <1>2, TransitionsOrdered
<1>3. ASSUME b.source < a.source PROVE SortsBefore(b, a)
  BY <1>3, TransitionsOrdered
<1>4. a.source = b.source => a = b
  BY MovesShown
<1>5. QED
  BY <1>1, <1>2, <1>3, <1>4, TimelineOrdered

(* Shown the transitions of d before row n, a reader arrives where these   *)
(* rows led.                                                               *)
LEMMA LeadToLed ==
    ASSUME TypeOK, RowsTyped, Chronicle, NEW d \in DeploymentIds,
           NEW n \in Nat, NEW s, LedTo(s, d, n),
           NEW shown \in SUBSET Events(d),
           \A e \in Events(d) : e.kind = "deployment_transition" =>
               (e \in shown <=> e.source < n)
    PROVE  LeadTo(shown) = s
<1>1. PICK moves : moves = {e \in shown : e.kind = "deployment_transition"}
  OBVIOUS
<1>2. \A e \in moves :
          /\ e \in Events(d) /\ e.kind = "deployment_transition"
          /\ e.source \in DOMAIN transitions /\ e.source < n
          /\ transitions[e.source].deployment = d
          /\ e = Move(e.source)
  BY <1>1, MovesShown
<1>3. CASE /\ s = "created"
           /\ \A k \in DOMAIN transitions :
                  k < n => transitions[k].deployment # d
  <2>1. moves = {}
    BY <1>2, <1>3
  <2>2. QED
    BY <1>1, <1>3, <2>1 DEF LeadTo
<1>4. ASSUME NEW m \in DOMAIN transitions, LastBefore(m, d, n),
             transitions[m].to = s
      PROVE  LeadTo(shown) = s
  <2>1. PICK last : last = Move(m)
    OBVIOUS
  <2>2. /\ last \in Events(d) /\ last.kind = "deployment_transition"
        /\ last.source = m /\ last \in moves
    BY <1>1, <1>4, <2>1, MovesShown DEF LastBefore
  <2>3. \A b \in moves \ {last} : SortsBefore(b, last)
    <3>1. SUFFICES ASSUME NEW b \in moves \ {last}
                   PROVE  SortsBefore(b, last)
      OBVIOUS
    <3>2. b.source <= m /\ b.source # m
      BY <1>2, <1>4, <2>1 DEF LastBefore
    <3>3. b.source \in Nat /\ m \in Nat
      BY <1>2, RowDomains
    <3>4. QED
      BY <1>2, <2>2, <3>2, <3>3, MovesOrdered
  <2>4. ASSUME NEW e \in moves, \A b \in moves \ {e} : SortsBefore(b, e)
        PROVE  e = last
    <3>1. e # last => SortsBefore(last, e) /\ SortsBefore(e, last)
      BY <2>2, <2>3, <2>4
    <3>2. QED
      BY <1>2, <2>2, <3>1, TimelineOrdered
  <2>5. (CHOOSE e \in moves : \A b \in moves \ {e} : SortsBefore(b, e)) = last
    BY <2>2, <2>3, <2>4
  <2>6. moves # {}
    BY <2>2
  <2>7. LeadTo(shown) = transitions[last.source].to
    BY <1>1, <2>5, <2>6 DEF LeadTo
  <2>8. QED
    BY <1>4, <2>2, <2>7
<1>5. QED
  BY <1>3, <1>4 DEF LedTo

(* A part of the timeline that leaves out nothing before what it shows has *)
(* no gap.                                                                 *)
LEMMA PrefixWithoutGap ==
    ASSUME TypeOK, RowsTyped, Chronicle, Chained, NEW d \in DeploymentIds,
           NEW shown \in SUBSET Events(d),
           \A e \in shown : \A b \in Events(d) :
               SortsBefore(b, e) => b \in shown
    PROVE  WithoutGap(shown)
<1>1. SUFFICES ASSUME NEW e \in shown, e.kind = "deployment_transition"
               PROVE  transitions[e.source].from =
                          LeadTo({b \in shown : SortsBefore(b, e)})
  BY DEF WithoutGap
<1>2. PICK n : n = e.source
  OBVIOUS
<1>3. PICK before : before = {b \in shown : SortsBefore(b, e)}
  OBVIOUS
<1>4. n \in DOMAIN transitions /\ transitions[n].deployment = d /\ n \in Nat
  BY <1>1, <1>2, MovesShown, RowDomains
<1>5. PICK s : s = transitions[n].from
  OBVIOUS
<1>6. LedTo(s, d, n)
  BY <1>4, <1>5 DEF Chained
<1>7. \A b \in Events(d) : b.kind = "deployment_transition" =>
          (b \in before <=> b.source < n)
  BY <1>1, <1>2, <1>3, MovesOrdered
<1>8. before \in SUBSET Events(d)
  BY <1>3
<1>9. LeadTo(before) = s
  BY <1>4, <1>6, <1>7, <1>8, LeadToLed
<1>10. QED
  BY <1>2, <1>3, <1>5, <1>9

(* The values of a function on a finite set are finitely many. *)
LEMMA ImageFinite ==
    ASSUME NEW S, IsFiniteSet(S), NEW f, f = [x \in S |-> f[x]]
    PROVE  IsFiniteSet({f[x] : x \in S})
<1>1. PICK I : I = {f[x] : x \in S}
  OBVIOUS
<1>2. f \in Surjection(S, I)
  BY <1>1 DEF Surjection
<1>3. IsFiniteSet(I)
  BY <1>2, FS_Surjection
<1>4. QED
  BY <1>1, <1>3

(* The rows of a table that are wanted are finitely many. *)
LEMMA IndicesFinite ==
    ASSUME NEW n \in Nat, NEW S \in SUBSET (1 .. n)
    PROVE  IsFiniteSet(S)
<1>1. IsFiniteSet(1 .. n)
  BY FS_Interval
<1>2. QED
  BY <1>1, FS_Subset

(* A timeline is finite. *)
LEMMA TimelineFinite ==
    ASSUME TypeOK, RowsTyped, NEW d
    PROVE  IsFiniteSet(Events(d))
<1>1. /\ Len(transitions) \in Nat /\ DOMAIN transitions = 1 .. Len(transitions)
      /\ Len(attempts) \in Nat /\ DOMAIN attempts = 1 .. Len(attempts)
      /\ Len(incidentRows) \in Nat
      /\ DOMAIN incidentRows = 1 .. Len(incidentRows)
      /\ Len(operations) \in Nat /\ OperationIds = 1 .. Len(operations)
  BY RowDomains, Rows DEF OperationIds
<1>2. IsFiniteSet(LifecycleEvents(d))
  <2>1. PICK R : R = {n \in DOMAIN transitions : transitions[n].deployment = d}
    OBVIOUS
  <2>2. PICK A : A = {n \in DOMAIN attempts : attempts[n].deployment = d}
    OBVIOUS
  <2>3. PICK F : F = {n \in A : attempts[n].status # "started"}
    OBVIOUS
  <2>4. IsFiniteSet(R) /\ IsFiniteSet(A) /\ IsFiniteSet(F)
    BY <1>1, <2>1, <2>2, <2>3, IndicesFinite
  <2>5. PICK r : r = [n \in R |-> Event(transitions[n].at, 20, n,
                                        "deployment_transition")]
    OBVIOUS
  <2>6. PICK a : a = [n \in A |-> Event(attempts[n].started, 30, n,
                                        "deployment_step_started")]
    OBVIOUS
  <2>7. PICK f : f = [n \in F |-> Event(attempts[n].finished, 40, n,
                                        "deployment_step_finished")]
    OBVIOUS
  <2>8. /\ IsFiniteSet({r[n] : n \in R}) /\ IsFiniteSet({a[n] : n \in A})
        /\ IsFiniteSet({f[n] : n \in F})
    <3>1. IsFiniteSet({r[n] : n \in R})
      BY <2>4, <2>5, ImageFinite
    <3>2. IsFiniteSet({a[n] : n \in A})
      BY <2>4, <2>6, ImageFinite
    <3>3. IsFiniteSet({f[n] : n \in F})
      BY <2>4, <2>7, ImageFinite
    <3>4. QED
      BY <3>1, <3>2, <3>3
  <2>9. PICK c : c = Event(createdAt[d], 10, 0, "deployment_created")
    OBVIOUS
  <2>10. LifecycleEvents(d) = {c} \cup {r[n] : n \in R}
                              \cup {a[n] : n \in A} \cup {f[n] : n \in F}
    <3>1. {r[n] : n \in R} = {Event(transitions[n].at, 20, n,
                                    "deployment_transition") : n \in R}
      BY <2>5
    <3>2. {a[n] : n \in A} = {Event(attempts[n].started, 30, n,
                                    "deployment_step_started") : n \in A}
      BY <2>6
    <3>3. {f[n] : n \in F} = {Event(attempts[n].finished, 40, n,
                                    "deployment_step_finished") : n \in F}
      BY <2>7
    <3>4. QED
      BY <2>1, <2>2, <2>3, <2>9, <3>1, <3>2, <3>3
      DEF LifecycleEvents, Indices
  <2>11. PICK U : U = {c} \cup {r[n] : n \in R}
    OBVIOUS
  <2>12. PICK W : W = U \cup {a[n] : n \in A}
    OBVIOUS
  <2>13. IsFiniteSet(U)
    BY <2>8, <2>11, FS_Singleton, FS_Union
  <2>14. IsFiniteSet(W)
    BY <2>8, <2>12, <2>13, FS_Union
  <2>15. LifecycleEvents(d) = W \cup {f[n] : n \in F}
    BY <2>10, <2>11, <2>12
  <2>16. QED
    BY <2>8, <2>14, <2>15, FS_Union
<1>3. IsFiniteSet(ReferenceEvents(d))
  <2>1. PICK recorded, spent :
            /\ recorded = Event(recordedAt[d], 50, d,
                                "rollback_reference_recorded")
            /\ spent = Event(updatedAt[d], 60, d, references[d])
    OBVIOUS
  <2>2. IsFiniteSet({recorded} \cup {spent})
    BY FS_Singleton, FS_Union
  <2>3. ReferenceEvents(d) \in SUBSET ({recorded} \cup {spent})
    BY <2>1 DEF ReferenceEvents
  <2>4. QED
    BY <2>2, <2>3, FS_Subset
<1>4. IsFiniteSet(OperationEvents(d))
  <2>1. PICK Rollbacks :
            Rollbacks = {o \in OperationIds : operations[o].source = d}
    OBVIOUS
  <2>2. PICK F : F = {o \in Rollbacks : operations[o].state # "started"}
    OBVIOUS
  <2>3. IsFiniteSet(Rollbacks) /\ IsFiniteSet(F)
    BY <1>1, <2>1, <2>2, IndicesFinite
  <2>4. PICK a : a = [o \in Rollbacks |-> Event(startedAt[o], 70, o,
                                        "rollback_operation_started")]
    OBVIOUS
  <2>5. PICK f : f = [o \in F |-> Event(finishedAt[o], 80, o,
                                        operations[o].state)]
    OBVIOUS
  <2>6. IsFiniteSet({a[o] : o \in Rollbacks})
    BY <2>3, <2>4, ImageFinite
  <2>7. IsFiniteSet({f[o] : o \in F})
    BY <2>3, <2>5, ImageFinite
  <2>8. {a[o] : o \in Rollbacks} = 
            {Event(startedAt[o], 70, o, "rollback_operation_started") :
                o \in Rollbacks}
    BY <2>4
  <2>9. {f[o] : o \in F} = {Event(finishedAt[o], 80, o,
                                  operations[o].state) : o \in F}
    BY <2>5
  <2>10. OperationEvents(d) = {a[o] : o \in Rollbacks} \cup {f[o] : o \in F}
    BY <2>1, <2>2, <2>8, <2>9 DEF OperationEvents
  <2>11. QED
    BY <2>6, <2>7, <2>10, FS_Union
<1>5. IsFiniteSet(RecoveryEvents(d))
  <2>1. PICK I : I = {n \in DOMAIN incidentRows :
                          ConcernsDeployment(incidentRows[n], d)}
    OBVIOUS
  <2>2. PICK K : K = {n \in I : incidentRows[n].acknowledged # Null}
    OBVIOUS
  <2>3. IsFiniteSet(I) /\ IsFiniteSet(K)
    BY <1>1, <2>1, <2>2, IndicesFinite
  <2>4. PICK a : a = [n \in I |-> Event(incidentRows[n].at, 90, n,
                                        "recovery_incident_recorded")]
    OBVIOUS
  <2>5. PICK f : f = [n \in K |-> Event(incidentRows[n].acknowledged, 100, n,
                                        "recovery_acknowledged")]
    OBVIOUS
  <2>6. IsFiniteSet({a[n] : n \in I})
    BY <2>3, <2>4, ImageFinite
  <2>7. IsFiniteSet({f[n] : n \in K})
    BY <2>3, <2>5, ImageFinite
  <2>8. {a[n] : n \in I} = {Event(incidentRows[n].at, 90, n,
                                  "recovery_incident_recorded") : n \in I}
    BY <2>4
  <2>9. {f[n] : n \in K} = {Event(incidentRows[n].acknowledged, 100, n,
                                  "recovery_acknowledged") : n \in K}
    BY <2>5
  <2>10. RecoveryEvents(d) = {a[n] : n \in I} \cup {f[n] : n \in K}
    BY <2>1, <2>2, <2>8, <2>9 DEF RecoveryEvents, Indices
  <2>11. QED
    BY <2>6, <2>7, <2>10, FS_Union
<1>6. QED
  <2>1. IsFiniteSet(LifecycleEvents(d) \cup ReferenceEvents(d))
    BY <1>2, <1>3, FS_Union
  <2>2. IsFiniteSet(LifecycleEvents(d) \cup ReferenceEvents(d)
                    \cup OperationEvents(d))
    BY <1>4, <2>1, FS_Union
  <2>3. QED
    BY <1>5, <2>2, FS_Union DEF Events

(* However few events are asked for, those shown leave out nothing before  *)
(* them; asked for as many as there are, all are shown.                    *)
LEMMA ShownFirst ==
    ASSUME TypeOK, RowsTyped, Chronicle, NEW d \in DeploymentIds,
           NEW limit \in Nat
    PROVE  LET shown == EventsForDeployment(d, limit) IN
           /\ shown \in SUBSET Events(d)
           /\ \A e \in shown : \A b \in Events(d) :
                  SortsBefore(b, e) => b \in shown
           /\ limit = Cardinality(Events(d)) => shown = Events(d)
<1>1. PICK timeline : timeline = Events(d)
  OBVIOUS
<1>2. IsFiniteSet(timeline)
  BY <1>1, TimelineFinite
<1>3. PICK shown : shown = EventsForDeployment(d, limit)
  OBVIOUS
<1>4. shown = {e \in timeline :
                  Cardinality({b \in timeline : SortsBefore(b, e)}) < limit}
  BY <1>1, <1>3 DEF EventsForDeployment
<1>5. ASSUME NEW e \in shown, NEW b \in timeline, SortsBefore(b, e)
      PROVE  b \in shown
  <2>1. PICK beforeE : beforeE = {c \in timeline : SortsBefore(c, e)}
    OBVIOUS
  <2>2. PICK beforeB : beforeB = {c \in timeline : SortsBefore(c, b)}
    OBVIOUS
  <2>3. e \in timeline /\ Cardinality(beforeE) < limit
    BY <1>4, <2>1
  <2>4. beforeB \in SUBSET beforeE
    BY <1>1, <1>5, <2>1, <2>2, <2>3, TimelineOrdered
  <2>5. IsFiniteSet(beforeE)
    BY <1>2, <2>1, FS_Subset
  <2>6. /\ Cardinality(beforeB) <= Cardinality(beforeE)
        /\ IsFiniteSet(beforeB)
    BY <2>4, <2>5, FS_Subset
  <2>7. Cardinality(beforeB) \in Nat /\ Cardinality(beforeE) \in Nat
    BY <2>5, <2>6, FS_CardinalityType
  <2>8. Cardinality(beforeB) < limit
    BY <2>3, <2>6, <2>7
  <2>9. QED
    BY <1>4, <2>2, <2>8
<1>6. ASSUME limit = Cardinality(timeline), NEW e \in timeline
      PROVE  e \in shown
  <2>1. PICK before : before = {b \in timeline : SortsBefore(b, e)}
    OBVIOUS
  <2>2. e \notin before /\ before \in SUBSET timeline
    BY <1>1, <2>1, TimelineOrdered
  <2>3. /\ Cardinality(before) <= Cardinality(timeline)
        /\ Cardinality(timeline) = Cardinality(before) => timeline = before
        /\ IsFiniteSet(before)
    BY <1>2, <2>2, FS_Subset
  <2>4. Cardinality(before) \in Nat /\ Cardinality(timeline) \in Nat
    BY <1>2, <2>3, FS_CardinalityType
  <2>5. Cardinality(before) # Cardinality(timeline)
    BY <1>6, <2>2, <2>3
  <2>6. Cardinality(before) < limit
    BY <1>6, <2>3, <2>4, <2>5
  <2>7. QED
    BY <1>4, <2>1, <2>6
<1>7. limit = Cardinality(timeline) => shown = timeline
  BY <1>4, <1>6
<1>8. shown \in SUBSET timeline
  BY <1>4
<1>9. QED
  BY <1>1, <1>3, <1>5, <1>7, <1>8

(* Whatever limit a caller gives to history, the transitions it is shown   *)
(* have no gap: each starts where those shown before it lead to.           *)
ShownWithoutGap ==
    \A d \in DeploymentIds : \A limit \in Nat :
        WithoutGap(EventsForDeployment(d, limit))

(* No prefix of a timeline has a gap in its transitions. *)
THEOREM ShownWithoutGapCorrect == AuditSpec => []ShownWithoutGap
<1>1. TypeOK /\ RowsTyped /\ Chronicle /\ Chained => ShownWithoutGap
  <2>1. SUFFICES ASSUME TypeOK, RowsTyped, Chronicle, Chained,
                        NEW d \in DeploymentIds, NEW limit \in Nat
                 PROVE  WithoutGap(EventsForDeployment(d, limit))
    BY DEF ShownWithoutGap
  <2>2. PICK shown : shown = EventsForDeployment(d, limit)
    OBVIOUS
  <2>3. /\ shown \in SUBSET Events(d)
        /\ \A e \in shown : \A b \in Events(d) :
               SortsBefore(b, e) => b \in shown
    BY <2>1, <2>2, ShownFirst
  <2>4. WithoutGap(shown)
    BY <2>1, <2>3, PrefixWithoutGap
  <2>5. QED
    BY <2>2, <2>4
<1>2. QED
  BY <1>1, AuditImplementsStore, TypeCorrect, ChronicleCorrect,
     ChainedCorrect, PTL

(* The transitions of a timeline, in the order shown, lead without a gap   *)
(* from created to the present state, recovery's own transition included.  *)
THEOREM TransitionsLeadToStateCorrect == AuditSpec => []TransitionsLeadToState
<1>1. TypeOK /\ RowsTyped /\ Chronicle /\ Chained => TransitionsLeadToState
  <2>1. SUFFICES ASSUME TypeOK, RowsTyped, Chronicle, Chained,
                        NEW d \in DeploymentIds
                 PROVE  LET shown == EventsForDeployment(d,
                                         Cardinality(Events(d)))
                        IN  /\ WithoutGap(shown)
                            /\ deployments[d].state = LeadTo(shown)
    BY DEF TransitionsLeadToState
  <2>2. PICK limit : limit = Cardinality(Events(d))
    OBVIOUS
  <2>3. limit \in Nat
    BY <2>1, <2>2, TimelineFinite, FS_CardinalityType
  <2>4. EventsForDeployment(d, limit) = Events(d)
    BY <2>1, <2>2, <2>3, ShownFirst
  <2>5. PICK shown : shown = Events(d)
    OBVIOUS
  <2>6. WithoutGap(shown)
    BY <2>1, <2>5, PrefixWithoutGap
  <2>7. LeadTo(shown) = deployments[d].state
    <3>1. PICK n, s : n = Len(transitions) + 1 /\ s = deployments[d].state
      OBVIOUS
    <3>2. n \in Nat /\ DOMAIN transitions = 1 .. n - 1
      BY <2>1, <3>1, RowDomains
    <3>3. LedTo(s, d, n)
      BY <2>1, <3>1 DEF Chained
    <3>4. \A e \in Events(d) : e.kind = "deployment_transition" =>
              (e \in shown <=> e.source < n)
      BY <2>1, <2>5, <3>2, MovesShown
    <3>5. LeadTo(shown) = s
      BY <2>1, <2>5, <3>2, <3>3, <3>4, LeadToLed
    <3>6. QED
      BY <3>1, <3>5
  <2>8. QED
    BY <2>2, <2>4, <2>5, <2>6, <2>7
<1>2. QED
  BY <1>1, AuditImplementsStore, TypeCorrect, ChronicleCorrect,
     ChainedCorrect, PTL
=============================================================================
