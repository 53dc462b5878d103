---------------------------- MODULE AuditHistory ----------------------------
(***************************************************************************)
(* The store with the rows and timestamps that history is made of, the     *)
(* projection of those rows into one timeline of a deployment, and the     *)
(* queries of DeploymentApplication that read while others write.          *)
(*                                                                         *)
(* The clock is the wall clock of now_unix_ms, in milliseconds that many   *)
(* transactions may share.  It never runs backwards, and a transaction     *)
(* carries the time it commits at.                                         *)
(***************************************************************************)
EXTENDS MutationStore, FiniteSetsExt

CONSTANTS
    RetentionTime, \* runtime.rollback_reference_retention_days, in ticks
    MaxTime,      \* bound: ticks of the clock
    MaxAttempts,  \* bound: rows of deployment_step_attempts
    MaxReads      \* bound: queries made

(* Configuration requires a positive number of days.                       *)
RetentionAssumption == RetentionTime \in Nat
ASSUME RetentionAssumption

VARIABLES
    clock,
    createdAt,    \* deployments.created_at_unix_ms
    transitions,  \* deployment_transitions
    attempts,     \* deployment_step_attempts
    recordedAt,   \* rollback_references.created_at_unix_ms, by deployment
    updatedAt,    \* rollback_references.updated_at_unix_ms, by deployment
    startedAt,    \* rollback_operations.created_at_unix_ms
    finishedAt,   \* rollback_operations.finished_at_unix_ms
    incidentRows, \* recovery_incidents and their acknowledgements
    view,         \* the query in progress: what it has read
    reads         \* how many queries were made

rowVars == <<createdAt, transitions, attempts, recordedAt, updatedAt,
             startedAt, finishedAt, incidentRows>>
auditVars == <<storeVars, clock, rowVars, view, reads>>

Null == 0   \* a NULL timestamp; the clock starts after it

AuditInit ==
    /\ Init
    /\ clock = 1
    /\ createdAt = <<>> /\ transitions = <<>> /\ attempts = <<>>
    /\ recordedAt = <<>> /\ updatedAt = <<>>
    /\ startedAt = <<>> /\ finishedAt = <<>>
    /\ incidentRows = <<>>
    /\ view = [rows |-> <<>>]
    /\ reads = 0
-----------------------------------------------------------------------------
(* The transactions of MutationStore, with the rows they add or stamp.     *)

(* Bound: what happens after the last answer is left out.                  *)
Answered ==
    /\ reads = MaxReads /\ reads > 0
    /\ \A d \in DOMAIN view.rows : view.rows[d].detailed

Tick ==
    /\ ~Answered
    /\ clock < MaxTime
    /\ clock' = clock + 1
    /\ UNCHANGED <<storeVars, rowVars, view, reads>>

ReserveAt(req) ==
    /\ Reserve(req)
    /\ createdAt' = Append(createdAt, clock)
    /\ recordedAt' = Append(recordedAt, Null)
    /\ updatedAt' = Append(updatedAt, Null)
    /\ UNCHANGED <<transitions, attempts, startedAt, finishedAt, incidentRows>>

TransitionTo(d, from, to) ==
    Append(transitions, [deployment |-> d, from |-> from, to |-> to,
                         at |-> clock])

TransitionAt(d, from, to) ==
    /\ Transition(d, from, to)
    /\ transitions' = TransitionTo(d, from, to)
    /\ UNCHANGED <<createdAt, attempts, recordedAt, updatedAt, startedAt,
                   finishedAt, incidentRows>>

StartStepAt(d) ==
    /\ StartStep(d)
    /\ Len(attempts) < MaxAttempts
    /\ attempts' = Append(attempts, [deployment |-> d, started |-> clock,
                                     finished |-> Null, status |-> "started"])
    /\ UNCHANGED <<createdAt, transitions, recordedAt, updatedAt, startedAt,
                   finishedAt, incidentRows>>

(* UPDATE ... WHERE status = 'started', of the attempts of d. *)
CloseAttempts(d, status) ==
    [a \in DOMAIN attempts |->
        IF attempts[a].deployment = d /\ attempts[a].status = "started"
        THEN [attempts[a] EXCEPT !.status = status, !.finished = clock]
        ELSE attempts[a]]

FinishStepAt(d, status) ==
    /\ FinishStep(d)
    /\ attempts' = CloseAttempts(d, status)
    /\ UNCHANGED <<createdAt, transitions, recordedAt, updatedAt, startedAt,
                   finishedAt, incidentRows>>

(* Stamps updated_at where a reference left the active state. *)
RecordReferenceAt(d) ==
    /\ RecordReference(d)
    /\ recordedAt' = [r \in DOMAIN recordedAt |->
           IF references[r] = "none" /\ references'[r] = "active"
           THEN clock ELSE recordedAt[r]]
    /\ updatedAt' = [r \in DOMAIN updatedAt |->
           IF references'[r] # references[r] THEN clock ELSE updatedAt[r]]
    /\ UNCHANGED <<createdAt, transitions, attempts, startedAt, finishedAt,
                   incidentRows>>

BeginOperationAt(d) ==
    /\ BeginOperation(d)
    /\ startedAt' = Append(startedAt, clock)
    /\ finishedAt' = Append(finishedAt, Null)
    /\ UNCHANGED <<createdAt, transitions, attempts, recordedAt, updatedAt,
                   incidentRows>>

FinishOperationAt(o, outcome) ==
    /\ FinishOperation(o, outcome)
    /\ finishedAt' = [finishedAt EXCEPT ![o] = clock]
    /\ updatedAt' = IF outcome = "succeeded"
                    THEN [updatedAt EXCEPT ![operations[o].source] = clock]
                    ELSE updatedAt
    /\ UNCHANGED <<createdAt, transitions, attempts, recordedAt, startedAt,
                   incidentRows>>

(* Variant: the age of a reference is counted from its recording. *)
ExpiredByRecording ==
    {d \in Prunable : recordedAt[d] + RetentionTime <= clock}

(* cleanup_at: references that have been inactive since the cutoff. *)
Expired == {d \in Prunable : updatedAt[d] + RetentionTime <= clock}

(* ORDER BY updated_at_unix_ms ASC LIMIT: ties fall by random id. *)
OldestExpired(batch) ==
    /\ batch \subseteq Expired
    /\ Cardinality(batch) = Min({CleanupBatch, Cardinality(Expired)})
    /\ \A d \in batch, n \in Expired \ batch : updatedAt[d] <= updatedAt[n]

(* prune_inactive_reference_snapshots blanks the snapshot and leaves the   *)
(* timestamps that history reads.                                          *)
PruneAt(batch) ==
    /\ OldestExpired(batch)
    /\ Prune(batch)
    /\ UNCHANGED rowVars

NewIncident(kind, subject) ==
    Append(incidentRows, [kind |-> kind, subject |-> subject, at |-> clock,
                          acknowledged |-> Null])

(* Variant: the row that says how the deployment came to fail is missing.  *)
RecoverDeploymentUnlogged(d, from) ==
    /\ RecoverDeployment(d, from)
    /\ attempts' = CloseAttempts(d, "failed")
    /\ incidentRows' = NewIncident("deployment", d)
    /\ UNCHANGED <<createdAt, transitions, recordedAt, updatedAt, startedAt,
                   finishedAt>>

RecoverDeploymentAt(d, from) ==
    /\ RecoverDeployment(d, from)
    /\ attempts' = CloseAttempts(d, "failed")
    /\ transitions' = TransitionTo(d, from, "failed")
    /\ incidentRows' = NewIncident("deployment", d)
    /\ UNCHANGED <<createdAt, recordedAt, updatedAt, startedAt, finishedAt>>

RecoverOperationAt(o) ==
    /\ RecoverOperation(o)
    /\ finishedAt' = [finishedAt EXCEPT ![o] = clock]
    /\ incidentRows' = NewIncident("rollback_operation", o)
    /\ UNCHANGED <<createdAt, transitions, attempts, recordedAt, updatedAt,
                   startedAt>>

(* Variant: the acknowledgement overwrites the time of the incident. *)
AcknowledgeRestamping(i) ==
    /\ Acknowledge(i)
    /\ incidentRows' = [n \in DOMAIN incidentRows |->
           IF incidentRows[n].kind = i.kind /\ incidentRows[n].subject = i.subject
           THEN [incidentRows[n] EXCEPT !.at = clock, !.acknowledged = clock]
           ELSE incidentRows[n]]
    /\ UNCHANGED <<createdAt, transitions, attempts, recordedAt, updatedAt,
                   startedAt, finishedAt>>

AcknowledgeAt(i) ==
    /\ Acknowledge(i)
    /\ incidentRows' = [n \in DOMAIN incidentRows |->
           IF incidentRows[n].kind = i.kind /\ incidentRows[n].subject = i.subject
           THEN [incidentRows[n] EXCEPT !.acknowledged = clock]
           ELSE incidentRows[n]]
    /\ UNCHANGED <<createdAt, transitions, attempts, recordedAt, updatedAt,
                   startedAt, finishedAt>>

Write ==
    /\ ~Answered
    /\ \/ \E req \in Request : ReserveAt(req)
       \/ \E d \in DeploymentIds, from, to \in DeploymentState :
              TransitionAt(d, from, to)
       \/ \E d \in DeploymentIds :
              \/ StartStepAt(d)
              \/ \E status \in {"succeeded", "failed"} : FinishStepAt(d, status)
              \/ RecordReferenceAt(d) \/ BeginOperationAt(d)
       \/ \E o \in OperationIds, outcome \in {"succeeded", "failed"} :
              FinishOperationAt(o, outcome)
       \/ \E batch \in SUBSET Prunable \ {{}} : PruneAt(batch)
       \/ \E d \in DeploymentIds, from \in DeploymentState :
              RecoverDeploymentAt(d, from)
       \/ \E o \in OperationIds : RecoverOperationAt(o)
       \/ \E i \in incidents : AcknowledgeAt(i)
    /\ UNCHANGED <<clock, view, reads>>
-----------------------------------------------------------------------------
(* HISTORY_QUERY: the branches of its UNION ALL.                           *)

Event(at, rank, source, kind) ==
    [at |-> at, rank |-> rank, source |-> source, kind |-> kind]

Indices(rows, Wanted(_)) == {n \in DOMAIN rows : Wanted(rows[n])}

LifecycleEvents(d) ==
    LET ofD(r) == r.deployment = d IN
    {Event(createdAt[d], 10, 0, "deployment_created")}
    \cup {Event(transitions[n].at, 20, n, "deployment_transition") :
              n \in Indices(transitions, ofD)}
    \cup {Event(attempts[n].started, 30, n, "deployment_step_started") :
              n \in Indices(attempts, ofD)}
    \cup {Event(attempts[n].finished, 40, n, "deployment_step_finished") :
              n \in {n \in Indices(attempts, ofD) :
                        attempts[n].status # "started"}}

ReferenceEvents(d) ==
    {Event(recordedAt[d], 50, d, "rollback_reference_recorded") :
        r \in {references[d]} \ {"none"}}
    \cup {Event(updatedAt[d], 60, d, r) :
              r \in {references[d]} \cap {"superseded", "consumed"}}

(* Variant: the end of an operation ranks before its start. *)
OperationEventsMisranked(d) ==
    LET ofD == {o \in OperationIds : operations[o].source = d} IN
    {Event(startedAt[o], 70, o, "rollback_operation_started") : o \in ofD}
    \cup {Event(finishedAt[o], 65, o, operations[o].state) :
              o \in {o \in ofD : operations[o].state # "started"}}

OperationEvents(d) ==
    LET ofD == {o \in OperationIds : operations[o].source = d} IN
    {Event(startedAt[o], 70, o, "rollback_operation_started") : o \in ofD}
    \cup {Event(finishedAt[o], 80, o, operations[o].state) :
              o \in {o \in ofD : operations[o].state # "started"}}

(* Incidents of the deployment and of the rollbacks of it. *)
ConcernsDeployment(i, d) ==
    \/ i.kind = "deployment" /\ i.subject = d
    \/ i.kind = "rollback_operation" /\ operations[i.subject].source = d

RecoveryEvents(d) ==
    LET ofD(i) == ConcernsDeployment(i, d) IN
    {Event(incidentRows[n].at, 90, n, "recovery_incident_recorded") :
        n \in Indices(incidentRows, ofD)}
    \cup {Event(incidentRows[n].acknowledged, 100, n, "recovery_acknowledged") :
              n \in {n \in Indices(incidentRows, ofD) :
                        incidentRows[n].acknowledged # Null}}

Events(d) ==
    LifecycleEvents(d) \cup ReferenceEvents(d) \cup OperationEvents(d)
    \cup RecoveryEvents(d)

(* ORDER BY occurred_at_unix_ms, sort_rank, source_id. *)
SortsBefore(a, b) ==
    \/ a.at < b.at
    \/ a.at = b.at /\ a.rank < b.rank
    \/ a.at = b.at /\ a.rank = b.rank /\ a.source < b.source

(* events_for_deployment: the first events of the timeline, which the      *)
(* reader sees in the order of SortsBefore.                                *)
EventsForDeployment(d, limit) ==
    LET timeline == Events(d)
    IN  {e \in timeline :
            Cardinality({b \in timeline : SortsBefore(b, e)}) < limit}
-----------------------------------------------------------------------------
(* get_deployment and list_deployments: the rows are read under the lock   *)
(* of the repository, the details of each under the lock taken again.      *)

(* The rows of d, by row number, which is the order they are returned in.  *)
RowsOf(rows, d) ==
    Restrict(rows, {n \in DOMAIN rows : rows[n].deployment = d})

TransitionsOf(d) == RowsOf(transitions, d)
AttemptsOf(d) == RowsOf(attempts, d)

(* ORDER BY created_at_unix_ms DESC LIMIT limit; ties fall by random id.   *)
Listed(ids, limit) ==
    {S \in SUBSET ids :
        /\ Cardinality(S) = IF limit < Cardinality(ids) THEN limit
                            ELSE Cardinality(ids)
        /\ \A d \in S, n \in ids \ S : createdAt[d] >= createdAt[n]}

ReadRows(env, limit) ==
    /\ reads < MaxReads
    /\ reads' = reads + 1
    /\ \E S \in Listed({d \in DeploymentIds : deployments[d].env = env}, limit) :
           view' = [rows |-> [d \in S |-> [state |-> deployments[d].state,
                                           detailed |-> FALSE]]]
    /\ UNCHANGED <<storeVars, clock, rowVars>>

(* Variant: the details are fetched before the row. *)
ReadDetailsFirst(d) ==
    /\ ~view.rows[d].detailed
    /\ view' = [view EXCEPT !.rows[d] =
           [state |-> deployments[d].state, detailed |-> TRUE,
            transitions |-> Restrict(transitions,
                {n \in DOMAIN TransitionsOf(d) :
                    \E m \in DOMAIN TransitionsOf(d) : n < m}),
            attempts |-> AttemptsOf(d)]]
    /\ UNCHANGED <<storeVars, clock, rowVars, reads>>

(* details *)
ReadDetails(d) ==
    /\ ~view.rows[d].detailed
    /\ view' = [view EXCEPT !.rows[d] =
           [state |-> @.state, detailed |-> TRUE,
            transitions |-> TransitionsOf(d), attempts |-> AttemptsOf(d)]]
    /\ UNCHANGED <<storeVars, clock, rowVars, reads>>

Read ==
    \/ \E env \in Environments, limit \in 1 .. MaxDeployments :
           ReadRows(env, limit)
    \/ \E d \in DOMAIN view.rows : ReadDetails(d)

AuditNext == Tick \/ Write \/ Read

AuditSpec == AuditInit /\ [][AuditNext]_auditVars
-----------------------------------------------------------------------------
(* Events of one timeline that the transactions of the store order, a      *)
(* before b.  An attempt and a transition are no such pair: the store lets *)
(* an attempt start and end in any state.  It is deploy.rs that ends the   *)
(* one before the other, and ranks 40 and 20 may show them reversed.       *)

SpentKinds == {"superseded", "consumed"}
EndKinds == {"succeeded", "failed"}

(* Pairs that the ranks of HISTORY_QUERY put in the order of their causes. *)
PrecedesByRank(a, b) ==
    LET sameRow == a.source = b.source
        incident == incidentRows[b.source]
    IN  \/ a.kind = "deployment_created" /\ b.kind # "deployment_created"
        \/ /\ a.kind \in {"deployment_transition",
                          "rollback_operation_started"}
           /\ b.kind = a.kind /\ a.source < b.source
        \/ /\ a.kind = "deployment_step_started" /\ sameRow
           /\ b.kind = "deployment_step_finished"
        \/ /\ a.kind = "deployment_transition"
           /\ transitions[a.source].to \in RollbackEligible
           /\ b.kind = "rollback_reference_recorded"
        \/ /\ a.kind = "rollback_reference_recorded"
           /\ b.kind \in SpentKinds \cup {"rollback_operation_started"}
        \/ /\ a.kind = "rollback_operation_started" /\ sameRow
           /\ b.kind \in EndKinds
        \/ /\ b.kind = "recovery_incident_recorded"
           /\ \/ /\ incident.kind = "deployment"
                 /\ a.kind = "deployment_transition"
              \/ /\ incident.kind = "rollback_operation"
                 /\ a.kind \in EndKinds
                 /\ a.source = incident.subject
        \/ /\ a.kind = "recovery_incident_recorded" /\ sameRow
           /\ b.kind = "recovery_acknowledged"

(* Pairs that they put the other way round.  What concerns one rollback of *)
(* the deployment, its recovery and acknowledgement included, precedes the *)
(* next rollback of it and the end of its reference.                       *)
PrecedesAgainstRank(a, b) ==
    LET ofRecovery == a.kind \in {"recovery_incident_recorded",
                                 "recovery_acknowledged"}
        incident == incidentRows[a.source]
    IN  \/ /\ b.kind \in SpentKinds
           /\ \/ a.kind \in EndKinds \cup {"rollback_operation_started"}
              \/ ofRecovery
        \/ /\ b.kind = "rollback_operation_started"
           /\ \/ a.kind \in EndKinds /\ a.source < b.source
              \/ /\ ofRecovery /\ incident.kind = "rollback_operation"
                 /\ incident.subject < b.source

(* However many events share a millisecond, no two of them tie, and the    *)
(* timeline departs from the order of the store's transactions only where  *)
(* two events share a millisecond and their ranks are the wrong way round: *)
(* the tie-break is no causal truth (STRUCTURED_AUDIT_HISTORY.md:195).     *)
TimelineFollowsCauses ==
    \A d \in DeploymentIds : \A a, b \in Events(d) :
        /\ a # b => SortsBefore(a, b) \/ SortsBefore(b, a)
        /\ PrecedesByRank(a, b) => SortsBefore(a, b)
        /\ PrecedesAgainstRank(a, b) => SortsBefore(a, b) \/ a.at = b.at

(* The state that the transitions among shown events lead to. *)
LeadTo(shown) ==
    LET moves == {e \in shown : e.kind = "deployment_transition"}
        last  == CHOOSE e \in moves :
                     \A b \in moves \ {e} : SortsBefore(b, e)
    IN  IF moves = {} THEN "created" ELSE transitions[last.source].to

(* Each transition shown starts where those shown before it lead to. *)
WithoutGap(shown) ==
    \A e \in shown :
        e.kind = "deployment_transition" =>
            transitions[e.source].from =
                LeadTo({b \in shown : SortsBefore(b, e)})

(* The transitions of a timeline, in the order shown, lead without a gap   *)
(* from created to the present state, recovery's own transition included.  *)
TransitionsLeadToState ==
    \A d \in DeploymentIds :
        LET shown == EventsForDeployment(d, Cardinality(Events(d)))
        IN  WithoutGap(shown) /\ deployments[d].state = LeadTo(shown)

(* A deployment that a query returns has reached its state by the          *)
(* transitions returned with it, although both are read apart.             *)
DetailsReachState ==
    \A d \in DOMAIN view.rows :
        LET r == view.rows[d] IN
        r.detailed =>
            r.state = "created"
            \/ \E n \in DOMAIN r.transitions : r.transitions[n].to = r.state

(* A snapshot is hidden only after its reference has been inactive for the *)
(* whole retention time, and nothing touches the reference afterwards.     *)
PrunedWhenOld ==
    \A d \in pruned : updatedAt[d] # Null /\ updatedAt[d] + RetentionTime <= clock

(* An event that was shown once is shown ever after, unchanged, whatever   *)
(* is recovered, superseded, acknowledged or pruned.                       *)
HistoryAppends ==
    [][\A d \in DeploymentIds : Events(d) \subseteq Events(d)']_auditVars
=============================================================================
