----------------------------- MODULE DurableRows -----------------------------
(***************************************************************************)
(* How deployments and rollback references are written to rows and read    *)
(* back.  Migration 006 adds two tables of generic metadata beside the     *)
(* columns of the first release, and nothing rewrites old rows: a database *)
(* holds rows of both releases, and pruned ones, and each has to be read   *)
(* as what its writer meant.                                               *)
(***************************************************************************)
EXTENDS JarSystemdMechanism, Sequences

CONSTANTS
    Artifacts,     \* local-file releases: version, size and checksum
    Images,        \* container-image releases
    Absent,        \* a row that is not there, or a failure to read one
    MaxRows        \* bound: deployments

(* What a pruned snapshot holds in place of every text. *)
Blank == "blank"

BlankSnapshot == [f \in {"backup_path", "install_path", "rollback_task",
                         "restart_task", "health_check_task"} |-> Blank]

(* The columns of rollback_references that hold the capability snapshot.   *)
ReferenceRow ==
    [target: {c.target : c \in Contracts} \cup {Blank},
     snapshot: {Snapshot(c) : c \in Contracts} \cup {BlankSnapshot},
     state: {"active", "superseded", "consumed"}]

(* Config::validate accepts no empty target and no empty path. *)
ASSUME ReleasesAssumption ==
    /\ Artifacts \cap Images = {} /\ Absent \notin Artifacts \cup Images
    /\ Absent \notin ReferenceRow
    /\ MaxRows \in Nat
    /\ \A c \in Contracts : c.target # Blank /\ c.backup_path # Blank

VARIABLES
    release,      \* which release of the program opens the database
    columns,      \* deployments: the artifact columns
    metadata,     \* deployment_model_metadata, by deployment
    refColumns,   \* rollback_references, by deployment
    refModel,     \* rollback_reference_model, by deployment
    retention,    \* rollback_reference_retention
    meant,        \* ghost: the release each writer meant
    meantRef      \* ghost: the contract each reference was recorded under

rowVars == <<release, columns, metadata, refColumns, refModel, retention,
             meant, meantRef>>

Rows == 1 .. Len(columns)
Kind == "jar_systemd"

RefColumns(reference, state) ==
    [target |-> reference.target, snapshot |-> reference.snapshot,
     state |-> state]

Init ==
    /\ release = "v0.1"
    /\ columns = <<>> /\ metadata = <<>>
    /\ refColumns = <<>> /\ refModel = <<>>
    /\ retention = {}
    /\ meant = <<>> /\ meantRef = <<>>
-----------------------------------------------------------------------------
(* The new binary opens the database: every migration creates what is not  *)
(* there and rewrites nothing.                                             *)
Upgrade ==
    /\ release = "v0.1"
    /\ release' = "v0.2"
    /\ UNCHANGED <<columns, metadata, refColumns, refModel, retention, meant,
                   meantRef>>

NewDeployment(r, meta) ==
    /\ Len(columns) < MaxRows
    /\ columns' = Append(columns, r)
    /\ metadata' = Append(metadata, meta)
    /\ refColumns' = Append(refColumns, Absent)
    /\ refModel' = Append(refModel, Absent)
    /\ meant' = Append(meant, [kind |-> Kind, release |-> r])
    /\ meantRef' = Append(meantRef, Absent)
    /\ UNCHANGED <<release, retention>>

(* The first release knows the columns only. *)
InsertByFirstRelease(r) ==
    /\ release = "v0.1"
    /\ r \in Artifacts
    /\ NewDeployment(r, Absent)

(* create and reserve: local_artifact refuses a container release before   *)
(* anything is written, as the columns cannot hold one.                    *)
Insert(r) ==
    /\ release = "v0.2"
    /\ r \in Artifacts
    /\ NewDeployment(r, [kind |-> Kind, release |-> r])

(* The environment's active reference is superseded by the new one.        *)
NewReference(d, c, model) ==
    /\ refColumns[d] = Absent
    /\ c.tasks.rollback # NotConfigured
    /\ refColumns' = [n \in Rows |->
           CASE n = d -> RefColumns(ReferenceFor(c), "active")
             [] n # d /\ refColumns[n] # Absent /\ refColumns[n].state = "active"
                  -> [refColumns[n] EXCEPT !.state = "superseded"]
             [] OTHER -> refColumns[n]]
    /\ refModel' = [refModel EXCEPT ![d] = model]
    /\ meantRef' = [meantRef EXCEPT ![d] = c]
    /\ UNCHANGED <<release, columns, metadata, retention, meant>>

RecordByFirstRelease(d, c) ==
    /\ release = "v0.1"
    /\ NewReference(d, c, Absent)

(* record_reference. *)
Record(d, c) ==
    /\ release = "v0.2"
    /\ LET reference == ReferenceFor(c) IN
       NewReference(d, c,
           [kind |-> Kind, fingerprint |-> reference.contract_fingerprint,
            snapshot |-> reference.snapshot])

(* finish_operation: of either release. *)
Consume(d) ==
    /\ refColumns[d] # Absent
    /\ refColumns[d].state = "active"
    /\ refColumns' = [refColumns EXCEPT ![d].state = "consumed"]
    /\ UNCHANGED <<release, columns, metadata, refModel, retention, meant,
                   meantRef>>

(* prune_inactive_reference_snapshots, of one reference: the snapshot is   *)
(* blanked and the metadata deleted, which leaves a row in the shape of    *)
(* the first release.                                                      *)
Prune(d) ==
    /\ release = "v0.2"
    /\ refColumns[d] # Absent
    /\ refColumns[d].state \in {"superseded", "consumed"}
    /\ d \notin retention
    /\ retention' = retention \cup {d}
    /\ refColumns' = [refColumns EXCEPT ![d].target = Blank,
                                        ![d].snapshot = BlankSnapshot]
    /\ refModel' = [refModel EXCEPT ![d] = Absent]
    /\ UNCHANGED <<release, columns, metadata, meant, meantRef>>

Next ==
    \/ Upgrade
    \/ \E r \in Artifacts \cup Images : InsertByFirstRelease(r) \/ Insert(r)
    \/ \E d \in Rows, c \in Contracts : RecordByFirstRelease(d, c) \/ Record(d, c)
    \/ \E d \in Rows : Consume(d) \/ Prune(d)

Spec == Init /\ [][Next]_rowVars
-----------------------------------------------------------------------------
(* Variant: a row without metadata is taken for a corrupt one. *)
DecodeMetadataOnly(d) == metadata[d]

(* decode_deployment: without metadata, the columns of the first release   *)
(* mean a JAR/systemd deployment of a local file; with it, a local file    *)
(* has to agree with the columns.                                          *)
DecodeDeployment(d) ==
    CASE metadata[d] = Absent -> [kind |-> Kind, release |-> columns[d]]
      [] metadata[d] # Absent /\ metadata[d].release \in Artifacts
         /\ metadata[d].release # columns[d] -> Absent
      [] OTHER -> metadata[d]

(* decode_reference, and RollbackReference::rehydrate for a row without    *)
(* metadata: that one computes the fingerprint and checks nothing.         *)
DecodeReference(d) ==
    LET row == refColumns[d] IN
    IF refModel[d] = Absent
    THEN [target |-> row.target, snapshot |-> row.snapshot,
          contract_fingerprint |-> Fingerprint(row.target, row.snapshot)]
    ELSE [target |-> row.target, snapshot |-> refModel[d].snapshot,
          contract_fingerprint |-> refModel[d].fingerprint]

(* get_reference: none for a pruned reference. *)
GetReference(d) ==
    IF refColumns[d] = Absent \/ d \in retention THEN Absent
    ELSE DecodeReference(d)

(* Variant: the state is left to the update that consumes the reference.   *)
ReferenceInAnyState(d) ==
    IF refColumns[d] = Absent THEN Absent ELSE DecodeReference(d)

(* begin_operation reads the active reference; it does not ask for the     *)
(* retention marker.                                                       *)
ReferenceToUse(d) ==
    IF refColumns[d] = Absent THEN Absent
    ELSE IF refColumns[d].state # "active" THEN Absent
    ELSE DecodeReference(d)
-----------------------------------------------------------------------------
(* Every deployment is read as its writer meant it, whichever release      *)
(* wrote it, so no row makes a listing fail and a retried request of the   *)
(* first release is still recognised as the same intent.                   *)
DeploymentsReadAsMeant == \A d \in Rows : DecodeDeployment(d) = meant[d]

(* A reference of either release permits a rollback under exactly those    *)
(* configurations that agree with the one it was recorded under on all     *)
(* that the rollback uses.                                                 *)
DriftSeenAcrossReleases ==
    \A d \in Rows, c \in Contracts :
        GetReference(d) # Absent =>
            (ContractMatches(c, GetReference(d)) <=>
                 /\ c.target = meantRef[d].target
                 /\ Snapshot(c) = Snapshot(meantRef[d]))

(* A pruned reference has the shape of a row of the first release, whose   *)
(* decoding checks nothing: the two queries must never hand one out.       *)
NoBlankReference ==
    \A d \in Rows : \A r \in {GetReference(d), ReferenceToUse(d)} \ {Absent} :
        r.target # Blank /\ r.snapshot # BlankSnapshot
=============================================================================
