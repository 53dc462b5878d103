----------------------------- MODULE RowProofs ------------------------------
(***************************************************************************)
(* Proofs about DurableRows: rows of two releases, and pruned ones, are    *)
(* read as their writers meant them, for any releases and configurations   *)
(* and however the writes of the two programs are ordered.                 *)
(***************************************************************************)
EXTENDS DurableRows, SequenceTheorems, TLAPS

DeploymentMeaning == [kind: {Kind}, release: Artifacts]

ModelRow ==
    {[kind |-> Kind, fingerprint |-> ReferenceFor(c).contract_fingerprint,
      snapshot |-> ReferenceFor(c).snapshot] : c \in Contracts}

RowsTypeOK ==
    /\ columns \in Seq(Artifacts)
    /\ metadata \in Seq(DeploymentMeaning \cup {Absent})
    /\ meant \in Seq(DeploymentMeaning)
    /\ refColumns \in Seq(ReferenceRow \cup {Absent})
    /\ refModel \in Seq(ModelRow \cup {Absent})
    /\ meantRef \in Seq(Contracts \cup {Absent})
    /\ Len(metadata) = Len(columns) /\ Len(meant) = Len(columns)
    /\ Len(refColumns) = Len(columns) /\ Len(refModel) = Len(columns)
    /\ Len(meantRef) = Len(columns)

(* The tables of a typed state have one row for each deployment.           *)
LEMMA WellFormed ==
    ASSUME RowsTypeOK
    PROVE  /\ Len(columns) \in Nat
           /\ DOMAIN columns = Rows /\ DOMAIN metadata = Rows
           /\ DOMAIN meant = Rows /\ DOMAIN refColumns = Rows
           /\ DOMAIN refModel = Rows /\ DOMAIN meantRef = Rows
           /\ \A d \in Rows :
                  /\ columns[d] \in Artifacts
                  /\ refColumns[d] \in ReferenceRow \cup {Absent}
                  /\ refModel[d] \in ModelRow \cup {Absent}
<1>1. /\ Len(columns) \in Nat
      /\ DOMAIN columns = Rows /\ DOMAIN metadata = Rows
      /\ DOMAIN meant = Rows /\ DOMAIN refColumns = Rows
      /\ DOMAIN refModel = Rows /\ DOMAIN meantRef = Rows
  BY LenProperties DEF RowsTypeOK, Rows
<1>2. \A d \in Rows : /\ columns[d] \in Artifacts
                      /\ refColumns[d] \in ReferenceRow \cup {Absent}
                      /\ refModel[d] \in ModelRow \cup {Absent}
  BY ElementOfSeq DEF RowsTypeOK, Rows
<1>3. QED
  BY <1>1, <1>2

(* The metadata of a deployment, if it has any, says what its columns say. *)
DeploymentsAgree ==
    \A d \in Rows :
        /\ meant[d] = [kind |-> Kind, release |-> columns[d]]
        /\ metadata[d] = Absent \/ metadata[d] = meant[d]

(* A reference whose snapshot was not pruned is the one built from the     *)
(* contract it was recorded under; a pruned one cannot be used.            *)
ReferenceAgrees(d) ==
    /\ meantRef[d] \in Contracts
    /\ meantRef[d].tasks.rollback # NotConfigured
    /\ refColumns[d].target = ReferenceFor(meantRef[d]).target
    /\ refColumns[d].snapshot = ReferenceFor(meantRef[d]).snapshot
    /\ \/ refModel[d] = Absent
       \/ /\ refModel[d].fingerprint =
                 ReferenceFor(meantRef[d]).contract_fingerprint
          /\ refModel[d].snapshot = ReferenceFor(meantRef[d]).snapshot

ReferencesAgree ==
    /\ \A d \in Rows \ retention :
           refColumns[d] # Absent => ReferenceAgrees(d)
    /\ \A d \in retention :
           /\ d \in Rows
           /\ refColumns[d] # Absent
           /\ refColumns[d].state # "active"

RowsInv == RowsTypeOK /\ DeploymentsAgree /\ ReferencesAgree

(* The empty tables satisfy the invariant.                                 *)
LEMMA RowsInit == Init => RowsInv
BY EmptySeq DEF Init, RowsInv, RowsTypeOK, DeploymentsAgree, ReferencesAgree,
                Rows
-----------------------------------------------------------------------------
(* Both releases insert a deployment and no reference.                     *)
LEMMA InsertKeeps ==
    ASSUME RowsInv, NEW r \in Artifacts, NEW meta, NewDeployment(r, meta),
           meta \in {Absent, [kind |-> Kind, release |-> r]}
    PROVE  RowsInv'
<1>1. PICK n : n = Len(columns) + 1
  OBVIOUS
<1>2. PICK row : row = [kind |-> Kind, release |-> r]
  OBVIOUS
<1>3. row \in DeploymentMeaning /\ meta \in DeploymentMeaning \cup {Absent}
  BY <1>2 DEF DeploymentMeaning
<1>4. /\ columns' = Append(columns, r)
      /\ metadata' = Append(metadata, meta)
      /\ meant' = Append(meant, row)
      /\ refColumns' = Append(refColumns, Absent)
      /\ refModel' = Append(refModel, Absent)
      /\ meantRef' = Append(meantRef, Absent)
      /\ retention' = retention
  BY <1>2 DEF NewDeployment
<1>5. RowsTypeOK /\ Len(columns) \in Nat
  BY WellFormed DEF RowsInv
<1>6. /\ columns' \in Seq(Artifacts) /\ Len(columns') = n
      /\ columns'[n] = r
      /\ \A d \in Rows : columns'[d] = columns[d]
  BY <1>1, <1>4, <1>5, AppendProperties DEF RowsTypeOK, Rows
<1>7. /\ metadata' \in Seq(DeploymentMeaning \cup {Absent})
      /\ Len(metadata') = n /\ metadata'[n] = meta
      /\ \A d \in Rows : metadata'[d] = metadata[d]
  BY <1>1, <1>3, <1>4, <1>5, AppendProperties DEF RowsTypeOK, Rows
<1>8. /\ meant' \in Seq(DeploymentMeaning) /\ Len(meant') = n
      /\ meant'[n] = row
      /\ \A d \in Rows : meant'[d] = meant[d]
  BY <1>1, <1>3, <1>4, <1>5, AppendProperties DEF RowsTypeOK, Rows
<1>9. /\ refColumns' \in Seq(ReferenceRow \cup {Absent})
      /\ Len(refColumns') = n /\ refColumns'[n] = Absent
      /\ \A d \in Rows : refColumns'[d] = refColumns[d]
  BY <1>1, <1>4, <1>5, AppendProperties DEF RowsTypeOK, Rows
<1>10. /\ refModel' \in Seq(ModelRow \cup {Absent}) /\ Len(refModel') = n
       /\ \A d \in Rows : refModel'[d] = refModel[d]
  BY <1>1, <1>4, <1>5, AppendProperties DEF RowsTypeOK, Rows
<1>11. /\ meantRef' \in Seq(Contracts \cup {Absent}) /\ Len(meantRef') = n
       /\ \A d \in Rows : meantRef'[d] = meantRef[d]
  BY <1>1, <1>4, <1>5, AppendProperties DEF RowsTypeOK, Rows
<1>12. Rows' = Rows \cup {n} /\ n \notin Rows
  BY <1>1, <1>5, <1>6 DEF Rows
<1>13. RowsTypeOK'
  BY <1>6, <1>7, <1>8, <1>9, <1>10, <1>11 DEF RowsTypeOK
<1>14. DeploymentsAgree'
  BY <1>2, <1>6, <1>7, <1>8, <1>12 DEF RowsInv, DeploymentsAgree
<1>15. ReferencesAgree'
  <2>1. ASSUME NEW d \in Rows' \ retention, refColumns'[d] # Absent
        PROVE  ReferenceAgrees(d)'
    <3>1. d \in Rows \ retention
      BY <1>9, <1>12, <2>1
    <3>2. refColumns[d] # Absent
      BY <1>9, <2>1, <3>1
    <3>3. ReferenceAgrees(d)
      BY <3>1, <3>2 DEF RowsInv, ReferencesAgree
    <3>4. QED
      BY <1>9, <1>10, <1>11, <3>1, <3>3 DEF ReferenceAgrees
  <2>2. \A d \in retention : /\ d \in Rows' /\ refColumns'[d] # Absent
                             /\ refColumns'[d].state # "active"
    BY <1>9, <1>12 DEF RowsInv, ReferencesAgree
  <2>3. QED
    BY <1>4, <2>1, <2>2 DEF ReferencesAgree
<1>16. QED
  BY <1>13, <1>14, <1>15 DEF RowsInv

(* Both releases record a reference, with or without metadata.             *)
LEMMA RecordKeeps ==
    ASSUME RowsInv, NEW d \in Rows, NEW c \in Contracts, NEW model,
           NewReference(d, c, model),
           model \in {Absent,
               [kind |-> Kind,
                fingerprint |-> ReferenceFor(c).contract_fingerprint,
                snapshot |-> ReferenceFor(c).snapshot]}
    PROVE  RowsInv'
<1>1. RowsTypeOK /\ Len(columns) \in Nat
      /\ DOMAIN refColumns = Rows /\ DOMAIN refModel = Rows
      /\ DOMAIN meantRef = Rows
      /\ \A n \in Rows : refColumns[n] \in ReferenceRow \cup {Absent}
  BY WellFormed DEF RowsInv
<1>2. PICK row : row = RefColumns(ReferenceFor(c), "active")
  OBVIOUS
<1>3. /\ row \in ReferenceRow
      /\ row.target = ReferenceFor(c).target
      /\ row.snapshot = ReferenceFor(c).snapshot
  BY <1>2 DEF RefColumns, ReferenceFor, ReferenceRow
<1>4. PICK old : old = [n \in Rows |-> [refColumns[n] EXCEPT !.state = "superseded"]]
  OBVIOUS
<1>5. \A n \in Rows : refColumns[n] # Absent =>
          /\ old[n] \in ReferenceRow
          /\ old[n].target = refColumns[n].target
          /\ old[n].snapshot = refColumns[n].snapshot
          /\ old[n].state = "superseded"
  BY <1>1, <1>4 DEF ReferenceRow
<1>6. /\ UNCHANGED <<columns, metadata, retention, meant>>
      /\ refColumns' = [n \in Rows |->
             CASE n = d -> row
               [] n # d /\ refColumns[n] # Absent /\ refColumns[n].state = "active"
                    -> old[n]
               [] OTHER -> refColumns[n]]
      /\ refModel' = [refModel EXCEPT ![d] = model]
      /\ meantRef' = [meantRef EXCEPT ![d] = c]
      /\ refColumns[d] = Absent
      /\ c.tasks.rollback # NotConfigured
  BY <1>2, <1>4 DEF NewReference
<1>7. /\ refColumns'[d] = row
      /\ \A n \in Rows : n # d =>
             \/ refColumns'[n] = refColumns[n]
             \/ refColumns[n] # Absent /\ refColumns'[n] = old[n]
  BY <1>6
<1>8. refColumns' \in Seq(ReferenceRow \cup {Absent})
      /\ Len(refColumns') = Len(columns)
  <2>1. refColumns' \in [1 .. Len(columns) -> ReferenceRow \cup {Absent}]
    BY <1>1, <1>3, <1>5, <1>6 DEF Rows
  <2>2. refColumns' \in Seq(ReferenceRow \cup {Absent})
    BY <1>1, <2>1, SeqDef
  <2>3. QED
    BY <1>1, <2>1, <2>2, LenProperties
<1>9. model \in ModelRow \cup {Absent}
  BY DEF ModelRow
<1>10. /\ refModel' \in Seq(ModelRow \cup {Absent})
       /\ Len(refModel') = Len(refModel)
       /\ \A n \in Rows : refModel'[n] = IF n = d THEN model ELSE refModel[n]
  BY <1>1, <1>6, <1>9, ExceptSeq DEF RowsTypeOK, Rows
<1>11. /\ meantRef' \in Seq(Contracts \cup {Absent})
       /\ Len(meantRef') = Len(meantRef)
       /\ \A n \in Rows : meantRef'[n] = IF n = d THEN c ELSE meantRef[n]
  BY <1>1, <1>6, ExceptSeq DEF RowsTypeOK, Rows
<1>12. RowsTypeOK'
  BY <1>1, <1>6, <1>8, <1>10, <1>11 DEF RowsTypeOK
<1>13. DeploymentsAgree'
  BY <1>6 DEF RowsInv, DeploymentsAgree, Rows
<1>14. d \notin retention
  BY <1>6 DEF RowsInv, ReferencesAgree
<1>15. ReferenceAgrees(d)'
  BY <1>3, <1>6, <1>7, <1>10, <1>11 DEF ReferenceAgrees
<1>16. ASSUME NEW n \in Rows \ retention, n # d, refColumns'[n] # Absent
       PROVE  ReferenceAgrees(n)'
  <2>1. refColumns[n] # Absent /\ ReferenceAgrees(n)
    BY <1>7, <1>16 DEF RowsInv, ReferencesAgree
  <2>2. /\ refColumns'[n].target = refColumns[n].target
        /\ refColumns'[n].snapshot = refColumns[n].snapshot
    BY <1>5, <1>7, <1>16, <2>1
  <2>3. QED
    BY <1>10, <1>11, <1>16, <2>1, <2>2 DEF ReferenceAgrees
<1>17. ASSUME NEW n \in retention
       PROVE  n \in Rows /\ refColumns'[n] # Absent
              /\ refColumns'[n].state # "active"
  <2>1. /\ n \in Rows /\ n # d /\ refColumns[n] # Absent
        /\ refColumns[n].state # "active"
    BY <1>14, <1>17 DEF RowsInv, ReferencesAgree
  <2>2. refColumns'[n] = refColumns[n]
    BY <1>6, <2>1
  <2>3. QED
    BY <2>1, <2>2
<1>18. ReferencesAgree'
  BY <1>6, <1>15, <1>16, <1>17 DEF ReferencesAgree, Rows
<1>19. QED
  BY <1>12, <1>13, <1>18 DEF RowsInv

(* finish_operation writes nothing but the state.                          *)
LEMMA ConsumeKeeps ==
    ASSUME RowsInv, NEW d \in Rows, Consume(d)
    PROVE  RowsInv'
<1>1. /\ UNCHANGED <<columns, metadata, refModel, retention, meant, meantRef>>
      /\ refColumns[d] # Absent
      /\ refColumns[d].state = "active"
  BY DEF Consume
<1>2. RowsTypeOK /\ refColumns[d] \in ReferenceRow
  BY <1>1, WellFormed DEF RowsInv
<1>3. PICK row : row = [refColumns[d] EXCEPT !.state = "consumed"]
  OBVIOUS
<1>4. /\ row \in ReferenceRow
      /\ row.target = refColumns[d].target
      /\ row.snapshot = refColumns[d].snapshot
  BY <1>2, <1>3 DEF ReferenceRow
<1>5. refColumns' = [refColumns EXCEPT ![d] = row]
  BY <1>3 DEF Consume
<1>6. /\ refColumns' \in Seq(ReferenceRow \cup {Absent})
      /\ Len(refColumns') = Len(refColumns)
      /\ \A n \in Rows : refColumns'[n] = IF n = d THEN row ELSE refColumns[n]
  BY <1>2, <1>4, <1>5, ExceptSeq DEF RowsTypeOK, Rows
<1>7. d \notin retention
  BY <1>1 DEF RowsInv, ReferencesAgree
<1>8. RowsTypeOK' /\ DeploymentsAgree' /\ Rows' = Rows
  BY <1>1, <1>6 DEF RowsInv, RowsTypeOK, DeploymentsAgree, Rows
<1>9. ASSUME NEW n \in Rows \ retention, refColumns'[n] # Absent
      PROVE  ReferenceAgrees(n)'
  <2>1. refColumns[n] # Absent
    BY <1>1, <1>6, <1>9
  <2>2. ReferenceAgrees(n)
    BY <1>9, <2>1 DEF RowsInv, ReferencesAgree
  <2>3. refColumns'[n].target = refColumns[n].target
        /\ refColumns'[n].snapshot = refColumns[n].snapshot
    BY <1>4, <1>6, <1>9
  <2>4. QED
    BY <1>1, <2>2, <2>3 DEF ReferenceAgrees
<1>10. \A n \in retention : /\ n \in Rows /\ refColumns'[n] # Absent
                           /\ refColumns'[n].state # "active"
  BY <1>6, <1>7 DEF RowsInv, ReferencesAgree
<1>11. QED
  BY <1>1, <1>8, <1>9, <1>10 DEF RowsInv, ReferencesAgree

(* Retention blanks one inactive reference.                                *)
LEMMA PruneKeeps ==
    ASSUME RowsInv, NEW d \in Rows, Prune(d)
    PROVE  RowsInv'
<1>1. /\ UNCHANGED <<columns, metadata, meant, meantRef>>
      /\ retention' = retention \cup {d}
      /\ refModel' = [refModel EXCEPT ![d] = Absent]
      /\ refColumns[d] # Absent
      /\ refColumns[d].state \in {"superseded", "consumed"}
  BY DEF Prune
<1>2. RowsTypeOK /\ refColumns[d] \in ReferenceRow /\ DOMAIN refColumns = Rows
  BY <1>1, WellFormed DEF RowsInv
<1>3. PICK row : row = [target |-> Blank, snapshot |-> BlankSnapshot,
                        state |-> refColumns[d].state]
  OBVIOUS
<1>4. row \in ReferenceRow /\ row.state # "active"
  BY <1>1, <1>3 DEF ReferenceRow
<1>5. refColumns' = [refColumns EXCEPT ![d] = row]
  <2>1. PICK half : half = [refColumns EXCEPT ![d].target = Blank]
    OBVIOUS
  <2>2. refColumns' = [half EXCEPT ![d].snapshot = BlankSnapshot]
    BY <2>1 DEF Prune
  <2>3. PICK T, S, X : ReferenceRow = [target: T, snapshot: S, state: X]
    BY DEF ReferenceRow
  <2>4. PICK u : u = [refColumns[d] EXCEPT !.target = Blank]
    OBVIOUS
  <2>5. /\ half = [refColumns EXCEPT ![d] = u]
        /\ u \in [target: {Blank}, snapshot: S, state: X]
        /\ u.state = row.state
    BY <1>2, <1>3, <2>1, <2>3, <2>4
  <2>6. PICK v : v = [u EXCEPT !.snapshot = BlankSnapshot]
    OBVIOUS
  <2>7. /\ v \in [target: {Blank}, snapshot: {BlankSnapshot}, state: X]
        /\ v.state = row.state
    BY <2>5, <2>6
  <2>8. v = row
    BY <1>3, <2>7
  <2>9. refColumns' = [half EXCEPT ![d] = v]
    BY <1>2, <2>2, <2>5, <2>6
  <2>10. QED
    BY <1>2, <2>5, <2>8, <2>9
<1>6. /\ refColumns' \in Seq(ReferenceRow \cup {Absent})
      /\ Len(refColumns') = Len(refColumns)
      /\ \A n \in Rows : refColumns'[n] = IF n = d THEN row ELSE refColumns[n]
  BY <1>2, <1>4, <1>5, ExceptSeq DEF RowsTypeOK, Rows
<1>7. /\ refModel' \in Seq(ModelRow \cup {Absent})
      /\ Len(refModel') = Len(refModel)
      /\ \A n \in Rows : refModel'[n] = IF n = d THEN Absent ELSE refModel[n]
  BY <1>1, <1>2, ExceptSeq DEF RowsTypeOK, Rows
<1>8. RowsTypeOK' /\ DeploymentsAgree' /\ Rows' = Rows
  BY <1>1, <1>6, <1>7 DEF RowsInv, RowsTypeOK, DeploymentsAgree, Rows
<1>9. ASSUME NEW n \in Rows \ retention', refColumns'[n] # Absent
      PROVE  ReferenceAgrees(n)'
  <2>1. n # d /\ n \in Rows \ retention
    BY <1>1, <1>9
  <2>2. refColumns'[n] = refColumns[n] /\ refModel'[n] = refModel[n]
    BY <1>6, <1>7, <2>1
  <2>3. ReferenceAgrees(n)
    BY <1>9, <2>1, <2>2 DEF RowsInv, ReferencesAgree
  <2>4. QED
    BY <1>1, <2>2, <2>3 DEF ReferenceAgrees
<1>10. \A n \in retention' : /\ n \in Rows /\ refColumns'[n] # Absent
                            /\ refColumns'[n].state # "active"
  BY <1>1, <1>4, <1>6, ReleasesAssumption DEF RowsInv, ReferencesAgree
<1>11. QED
  BY <1>8, <1>9, <1>10 DEF RowsInv, ReferencesAgree

(* Every statement of either release keeps the invariant.                  *)
LEMMA RowsStep == RowsInv /\ [Next]_rowVars => RowsInv'
<1> SUFFICES ASSUME RowsInv, [Next]_rowVars PROVE RowsInv'
  OBVIOUS
<1>1. ASSUME NEW r, InsertByFirstRelease(r) \/ Insert(r) PROVE RowsInv'
  BY <1>1, InsertKeeps DEF InsertByFirstRelease, Insert
<1>2. ASSUME NEW d \in Rows, NEW c \in Contracts,
             RecordByFirstRelease(d, c) \/ Record(d, c)
      PROVE  RowsInv'
  BY <1>2, RecordKeeps DEF RecordByFirstRelease, Record
<1>3. ASSUME NEW d \in Rows, Consume(d) \/ Prune(d) PROVE RowsInv'
  BY <1>3, ConsumeKeeps, PruneKeeps
<1>4. ASSUME UNCHANGED <<columns, metadata, refColumns, refModel, retention,
                         meant, meantRef>>
      PROVE  RowsInv'
  BY <1>4 DEF RowsInv, RowsTypeOK, DeploymentsAgree, ReferencesAgree,
     ReferenceAgrees, Rows
<1>5. QED
  BY <1>1, <1>2, <1>3, <1>4 DEF Next, Upgrade, rowVars

(* The invariant holds in every state.                                     *)
LEMMA RowsCorrect == Spec => []RowsInv
BY RowsInit, RowsStep, PTL DEF Spec
-----------------------------------------------------------------------------
(* DeploymentsReadAsMeant: decode_deployment reads every row of either     *)
(* release as the release its writer meant.                                *)
THEOREM DeploymentsReadCorrect == Spec => []DeploymentsReadAsMeant
<1>1. RowsInv => DeploymentsReadAsMeant
  <2> SUFFICES ASSUME RowsInv, NEW d \in Rows
               PROVE  DecodeDeployment(d) = meant[d]
    BY DEF DeploymentsReadAsMeant
  <2>1. /\ meant[d] = [kind |-> Kind, release |-> columns[d]]
        /\ metadata[d] = Absent \/ metadata[d] = meant[d]
    BY DEF RowsInv, DeploymentsAgree
  <2>2. CASE metadata[d] = Absent
    BY <2>1, <2>2 DEF DecodeDeployment
  <2>3. CASE metadata[d] # Absent
    <3>1. metadata[d] = meant[d] /\ metadata[d].release = columns[d]
      BY <2>1, <2>3
    <3>2. QED
      BY <2>3, <3>1 DEF DecodeDeployment
  <2>4. QED
    BY <2>2, <2>3
<1>2. QED
  BY <1>1, RowsCorrect, PTL

(* Whatever release recorded it, and with or without metadata, a reference *)
(* that was not pruned is decoded to the one its contract gives.           *)
LEMMA ReferenceDecoded ==
    ASSUME NEW d \in Rows, ReferenceAgrees(d)
    PROVE  DecodeReference(d) = ReferenceFor(meantRef[d])
<1>1. ReferenceFor(meantRef[d]).contract_fingerprint =
          Fingerprint(ReferenceFor(meantRef[d]).target,
                      ReferenceFor(meantRef[d]).snapshot)
  BY DEF ReferenceFor
<1>2. ReferenceFor(meantRef[d]) =
          [target |-> ReferenceFor(meantRef[d]).target,
           snapshot |-> ReferenceFor(meantRef[d]).snapshot,
           contract_fingerprint |->
               ReferenceFor(meantRef[d]).contract_fingerprint]
  BY DEF ReferenceFor
<1>3. QED
  BY <1>1, <1>2 DEF ReferenceAgrees, DecodeReference

(* The drift check compares exactly what a rollback uses.                  *)
LEMMA MatchesExactly ==
    ASSUME NEW c, NEW m, m.tasks.rollback # NotConfigured
    PROVE  ContractMatches(c, ReferenceFor(m)) <=>
               c.target = m.target /\ Snapshot(c) = Snapshot(m)
<1>1. ASSUME Snapshot(c) = Snapshot(m)
      PROVE  c.tasks.rollback = m.tasks.rollback
  BY <1>1 DEF Snapshot
<1>2. ASSUME Fingerprint(c.target, Snapshot(c)) =
                 Fingerprint(m.target, Snapshot(m))
      PROVE  Snapshot(c) = Snapshot(m)
  BY <1>2 DEF Fingerprint, Snapshot
<1>3. QED
  BY <1>1, <1>2 DEF ContractMatches, ReferenceFor

(* DriftSeenAcrossReleases: rollback_contract_matches permits a rollback   *)
(* under exactly the configurations that agree with the recorded one on    *)
(* all that a rollback uses.                                               *)
THEOREM DriftSeen == Spec => []DriftSeenAcrossReleases
<1>1. RowsInv => DriftSeenAcrossReleases
  <2> SUFFICES ASSUME RowsInv, NEW d \in Rows, NEW c \in Contracts,
                      GetReference(d) # Absent
               PROVE  ContractMatches(c, GetReference(d)) <=>
                          /\ c.target = meantRef[d].target
                          /\ Snapshot(c) = Snapshot(meantRef[d])
    BY DEF DriftSeenAcrossReleases
  <2>1. refColumns[d] # Absent /\ d \notin retention
        /\ GetReference(d) = DecodeReference(d)
    BY DEF GetReference
  <2>2. ReferenceAgrees(d)
    BY <2>1 DEF RowsInv, ReferencesAgree
  <2>3. QED
    BY <2>1, <2>2, ReferenceDecoded, MatchesExactly DEF ReferenceAgrees
<1>2. QED
  BY <1>1, RowsCorrect, PTL

(* NoBlankReference: neither get_reference nor begin_operation, which does *)
(* not look at the retention marker, hands out a pruned reference.         *)
THEOREM NoBlankHandedOut == Spec => []NoBlankReference
<1>1. RowsInv => NoBlankReference
  <2> SUFFICES ASSUME RowsInv, NEW d \in Rows,
                      NEW r \in {GetReference(d), ReferenceToUse(d)} \ {Absent}
               PROVE  r.target # Blank /\ r.snapshot # BlankSnapshot
    BY DEF NoBlankReference
  <2>1. /\ refColumns[d] # Absent
        /\ d \notin retention \/ refColumns[d].state = "active"
        /\ r = DecodeReference(d)
    BY DEF GetReference, ReferenceToUse
  <2>2. d \notin retention
    BY <2>1 DEF RowsInv, ReferencesAgree
  <2>3. ReferenceAgrees(d)
    BY <2>1, <2>2 DEF RowsInv, ReferencesAgree
  <2>4. PICK c \in Contracts : r = ReferenceFor(c)
    BY <2>1, <2>3, ReferenceDecoded DEF ReferenceAgrees
  <2>5. c.target # Blank /\ c.backup_path # Blank
    BY ReleasesAssumption
  <2>6. Snapshot(c) # BlankSnapshot
    <3>1. Snapshot(c).backup_path = c.backup_path
      BY DEF Snapshot
    <3>2. BlankSnapshot.backup_path = Blank
      BY DEF BlankSnapshot
    <3>3. QED
      BY <2>5, <3>1, <3>2
  <2>7. QED
    BY <2>4, <2>5, <2>6 DEF ReferenceFor
<1>2. QED
  BY <1>1, RowsCorrect, PTL
=============================================================================
