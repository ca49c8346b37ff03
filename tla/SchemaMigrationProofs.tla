------------------------- MODULE SchemaMigrationProofs -------------------------
(* What SchemaMigration promises, for any number of processes and any mix of  *)
(* binaries that know at least the present schema.                            *)
EXTENDS SchemaMigration, TLAPS

PastKey     == {"rowids", "columns", "tables", "content", "stamp", "commit"}
PastColumns == {"tables", "content", "stamp", "commit"}
PastTables  == {"content", "stamp", "commit"}

(* How far the transaction of p has brought the file.                         *)
Progress(p) ==
    /\ pc[p] = "reread" => work = db
    /\ pc[p] \in InTransaction \ {"reread"} =>
          /\ seen[p] = db.version
          /\ seen[p] <= Target[p]
          /\ Has(work, db.version)
    /\ pc[p] \in PastKey => work.key \in {"none", "composite"}
    /\ pc[p] \in PastColumns => work.sync \in {"none", "full"}
    /\ pc[p] \in PastTables =>
          work.key = "composite" /\ work.sync = "full" /\ work.tables >= Target[p]
    /\ pc[p] \in {"stamp", "commit"} => work.fts = "leaf"
    /\ pc[p] = "commit" => work.version = Target[p]

IInv ==
    /\ TypeOK
    /\ StampTellsTheTruth
    /\ OpenStoreIsWhole
    /\ \A p \in Procs : Progress(p)

USE DEF CompositeKeyVersion, FTSContentVersion, StoreSchemaVersion
-----------------------------------------------------------------------------
(* A file that has what version v calls for has what any earlier one does.    *)
LEMMA HasLess ==
    ASSUME NEW d \in Schemas, NEW u \in Nat, NEW v \in Nat, u <= v, Has(d, v)
    PROVE  Has(d, u)
  BY DEF Has, Schemas

(* Rebuilding the index takes nothing from the file.                          *)
LEMMA RebuiltHas ==
    ASSUME NEW d \in Schemas, NEW v \in Nat, Has(d, v)
    PROVE  /\ Rebuilt(d) \in Schemas
           /\ Has(Rebuilt(d), v)
           /\ Rebuilt(d).key = d.key /\ Rebuilt(d).sync = d.sync
           /\ Rebuilt(d).tables = d.tables /\ Rebuilt(d).version = d.version
           /\ d.key # "none" => Rebuilt(d).fts = "leaf"
  BY DEF Has, Schemas, Rebuilt

(* Every schema version the store starts from is what its stamp says.         *)
LEMMA InitHolds == Init => IInv
<1> SUFFICES ASSUME Init PROVE IInv
  OBVIOUS
<1>1. db \in Schemas
  BY DEF Init, Fresh, Legacy, Schemas
<1>2. Has(db, db.version)
  BY DEF Init, Fresh, Has
<1>3. TypeOK
  BY <1>1, MigrationAssumption DEF Init, TypeOK, PCs, InTransaction
<1>4. \A p \in Procs : Progress(p)
  BY DEF Init, Progress, InTransaction, PastKey, PastColumns, PastTables
<1> QED
  BY <1>2, <1>3, <1>4 DEF IInv, StampTellsTheTruth, OpenStoreIsWhole, Init

(* What the steps of a transaction have in common: they are p's, they change  *)
(* the transaction's view and take p on to the next step.                     *)
LEMMA WorkStep ==
    ASSUME IInv, NEW p \in Procs, NEW l \in InTransaction,
           lock = p, Goto(p, l), work' \in Schemas,
           UNCHANGED <<db, lock>>,
           seen' \in [Procs -> Nat],
           Progress(p)'
    PROVE  IInv'
<1>1. TypeOK'
  BY DEF IInv, TypeOK, Goto, PCs, InTransaction
<1>2. \A q \in Procs \ {p} : pc'[q] = pc[q] /\ pc[q] \notin InTransaction
  BY DEF IInv, TypeOK, Goto
<1>3. pc'[p] = l
  BY DEF IInv, TypeOK, Goto
<1>4. OpenStoreIsWhole'
  BY <1>2, <1>3 DEF IInv, OpenStoreIsWhole, Has, InTransaction
<1>5. StampTellsTheTruth'
  BY DEF IInv, StampTellsTheTruth, Has
<1>6. \A q \in Procs : Progress(q)'
  <2> SUFFICES ASSUME NEW q \in Procs, q # p PROVE Progress(q)'
    OBVIOUS
  <2>1. pc'[q] \notin InTransaction
    BY <1>2
  <2> QED
    BY <2>1 DEF Progress, InTransaction, PastKey, PastColumns, PastTables
<1> QED
  BY <1>1, <1>4, <1>5, <1>6 DEF IInv

(* The steps outside of a transaction, and the end of one that failed.        *)
LEMMA OutsideStep ==
    ASSUME IInv, NEW p \in Procs, NEW l \in {"closed", "read", "begin", "failed"},
           Goto(p, l), UNCHANGED <<db, work>>,
           \/ lock # p /\ lock' = lock
           \/ lock = p /\ lock' = NoProc,
           seen' \in [Procs -> Nat],
           \A q \in Procs \ {p} : seen'[q] = seen[q]
    PROVE  IInv'
<1>1. \A q \in Procs \ {p} : pc'[q] = pc[q]
  BY DEF IInv, TypeOK, Goto
<1>2. pc'[p] = l
  BY DEF IInv, TypeOK, Goto
<1>3. TypeOK'
  <2>1. pc' \in [Procs -> PCs]
    BY DEF IInv, TypeOK, Goto, PCs
  <2>2. \A q \in Procs : pc'[q] \in InTransaction <=> lock' = q
    BY <1>1, <1>2, MigrationAssumption DEF IInv, TypeOK, InTransaction
  <2> QED
    BY <2>1, <2>2 DEF IInv, TypeOK
<1>4. OpenStoreIsWhole'
  BY <1>1, <1>2 DEF IInv, OpenStoreIsWhole, Has
<1>5. StampTellsTheTruth'
  BY DEF IInv, StampTellsTheTruth, Has
<1>6. \A q \in Procs : Progress(q)'
  <2>1. Progress(p)'
    BY <1>2 DEF Progress, InTransaction, PastKey, PastColumns, PastTables
  <2>2. ASSUME NEW q \in Procs \ {p} PROVE Progress(q)'
    BY <1>1 DEF IInv, Progress, Has
  <2> QED
    BY <2>1, <2>2
<1> QED
  BY <1>3, <1>4, <1>5, <1>6 DEF IInv

LEMMA CommitHolds ==
    ASSUME IInv, NEW p \in Procs, Commit(p)
    PROVE  IInv' /\ db'.version >= db.version
<1>1. lock = p
  BY DEF IInv, TypeOK, Commit, InTransaction
<1>2. /\ work \in Schemas /\ work.version = Target[p]
      /\ db.version <= Target[p] /\ db.version \in Nat /\ Target[p] \in Nat
  BY MigrationAssumption DEF IInv, TypeOK, Progress, Commit, InTransaction, Schemas
<1>3. Has(work, Target[p])
  BY <1>2 DEF IInv, Progress, Commit, PastTables, Has
<1>4. \A q \in Procs \ {p} : pc'[q] = pc[q] /\ pc[q] \notin InTransaction
  BY <1>1 DEF IInv, TypeOK, Commit, Goto
<1>5. pc'[p] = "open"
  BY DEF IInv, TypeOK, Commit, Goto
<1>6. TypeOK'
  <2>1. pc' \in [Procs -> PCs]
    BY DEF IInv, TypeOK, Commit, Goto, PCs
  <2>2. \A q \in Procs : pc'[q] \in InTransaction <=> lock' = q
    BY <1>4, <1>5, MigrationAssumption DEF Commit, InTransaction
  <2> QED
    BY <1>2, <2>1, <2>2 DEF IInv, TypeOK, Commit
<1>7. ASSUME NEW q \in Procs, pc'[q] = "open"
      PROVE  Has(work, Target[q]) /\ work.version >= Target[q]
  <2>1. Target[q] \in Nat
    BY MigrationAssumption
  <2>2. Target[q] <= Target[p]
    BY <1>2, <1>4, <1>7, <2>1 DEF IInv, OpenStoreIsWhole
  <2> QED
    BY <1>2, <1>3, <2>1, <2>2, HasLess
<1>8. \A q \in Procs : Progress(q)'
  <2> SUFFICES ASSUME NEW q \in Procs PROVE Progress(q)'
    OBVIOUS
  <2>1. pc'[q] \notin InTransaction
    BY <1>4, <1>5 DEF InTransaction
  <2> QED
    BY <2>1 DEF Progress, InTransaction, PastKey, PastColumns, PastTables
<1>9. db' = work
  BY DEF Commit
<1>10. StampTellsTheTruth'
  BY <1>2, <1>3, <1>9 DEF StampTellsTheTruth, Has
<1>11. OpenStoreIsWhole'
  BY <1>7, <1>9 DEF OpenStoreIsWhole, Has
<1> QED
  BY <1>2, <1>6, <1>8, <1>9, <1>10, <1>11 DEF IInv

(* Every step keeps the invariant, and none lowers the version.               *)
LEMMA StepHolds == IInv /\ [Next]_vars => IInv' /\ db'.version >= db.version
<1> SUFFICES ASSUME IInv, [Next]_vars PROVE IInv' /\ db'.version >= db.version
  OBVIOUS
<1>0. db.version \in Nat
  BY DEF IInv, TypeOK, Schemas
<1>1. CASE UNCHANGED vars
  BY <1>0, <1>1 DEF vars, IInv, TypeOK, StampTellsTheTruth, OpenStoreIsWhole, Has, Progress
<1>2. ASSUME NEW p \in Procs, Open(p) PROVE IInv'
  <2>1. lock # p
    BY <1>2 DEF IInv, TypeOK, Open, InTransaction
  <2> QED
    BY <1>2, <2>1, OutsideStep DEF Open, IInv, TypeOK
<1>3. ASSUME NEW p \in Procs, Close(p) PROVE IInv'
  <2>1. lock # p
    BY <1>3 DEF IInv, TypeOK, Close, InTransaction
  <2> QED
    BY <1>3, <2>1, OutsideStep DEF Close, IInv, TypeOK
<1>4. ASSUME NEW p \in Procs, ReadVersion(p) PROVE IInv'
  <2>1. lock # p
    BY <1>4 DEF IInv, TypeOK, ReadVersion, InTransaction
  <2>2. seen' \in [Procs -> Nat] /\ \A q \in Procs \ {p} : seen'[q] = seen[q]
    BY <1>0, <1>4 DEF IInv, TypeOK, ReadVersion
  <2>3. Goto(p, "failed") \/ Goto(p, "begin")
    BY <1>4 DEF ReadVersion
  <2> QED
    BY <1>4, <2>1, <2>2, <2>3, OutsideStep DEF ReadVersion
<1>5. ASSUME NEW p \in Procs, Begin(p) PROVE IInv'
  <2>1. pc' \in [Procs -> PCs] /\ pc'[p] = "reread" /\ \A q \in Procs \ {p} : pc'[q] = pc[q]
    BY <1>5 DEF IInv, TypeOK, Begin, Goto, PCs, InTransaction
  <2>2. \A q \in Procs : pc[q] \notin InTransaction
    BY <1>5, MigrationAssumption DEF IInv, TypeOK, Begin
  <2>3. TypeOK'
    BY <1>5, <2>1, <2>2 DEF IInv, TypeOK, Begin, InTransaction
  <2>4. \A q \in Procs : Progress(q)'
    BY <1>5, <2>1, <2>2 DEF Begin, Progress, InTransaction, PastKey, PastColumns, PastTables
  <2>5. OpenStoreIsWhole' /\ StampTellsTheTruth'
    BY <1>5, <2>1 DEF IInv, OpenStoreIsWhole, StampTellsTheTruth, Begin, Has
  <2> QED
    BY <2>3, <2>4, <2>5 DEF IInv
<1>6. ASSUME NEW p \in Procs, GiveUp(p) PROVE IInv'
  <2>1. lock # p
    BY <1>6 DEF IInv, TypeOK, GiveUp, InTransaction
  <2> QED
    BY <1>6, <2>1, OutsideStep DEF GiveUp, IInv, TypeOK
<1>7. ASSUME NEW p \in Procs, pc[p] \in InTransaction, Rollback(p) PROVE IInv'
  <2>1. lock = p
    BY <1>7 DEF IInv, TypeOK
  <2> QED
    BY <1>7, <2>1, OutsideStep DEF Rollback, IInv, TypeOK
<1>8. ASSUME NEW p \in Procs, Migrate(p), ~ Commit(p) PROVE IInv'
  <2>1. lock = p /\ work \in Schemas /\ Target[p] \in Nat /\ Target[p] >= StoreSchemaVersion
        /\ pc[p] \in InTransaction
    BY <1>8, MigrationAssumption
    DEF IInv, TypeOK, Migrate, InTransaction, RereadVersion, MigrateKey, MigrateRowIDs,
        BackfillColumns, CreateTables, MigrateContent, Stamp
  <2>2. \A l : Goto(p, l) => pc'[p] = l
    BY DEF IInv, TypeOK, Goto
  <2>3. Progress(p) /\ Has(db, db.version)
    BY DEF IInv, StampTellsTheTruth
  <2>4. CASE RereadVersion(p)
    <3>1. CASE work.version > Target[p]
      BY <1>7, <2>1, <2>4, <3>1 DEF RereadVersion
    <3>2. CASE ~(work.version > Target[p])
      <4>1. Goto(p, "key") /\ UNCHANGED <<db, work, lock>> /\ work = db
        BY <2>3, <2>4, <3>2 DEF RereadVersion, Progress
      <4>2. seen' \in [Procs -> Nat] /\ seen'[p] = db.version /\ db.version <= Target[p]
        BY <1>0, <2>1, <2>4, <3>2, <4>1 DEF RereadVersion, IInv, TypeOK
      <4>3. Progress(p)'
        BY <2>2, <2>3, <4>1, <4>2 DEF Progress, PastKey, PastColumns, PastTables, Has
      <4> QED
        BY <2>1, <4>1, <4>2, <4>3, WorkStep DEF InTransaction
    <3> QED
      BY <3>1, <3>2
  <2>5. CASE MigrateKey(p)
    <3>1. Goto(p, "rowids") /\ UNCHANGED <<db, lock, seen>> /\ pc'[p] = "rowids"
      BY <2>2, <2>5 DEF MigrateKey
    <3>2. seen[p] = db.version /\ seen[p] <= Target[p] /\ Has(work, db.version)
      BY <2>3, <2>5 DEF MigrateKey, Progress, InTransaction
    <3>3. work' \in Schemas /\ Has(work', db.version) /\ work'.key \in {"none", "composite"}
      <4>1. CASE seen[p] < CompositeKeyVersion /\ work.key # "none"
        <5> DEFINE w == [work EXCEPT !.key = "composite"]
        <5>1. w \in Schemas /\ Has(w, db.version) /\ w.key = "composite"
          BY <1>0, <2>1, <3>2 DEF Schemas, Has
        <5>2. work' = Rebuilt(w)
          BY <2>5, <4>1 DEF MigrateKey
        <5> HIDE DEF w
        <5> QED
          BY <1>0, <5>1, <5>2, RebuiltHas
      <4>2. CASE ~(seen[p] < CompositeKeyVersion /\ work.key # "none")
        <5>1. work' = work
          BY <2>5, <4>2 DEF MigrateKey
        <5> QED
          BY <1>0, <2>1, <3>2, <4>2, <5>1 DEF Has
      <4> QED
        BY <4>1, <4>2
    <3>4. Progress(p)'
      BY <3>1, <3>2, <3>3 DEF Progress, PastKey, PastColumns, PastTables, Has
    <3> QED
      BY <2>1, <3>1, <3>3, <3>4, WorkStep DEF InTransaction, IInv, TypeOK
  <2>6. CASE MigrateRowIDs(p)
    <3>1. Goto(p, "columns") /\ UNCHANGED <<db, lock, seen>> /\ pc'[p] = "columns"
      BY <2>2, <2>6 DEF MigrateRowIDs
    <3>2. /\ seen[p] = db.version /\ seen[p] <= Target[p] /\ Has(work, db.version)
          /\ work.key \in {"none", "composite"}
      BY <2>3, <2>6 DEF MigrateRowIDs, Progress, InTransaction, PastKey
    <3>3. work' \in Schemas /\ Has(work', db.version) /\ work'.key = work.key
      BY <1>0, <2>1, <2>6, <3>2, RebuiltHas DEF MigrateRowIDs
    <3>4. Progress(p)'
      BY <3>1, <3>2, <3>3 DEF Progress, PastKey, PastColumns, PastTables, Has
    <3> QED
      BY <2>1, <3>1, <3>3, <3>4, WorkStep DEF InTransaction, IInv, TypeOK
  <2>7. CASE BackfillColumns(p)
    <3>1. Goto(p, "tables") /\ UNCHANGED <<db, lock, seen>> /\ pc'[p] = "tables"
      BY <2>2, <2>7 DEF BackfillColumns
    <3>2. /\ seen[p] = db.version /\ seen[p] <= Target[p] /\ Has(work, db.version)
          /\ work.key \in {"none", "composite"}
      BY <2>3, <2>7 DEF BackfillColumns, Progress, InTransaction, PastKey
    <3>3. /\ work' \in Schemas /\ Has(work', db.version) /\ work'.key = work.key
          /\ work'.sync \in {"none", "full"}
      BY <1>0, <2>1, <2>7, <3>2 DEF BackfillColumns, Schemas, Has
    <3>4. Progress(p)'
      BY <3>1, <3>2, <3>3 DEF Progress, PastKey, PastColumns, PastTables, Has
    <3> QED
      BY <2>1, <3>1, <3>3, <3>4, WorkStep DEF InTransaction, IInv, TypeOK
  <2>8. CASE CreateTables(p)
    <3>1. Goto(p, "content") /\ UNCHANGED <<db, lock, seen>> /\ pc'[p] = "content"
      BY <2>2, <2>8 DEF CreateTables
    <3>2. /\ seen[p] = db.version /\ seen[p] <= Target[p] /\ Has(work, db.version)
          /\ work.key \in {"none", "composite"} /\ work.sync \in {"none", "full"}
      BY <2>3, <2>8 DEF CreateTables, Progress, InTransaction, PastKey, PastColumns
    <3>3. /\ work' \in Schemas /\ Has(work', db.version) /\ work'.key = "composite"
          /\ work'.sync = "full" /\ work'.tables >= Target[p]
      <4>1. /\ work'.key = "composite" /\ work'.sync = "full"
            /\ work'.fts \in {"raw", "byId", "leaf"}
            /\ work.fts = "leaf" => work'.fts = "leaf"
            /\ work'.version = work.version
            /\ work'.tables = Larger(work.tables, Target[p])
        BY <2>1, <2>8, <3>2 DEF CreateTables, Schemas
      <4>2. /\ Larger(work.tables, Target[p]) \in Nat
            /\ Larger(work.tables, Target[p]) >= Target[p]
            /\ Larger(work.tables, Target[p]) >= work.tables
        BY <2>1 DEF Schemas, Larger
      <4>3. work' \in Schemas
        BY <2>1, <2>8, <4>1, <4>2 DEF CreateTables, Schemas
      <4>4. Has(work', db.version)
        BY <1>0, <2>1, <3>2, <4>1, <4>2 DEF Has, Schemas
      <4> QED
        BY <4>1, <4>2, <4>3, <4>4
    <3>4. Progress(p)'
      BY <3>1, <3>2, <3>3 DEF Progress, PastKey, PastColumns, PastTables, Has
    <3> QED
      BY <2>1, <3>1, <3>3, <3>4, WorkStep DEF InTransaction, IInv, TypeOK
  <2>9. CASE MigrateContent(p)
    <3>1. Goto(p, "stamp") /\ UNCHANGED <<db, lock, seen>> /\ pc'[p] = "stamp"
      BY <2>2, <2>9 DEF MigrateContent
    <3>2. /\ seen[p] = db.version /\ seen[p] <= Target[p] /\ Has(work, db.version)
          /\ work.key = "composite" /\ work.sync = "full" /\ work.tables >= Target[p]
      BY <2>3, <2>9 DEF MigrateContent, Progress, InTransaction, PastTables
    <3>3. /\ work' \in Schemas /\ Has(work', db.version) /\ work'.key = "composite"
          /\ work'.sync = "full" /\ work'.tables >= Target[p] /\ work'.fts = "leaf"
      <4>1. CASE seen[p] < FTSContentVersion
        BY <1>0, <2>1, <2>9, <3>2, <4>1, RebuiltHas DEF MigrateContent
      <4>2. CASE ~(seen[p] < FTSContentVersion)
        BY <1>0, <2>1, <2>9, <3>2, <4>2 DEF MigrateContent, Has
      <4> QED
        BY <4>1, <4>2
    <3>4. Progress(p)'
      BY <3>1, <3>2, <3>3 DEF Progress, PastKey, PastColumns, PastTables, Has
    <3> QED
      BY <2>1, <3>1, <3>3, <3>4, WorkStep DEF InTransaction, IInv, TypeOK
  <2>10. CASE Stamp(p)
    <3>1. Goto(p, "commit") /\ UNCHANGED <<db, lock, seen>> /\ pc'[p] = "commit"
      BY <2>2, <2>10 DEF Stamp
    <3>2. /\ seen[p] = db.version /\ seen[p] <= Target[p] /\ Has(work, db.version)
          /\ work.key = "composite" /\ work.sync = "full" /\ work.tables >= Target[p]
          /\ work.fts = "leaf"
      BY <2>3, <2>10 DEF Stamp, Progress, InTransaction, PastTables
    <3>3. /\ work' \in Schemas /\ Has(work', db.version) /\ work'.key = "composite"
          /\ work'.sync = "full" /\ work'.tables >= Target[p] /\ work'.fts = "leaf"
          /\ work'.version = Target[p]
      BY <1>0, <2>1, <2>10, <3>2 DEF Stamp, Schemas, Has
    <3>4. Progress(p)'
      BY <3>1, <3>2, <3>3 DEF Progress, PastKey, PastColumns, PastTables, Has
    <3> QED
      BY <2>1, <3>1, <3>3, <3>4, WorkStep DEF InTransaction, IInv, TypeOK
  <2> QED
    BY <1>8, <2>4, <2>5, <2>6, <2>7, <2>8, <2>9, <2>10 DEF Migrate
<1>9. ASSUME NEW p \in Procs, ~ Commit(p),
             \/ Open(p) \/ Close(p) \/ ReadVersion(p) \/ Begin(p) \/ GiveUp(p)
             \/ Migrate(p) \/ Fail(p)
      PROVE  db' = db
  BY <1>9 DEF Open, Close, ReadVersion, Begin, GiveUp, Migrate, Fail, Rollback, RereadVersion,
              MigrateKey, MigrateRowIDs, BackfillColumns, CreateTables, MigrateContent, Stamp
<1>10. ASSUME NEW p \in Procs, Fail(p) PROVE IInv'
  BY <1>7, <1>10 DEF Fail
<1> QED
  BY <1>0, <1>1, <1>2, <1>3, <1>4, <1>5, <1>6, <1>8, <1>9, <1>10, CommitHolds DEF Next
-----------------------------------------------------------------------------
(* The invariant holds in every reachable state.                              *)
LEMMA Invariance == Spec => []IInv
  BY InitHolds, StepHolds, PTL DEF Spec

(* The variables keep their types, and the lock is held by the one process    *)
(* that is in a transaction.                                                  *)
THEOREM SchemaTypeCorrect == Spec => []TypeOK
<1>1. IInv => TypeOK
  BY DEF IInv
<1> QED
  BY <1>1, Invariance, PTL

(* A committed user_version means a file migrated that far.                   *)
THEOREM StampIsTrue == Spec => []StampTellsTheTruth
<1>1. IInv => StampTellsTheTruth
  BY DEF IInv
<1> QED
  BY <1>1, Invariance, PTL

(* An open store has all its binary knows of, whoever has migrated it since.  *)
THEOREM OpenStoresAreWhole == Spec => []OpenStoreIsWhole
<1>1. IInv => OpenStoreIsWhole
  BY DEF IInv
<1> QED
  BY <1>1, Invariance, PTL

(* No interleaving of binaries of different versions lowers user_version.     *)
THEOREM VersionsGrow == Spec => NeverDowngraded
<1>1. IInv /\ [Next]_vars => [db'.version >= db.version]_vars
  BY StepHolds
<1> QED
  BY <1>1, Invariance, PTL DEF Spec, NeverDowngraded
================================================================================
