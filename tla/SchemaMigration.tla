--------------------------- MODULE SchemaMigration ---------------------------
(* Opening the store: any number of processes, from binaries of different     *)
(* versions, open one SQLite file, and each migrates it to the version its    *)
(* binary understands before it uses it.  The migration runs in one BEGIN     *)
(* IMMEDIATE transaction; what it writes is seen by the others at COMMIT, and *)
(* never if it fails.                                                         *)
EXTENDS Integers

CONSTANTS
    Procs,    \* the processes that open the store
    Target,   \* Target[p]: StoreSchemaVersion of the binary p runs
    NoProc    \* nobody holds the write lock

CompositeKeyVersion == 2      \* the version that keys resources by type and id
FTSContentVersion   == 4      \* resourcesFTSContentSchemaVersion
StoreSchemaVersion  == 9

ASSUME MigrationAssumption ==
    /\ Target \in [Procs -> Nat]
    /\ \A p \in Procs : Target[p] >= StoreSchemaVersion
    /\ NoProc \notin Procs

VARIABLES
    db,      \* the committed schema
    work,    \* the schema as the open transaction sees it
    lock,    \* the process in a write transaction
    pc,      \* pc[p]: what process p does next
    seen     \* seen[p]: the user_version p has read

vars == <<db, work, lock, pc, seen>>

(* version: PRAGMA user_version.  key: the primary key of resources, "none"   *)
(* where there is no such table.  fts: how resources_fts is filled: rowids    *)
(* hashed from the id alone, right rowids over raw JSON, right rowids over    *)
(* the searchable leaves.  sync: sync_state missing, without the columns      *)
(* added later, or whole.  tables: the version whose tables are all there.    *)
Schemas == [version : Nat, key : {"none", "id", "composite"}, fts : {"none", "byId", "raw", "leaf"},
            sync : {"none", "old", "full"}, tables : Nat]

Fresh == [version |-> 0, key |-> "none", fts |-> "none", sync |-> "none", tables |-> 0]

(* A file some earlier binary has left.                                       *)
Legacy ==
    {[version |-> v, key |-> k, fts |-> f, sync |-> y, tables |-> v] :
        v \in 0 .. StoreSchemaVersion, k \in {"id", "composite"},
        f \in {"byId", "raw", "leaf"}, y \in {"none", "old", "full"}}

(* What a file of version v is sure to have.                                  *)
Has(d, v) ==
    /\ v >= CompositeKeyVersion => d.key = "composite"
    /\ v >= FTSContentVersion => d.fts = "leaf"
    /\ v >= StoreSchemaVersion => d.sync = "full"
    /\ d.tables >= v

InTransaction == {"reread", "key", "rowids", "columns", "tables", "content", "stamp", "commit"}
PCs == {"closed", "read", "begin", "open", "failed"} \cup InTransaction

TypeOK ==
    /\ db \in Schemas /\ work \in Schemas
    /\ lock \in Procs \cup {NoProc}
    /\ pc \in [Procs -> PCs]
    /\ seen \in [Procs -> Nat]
    /\ \A p \in Procs : pc[p] \in InTransaction <=> lock = p

Init ==
    /\ db \in {Fresh} \cup {d \in Legacy : Has(d, d.version)}
    /\ work = db
    /\ lock = NoProc
    /\ pc = [p \in Procs |-> "closed"]
    /\ seen = [p \in Procs |-> 0]

Goto(p, l) == pc' = [pc EXCEPT ![p] = l]
-----------------------------------------------------------------------------
Open(p) ==
    /\ pc[p] \in {"closed", "failed"}
    /\ Goto(p, "read")
    /\ UNCHANGED <<db, work, lock, seen>>

Close(p) ==
    /\ pc[p] = "open"
    /\ Goto(p, "closed")
    /\ UNCHANGED <<db, work, lock, seen>>

(* The read before the lock: a newer file is refused at once.                 *)
ReadVersion(p) ==
    /\ pc[p] = "read"
    /\ seen' = [seen EXCEPT ![p] = db.version]
    /\ Goto(p, IF db.version > Target[p] THEN "failed" ELSE "begin")
    /\ UNCHANGED <<db, work, lock>>

(* BEGIN IMMEDIATE.                                                           *)
Begin(p) ==
    /\ pc[p] = "begin"
    /\ lock = NoProc
    /\ lock' = p
    /\ work' = db
    /\ Goto(p, "reread")
    /\ UNCHANGED <<db, seen>>

(* Mutant: the deadline is never looked at.                                   *)
NoDeadline(p) == FALSE

(* The lock was busy until the deadline, or the context was cancelled.        *)
GiveUp(p) ==
    /\ pc[p] = "begin"
    /\ lock # NoProc
    /\ Goto(p, "failed")
    /\ UNCHANGED <<db, work, lock, seen>>

(* Mutant: the transaction stays open on the pinned connection.               *)
NoRollback(p) ==
    /\ Goto(p, "failed")
    /\ UNCHANGED <<db, work, lock, seen>>

Rollback(p) ==
    /\ lock' = NoProc
    /\ Goto(p, "failed")
    /\ UNCHANGED <<db, work, seen>>

(* Mutant: the version read before the lock is trusted.                       *)
NoReread(p) ==
    /\ pc[p] = "reread"
    /\ Goto(p, "key")
    /\ UNCHANGED <<db, work, lock, seen>>

(* The read inside the lock: a peer of a newer binary may have come first.    *)
RereadVersion(p) ==
    /\ pc[p] = "reread"
    /\ IF work.version > Target[p]
       THEN Rollback(p)
       ELSE /\ seen' = [seen EXCEPT ![p] = work.version]
            /\ Goto(p, "key")
            /\ UNCHANGED <<db, work, lock>>

(* rebuildResourcesFTS fills the index anew, whatever it held.                *)
Rebuilt(d) == IF d.key = "none" THEN d ELSE [d EXCEPT !.fts = "leaf"]

(* migrateResourcesCompositeKey                                               *)
MigrateKey(p) ==
    /\ pc[p] = "key"
    /\ work' = IF seen[p] < CompositeKeyVersion /\ work.key # "none"
               THEN Rebuilt([work EXCEPT !.key = "composite"])
               ELSE work
    /\ Goto(p, "rowids")
    /\ UNCHANGED <<db, lock, seen>>

(* migrateResourcesFTSRowIDs                                                  *)
MigrateRowIDs(p) ==
    /\ pc[p] = "rowids"
    /\ work' = IF seen[p] = CompositeKeyVersion THEN Rebuilt(work) ELSE work
    /\ Goto(p, "columns")
    /\ UNCHANGED <<db, lock, seen>>

(* Mutant: CREATE TABLE IF NOT EXISTS is trusted to add the columns.          *)
NoBackfill(p) ==
    /\ pc[p] = "columns"
    /\ Goto(p, "tables")
    /\ UNCHANGED <<db, work, lock, seen>>

(* backfillColumns, which passes over a table that is not there yet.          *)
BackfillColumns(p) ==
    /\ pc[p] = "columns"
    /\ work' = [work EXCEPT !.sync = IF @ = "old" THEN "full" ELSE @]
    /\ Goto(p, "tables")
    /\ UNCHANGED <<db, lock, seen>>

Larger(a, b) == IF a > b THEN a ELSE b

(* The CREATE ... IF NOT EXISTS statements, migrateExtras adding none: what   *)
(* is there stays as it is.                                                   *)
CreateTables(p) ==
    /\ pc[p] = "tables"
    /\ work' = [work EXCEPT !.key    = IF @ = "none" THEN "composite" ELSE @,
                            !.fts    = IF @ = "none" THEN "leaf" ELSE @,
                            !.sync   = IF @ = "none" THEN "full" ELSE @,
                            !.tables = Larger(@, Target[p])]
    /\ Goto(p, "content")
    /\ UNCHANGED <<db, lock, seen>>

(* Mutant: an off-by-one in the gate of the rewrite.                          *)
MigrateContentLate(p) ==
    /\ pc[p] = "content"
    /\ work' = IF seen[p] < FTSContentVersion - 1 THEN Rebuilt(work) ELSE work
    /\ Goto(p, "stamp")
    /\ UNCHANGED <<db, lock, seen>>

(* migrateResourcesFTSContent                                                 *)
MigrateContent(p) ==
    /\ pc[p] = "content"
    /\ work' = IF seen[p] < FTSContentVersion THEN Rebuilt(work) ELSE work
    /\ Goto(p, "stamp")
    /\ UNCHANGED <<db, lock, seen>>

Stamp(p) ==
    /\ pc[p] = "stamp"
    /\ work' = [work EXCEPT !.version = Target[p]]
    /\ Goto(p, "commit")
    /\ UNCHANGED <<db, lock, seen>>

Commit(p) ==
    /\ pc[p] = "commit"
    /\ db' = work
    /\ lock' = NoProc
    /\ Goto(p, "open")
    /\ UNCHANGED <<work, seen>>

(* A statement fails, COMMIT stays busy until the deadline, the context is    *)
(* cancelled or the process is killed: SQLite drops the transaction.          *)
Fail(p) ==
    /\ pc[p] \in InTransaction
    /\ Rollback(p)
-----------------------------------------------------------------------------
Migrate(p) ==
    \/ RereadVersion(p) \/ MigrateKey(p) \/ MigrateRowIDs(p) \/ BackfillColumns(p)
    \/ CreateTables(p) \/ MigrateContent(p) \/ Stamp(p) \/ Commit(p)

Next ==
    \E p \in Procs :
        \/ Open(p) \/ Close(p)
        \/ ReadVersion(p) \/ Begin(p) \/ GiveUp(p)
        \/ Migrate(p) \/ Fail(p)

Spec == Init /\ [][Next]_vars

(* A process goes on with what it has begun; the deadline passes.  Nothing    *)
(* makes SQLite grant the lock to any one of those that wait for it.          *)
LiveSpec ==
    /\ Spec
    /\ \A p \in Procs :
          /\ WF_vars(ReadVersion(p))
          /\ WF_vars(Begin(p) \/ GiveUp(p))
          /\ WF_vars(Migrate(p))
-----------------------------------------------------------------------------
(* The stamp tells the truth: a committed user_version of v means that every  *)
(* rewrite and every table up to v is in the file, whichever binaries have    *)
(* opened it and whichever of their migrations died half way.                 *)
StampTellsTheTruth == Has(db, db.version)

(* A process that holds an open store finds there all its binary knows of,    *)
(* also when a newer binary has migrated the file since.                      *)
OpenStoreIsWhole == \A p \in Procs : pc[p] = "open" => Has(db, Target[p]) /\ db.version >= Target[p]

(* user_version never goes down: an older binary that has read the version    *)
(* before a newer one committed does not stamp its own over it.               *)
NeverDowngraded == [][db'.version >= db.version]_vars

(* Opening ends, in an open store or in an error, even while others keep on   *)
(* taking the lock.                                                           *)
OpeningEnds == \A p \in Procs : pc[p] = "read" ~> pc[p] \in {"open", "failed"}
=============================================================================
