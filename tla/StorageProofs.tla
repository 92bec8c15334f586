---------------------------- MODULE StorageProofs ----------------------------
(***************************************************************************)
(* What the storage of wallets keeps, for any calls, tables, builds and     *)
(* keyfiles.  Migrations: the schema record tells what the tables look      *)
(* like, a client that starts has its rows, and a rollback that failed is   *)
(* final.  Keyfiles: a secret is stored once.  Accounts: memory and the     *)
(* accounts table stay in step, and what was reported is stored.            *)
(***************************************************************************)
EXTENDS MCStorage, SumTheorems, SequenceTheorems, TLAPS

-----------------------------------------------------------------------------
(* Migrations                                                              *)

\* What Follows says of the tables, said of a copy of them.
FollowsIn(s, v) ==
    \A t \in Tables :
        s[t] \in (IF t \in Layout[v] THEN {v, Empty} ELSE {Absent, Empty})

\* The tables that every one of the versions has hold rows in s.
HasRows(s, versions) ==
    \A t \in Tables :
        (\A v \in versions : t \in Layout[v]) => s[t] \notin {Absent, Empty}

\* The versions whose layouts a table must outlast: those that have been, and
\* the one a migration has begun to bring.
Lasting == {v \in Versions : v <= schema.version \/ v = schema.pending}

\* A start that has got through the compatibility check.
Chained ==
    upgrade # "idle" =>
        /\ ChainValid(build) /\ ChainComplete(build)
        /\ schema.version <= Current

Marks ==
    /\ schema.pending \in {0, schema.version + 1}
    /\ schema.pending # 0 => schema.pending \in Versions
    /\ schema.pending # 0 /\ upgrade # "idle" => schema.pending \in Declared[build]
    /\ schema.failed => upgrade = "idle" /\ schema.pending # 0
    /\ upgrade \in {"migrating"} \cup Reverting => schema.pending # 0
    /\ upgrade = "ready" => schema.pending = 0
    /\ upgrade = "backedUp" => Pending # {}

\* The tables: between two versions only those of either hold rows.
DataInv ==
    ~tainted =>
        /\ schema.pending = 0 => FollowsIn(shape, schema.version)
        /\ schema.pending # 0 =>
               \A t \in Tables :
                   \/ t \in Layout[schema.version] \cup Layout[schema.pending]
                   \/ shape[t] \in {Absent, Empty}
        /\ upgrade \notin Reverting /\ ~schema.failed => HasRows(shape, Lasting)

\* The backup: one that was not taken of an interrupted run is a good one.
CopyInv ==
    /\ upgrade \in Reverting /\ ~tainted => ~resumed
    /\ upgrade \in {"backedUp", "migrating"} \cup Reverting /\ ~tainted /\ ~resumed =>
           FollowsIn(backup, schema.version) /\ HasRows(backup, 1..schema.version)

\* How far the loops have come.
LoopInv ==
    /\ upgrade = "opening" => \A t \in todo : shape[t] = Absent
    /\ upgrade = "backedUp" => \A t \in Tables : shape[t] = backup[t]
    /\ upgrade = "migrating" /\ ~tainted =>
           \A t \in Tables \ todo :
               shape[t] \in (IF t \in Layout[schema.pending]
                             THEN {schema.pending, Empty} ELSE {Absent, Empty})
    /\ upgrade = "dropping" /\ ~failures =>
           \A t \in Tables \ todo : backup[t] = Absent => shape[t] = Absent
    /\ upgrade = "restoring" =>
           /\ \A t \in todo : backup[t] # Absent
           /\ clearing # Nothing => clearing \in todo
           /\ ~failures => \A t \in Tables \ todo : shape[t] = backup[t]

\* What the loops visit is in the backup, and nothing else has changed.
CoverInv ==
    upgrade \in {"migrating"} \cup Reverting =>
        /\ todo \subseteq Migratable[build]
        /\ \A t \in Tables \ Migratable[build] : shape[t] = backup[t]

MigrationInv ==
    /\ MigrationTypeOK /\ Chained /\ Marks /\ DataInv /\ CopyInv /\ LoopInv /\ CoverInv

-----------------------------------------------------------------------------
\* A migration that is pending is the one after the stored version, since the
\* declared ones have no gaps.
LEMMA NextIsNext ==
    ASSUME MigrationAssumption, MigrationTypeOK, Chained, upgrade # "idle", Pending # {}
    PROVE  /\ NextMigration = schema.version + 1
           /\ NextMigration \in Versions /\ NextMigration \in Declared[build]
<1> DEFINE n == schema.version + 1
<1>1. build \in Builds /\ schema.version \in Nat /\ Current \in Versions
  BY DEF MigrationAssumption, MigrationTypeOK, Current, Versions
<1>2. PICK v \in Declared[build] : v > schema.version
  BY DEF Pending
<1>3. v \in 2..Current
  BY <1>2 DEF Chained, ChainValid, Current
<1>4. n \in n..Current
  BY <1>1, <1>2, <1>3 DEF Versions
<1>5. n \in Declared[build]
  BY <1>4 DEF Chained, ChainComplete, Current
<1>6. n \in Pending /\ \A u \in Pending : n <= u
  BY <1>1, <1>5 DEF Pending, MigrationAssumption
<1>7. \A w \in Pending : (\A u \in Pending : w <= u) => w = n
  BY <1>1, <1>6 DEF Pending, MigrationAssumption
<1>8. NextMigration = n
  BY <1>6, <1>7 DEF NextMigration
<1> QED
  BY <1>1, <1>4, <1>5, <1>8 DEF Versions, MigrationAssumption

\* Inside a migration, its mark is the migration that runs.
LEMMA MarkedIsNext ==
    ASSUME MigrationAssumption, MigrationTypeOK, Chained, Marks,
           upgrade # "idle", schema.pending # 0
    PROVE  /\ Pending # {} /\ NextMigration = schema.pending
           /\ schema.pending = schema.version + 1
<1>1. schema.pending = schema.version + 1 /\ schema.pending \in Declared[build]
  BY DEF Marks
<1>2. schema.pending \in Pending
  BY <1>1 DEF Pending, MigrationTypeOK, Versions
<1> QED
  BY <1>1, <1>2, NextIsNext

\* The invariant holds of whatever the first start finds.
LEMMA InvInit ==
    ASSUME MigrationAssumption, MigrationInit
    PROVE  MigrationInv
<1>1. 1 \in Versions /\ schema.version = 1 /\ schema.pending = 0
  BY DEF MigrationAssumption, MigrationInit, Versions
<1>2. MigrationTypeOK
  BY <1>1 DEF MigrationTypeOK, MigrationInit, Versions, UpgradePhases, Reverting,
              Verdicts, Absent, Empty
<1>3. Chained /\ Marks /\ CopyInv /\ LoopInv /\ CoverInv
  BY DEF MigrationInit, Chained, Marks, CopyInv, LoopInv, CoverInv, Reverting
<1>4. DataInv
  BY <1>1 DEF MigrationInit, DataInv, FollowsIn, HasRows, Lasting, Absent, Empty
<1> QED
  BY <1>2, <1>3, <1>4 DEF MigrationInv

-----------------------------------------------------------------------------
(* Each conjunct through each action. *)

\* The schema record after a write of it.
Schemas == [version : Versions, pending : Nat, failed : BOOLEAN]

\* A write of the record keeps its type.
LEMMA SchemaWrite ==
    ASSUME NEW s \in Schemas, NEW p \in Nat
    PROVE  /\ [s EXCEPT !.pending = p] \in Schemas
           /\ [s EXCEPT !.failed = TRUE] \in Schemas
           /\ \A v \in Versions : [s EXCEPT !.version = v, !.pending = p] \in Schemas
<1>1. [s EXCEPT !.pending = p] \in Schemas
  BY DEF Schemas
<1>2. ASSUME NEW v \in Versions
      PROVE  [s EXCEPT !.version = v, !.pending = p] \in Schemas
  BY DEF Schemas
<1>3. [s EXCEPT !.failed = TRUE] \in Schemas
  BY DEF Schemas
<1> QED
  BY <1>1, <1>2, <1>3

\* What is written to it belongs there.
LEMMA SchemaStep ==
    ASSUME MigrationAssumption, MigrationTypeOK, Chained, Marks, MigrationNext
    PROVE  schema' \in Schemas
<1>0. schema \in Schemas /\ schema.version \in Versions
  BY DEF MigrationTypeOK, Schemas
<1>1. CASE MarkPendingMigration
  <2>1. NextMigration \in Nat
    BY <1>1, NextIsNext DEF MarkPendingMigration, Marks, Versions
  <2>2. [schema EXCEPT !.pending = NextMigration] \in Schemas
    BY <1>0, <2>1, SchemaWrite
  <2> QED
    BY <1>1, <2>2 DEF MarkPendingMigration
<1>2. CASE SaveVersion
  <2>1. NextMigration \in Versions
    BY <1>2, MarkedIsNext DEF SaveVersion, Marks
  <2>2. [schema EXCEPT !.version = NextMigration, !.pending = 0] \in Schemas
    BY <1>0, <2>1, SchemaWrite
  <2> QED
    BY <1>2, <2>2 DEF SaveVersion
<1>3. CASE StampVersion
  <2>1. Current \in Versions
    BY <1>3 DEF StampVersion, Current, MigrationAssumption, MigrationTypeOK
  <2>2. [schema EXCEPT !.version = Current, !.pending = 0] \in Schemas
    BY <1>0, <2>1, SchemaWrite
  <2> QED
    BY <1>3, <2>2 DEF StampVersion
<1>4. CASE ClearPendingMigration \/ MarkRollbackFailure
  <2>1. [schema EXCEPT !.pending = 0] \in Schemas /\ [schema EXCEPT !.failed = TRUE] \in Schemas
    BY <1>0, SchemaWrite
  <2> QED
    BY <1>0, <1>4, <2>1 DEF ClearPendingMigration, MarkRollbackFailure
<1>5. schema' = schema \/ MarkPendingMigration \/ SaveVersion \/ StampVersion
        \/ ClearPendingMigration \/ MarkRollbackFailure
  BY DEF MigrationNext, Start, TablesOpened, BackUp, StartFails, MigrationFails,
         CreatedTablesDropped, RefillTable, MarkingFailureFails, Stop, OpenTable,
         MigrateTable, DropCreatedTable, ClearTable, RestoreFails
<1> QED
  BY <1>0, <1>1, <1>2, <1>3, <1>4, <1>5

\* Every action keeps the types.
LEMMA TypeStep ==
    ASSUME MigrationAssumption, MigrationTypeOK, Chained, Marks, MigrationNext
    PROVE  MigrationTypeOK'
<1>0. schema' \in [version : Versions, pending : Nat, failed : BOOLEAN]
  BY SchemaStep DEF Schemas
<1>01. upgrade # "idle" => Copied \subseteq Tables
  BY DEF Copied, MigrationAssumption, MigrationTypeOK
<1> USE DEF MigrationTypeOK, UpgradePhases, Reverting, Verdicts, history
<1>1. ASSUME NEW b \in Builds, Start(b)
      PROVE  MigrationTypeOK'
  BY <1>0, <1>1 DEF Start, End, MigrationAssumption
<1>2. CASE TablesOpened \/ BackUp \/ StartFails \/ Stop
  BY <1>0, <1>2 DEF TablesOpened, BackUp, StartFails, Stop, End
<1>3. CASE MarkPendingMigration
  <2>1. NextMigration = schema.version + 1 /\ NextMigration \in Versions
    BY <1>3, NextIsNext DEF MarkPendingMigration, Marks
  <2>2. Touched(NextMigration) \subseteq Tables
    BY <2>1 DEF MigrationAssumption, Versions, Touched
  <2> QED
    BY <1>0, <1>3, <2>2 DEF MarkPendingMigration
<1>4. CASE SaveVersion \/ StampVersion
  BY <1>0, <1>4 DEF SaveVersion, StampVersion, End
<1>5. CASE MigrationFails \/ CreatedTablesDropped
  BY <1>0, <1>01, <1>5 DEF MigrationFails, CreatedTablesDropped
<1>6. CASE RefillTable
  BY <1>0, <1>6 DEF RefillTable
<1>7. CASE ClearPendingMigration \/ MarkRollbackFailure \/ MarkingFailureFails
  BY <1>0, <1>7 DEF ClearPendingMigration, MarkRollbackFailure, MarkingFailureFails, End
<1>8. ASSUME NEW t \in Tables,
             OpenTable(t) \/ DropCreatedTable(t) \/ ClearTable(t) \/ RestoreFails(t)
      PROVE  MigrationTypeOK'
  <2>1. CASE OpenTable(t)
    BY <1>0, <2>1 DEF OpenTable
  <2>2. CASE DropCreatedTable(t)
    BY <1>0, <2>2 DEF DropCreatedTable
  <2>3. CASE ClearTable(t)
    BY <1>0, <2>3 DEF ClearTable
  <2>4. CASE RestoreFails(t)
    BY <1>0, <2>4 DEF RestoreFails
  <2> QED
    BY <1>8, <2>1, <2>2, <2>3, <2>4
<1>9. ASSUME NEW t \in Tables, MigrateTable(t)
      PROVE  MigrationTypeOK'
  <2>1. NextMigration \in Versions
    BY <1>9, MarkedIsNext DEF MigrateTable, Marks
  <2> QED
    BY <1>0, <1>9, <2>1 DEF MigrateTable
<1> QED
  BY <1>1, <1>2, <1>3, <1>4, <1>5, <1>6, <1>7, <1>8, <1>9 DEF MigrationNext

\* A record that is written is read back.
LEMMA SchemaRead ==
    ASSUME NEW s \in Schemas, NEW p
    PROVE  /\ LET r == [s EXCEPT !.pending = p]
              IN  r.version = s.version /\ r.pending = p /\ r.failed = s.failed
           /\ LET r == [s EXCEPT !.failed = TRUE]
              IN  r.version = s.version /\ r.pending = s.pending /\ r.failed
           /\ \A v :
                  LET r == [s EXCEPT !.version = v, !.pending = p]
                  IN  r.version = v /\ r.pending = p /\ r.failed = s.failed
BY DEF Schemas

\* What becomes of the schema record, action by action.
Writes ==
    /\ MarkPendingMigration =>
          /\ schema'.version = schema.version /\ schema'.failed = schema.failed
          /\ schema'.pending = schema.version + 1
    /\ SaveVersion =>
          /\ schema'.version = schema.version + 1 /\ schema'.failed = schema.failed
          /\ schema.pending = schema.version + 1 /\ schema'.pending = 0
    /\ StampVersion =>
          /\ schema'.version = schema.version /\ schema'.failed = schema.failed
          /\ schema.pending = 0 /\ schema'.pending = 0
    /\ ClearPendingMigration =>
          /\ schema'.version = schema.version /\ schema'.failed = schema.failed
          /\ schema'.pending \in {0, schema.pending}
    /\ MarkRollbackFailure =>
          /\ schema'.version = schema.version /\ schema'.failed
          /\ schema'.pending = schema.pending
    /\ \/ UNCHANGED schema
       \/ MarkPendingMigration \/ SaveVersion \/ StampVersion
       \/ ClearPendingMigration \/ MarkRollbackFailure

\* How each step writes the record.
LEMMA SchemaWrites ==
    ASSUME MigrationAssumption, MigrationTypeOK, Chained, Marks, MigrationNext
    PROVE  Writes
<1>0. schema \in Schemas
  BY DEF MigrationTypeOK, Schemas
<1>1. ASSUME MarkPendingMigration
      PROVE  /\ schema'.version = schema.version /\ schema'.failed = schema.failed
             /\ schema'.pending = schema.version + 1
  <2>1. NextMigration = schema.version + 1
    BY <1>1, NextIsNext DEF MarkPendingMigration, Marks
  <2>2. schema' = [schema EXCEPT !.pending = schema.version + 1]
    BY <1>1, <2>1 DEF MarkPendingMigration
  <2> QED
    BY <1>0, <1>1, <2>2, SchemaRead
<1>2. ASSUME SaveVersion
      PROVE  /\ schema'.version = schema.version + 1 /\ schema'.failed = schema.failed
             /\ schema.pending = schema.version + 1 /\ schema'.pending = 0
  <2>1. NextMigration = schema.version + 1 /\ schema.pending = schema.version + 1
    BY <1>2, MarkedIsNext DEF SaveVersion, Marks
  <2>2. schema' = [schema EXCEPT !.version = schema.version + 1, !.pending = 0]
    BY <1>2, <2>1 DEF SaveVersion
  <2> QED
    BY <1>0, <1>2, <2>1, <2>2, SchemaRead
<1>3. ASSUME StampVersion
      PROVE  /\ schema'.version = schema.version /\ schema'.failed = schema.failed
             /\ schema.pending = 0 /\ schema'.pending = 0
  <2>1. Current = schema.version
    <3>1. schema.version <= Current /\ schema.version \in Nat /\ Current \in Nat
      BY <1>3 DEF StampVersion, Chained, MigrationTypeOK, MigrationAssumption,
                  Versions, Current
    <3>2. ASSUME schema.version # Current PROVE FALSE
      <4>1. Current \in schema.version + 1 .. Current
        BY <3>1, <3>2
      <4>2. Current \in Pending
        BY <1>3, <3>1, <3>2, <4>1 DEF StampVersion, Chained, ChainComplete, Pending, Current
      <4> QED
        BY <1>3, <4>2 DEF StampVersion
    <3> QED
      BY <3>2
  <2>2. schema.pending = 0
    BY <1>3, MarkedIsNext DEF StampVersion
  <2>3. schema' = [schema EXCEPT !.version = schema.version, !.pending = 0]
    BY <1>3, <2>1 DEF StampVersion
  <2> QED
    BY <1>0, <1>3, <2>2, <2>3, SchemaRead
<1>4. ASSUME ClearPendingMigration
      PROVE  /\ schema'.version = schema.version /\ schema'.failed = schema.failed
             /\ schema'.pending \in {0, schema.pending}
  <2>1. CASE schema' = [schema EXCEPT !.pending = 0]
    BY <1>0, <2>1, SchemaRead
  <2>2. CASE schema' = schema
    BY <2>2
  <2> QED
    BY <1>4, <2>1, <2>2 DEF ClearPendingMigration
<1>5. ASSUME MarkRollbackFailure
      PROVE  /\ schema'.version = schema.version /\ schema'.failed
             /\ schema'.pending = schema.pending
  <2>1. schema' = [schema EXCEPT !.failed = TRUE]
    BY <1>5 DEF MarkRollbackFailure
  <2> QED
    BY <1>0, <1>5, <2>1, SchemaRead
<1>6. schema' = schema \/ MarkPendingMigration \/ SaveVersion \/ StampVersion
        \/ ClearPendingMigration \/ MarkRollbackFailure
  BY DEF MigrationNext, Start, TablesOpened, BackUp, StartFails, MigrationFails,
         CreatedTablesDropped, RefillTable, MarkingFailureFails, Stop, OpenTable,
         MigrateTable, DropCreatedTable, ClearTable, RestoreFails
<1> QED
  BY <1>1, <1>2, <1>3, <1>4, <1>5, <1>6 DEF Writes

\* The chain checked at the start stays complete while versions are saved.
LEMMA ChainedStep ==
    ASSUME MigrationAssumption, MigrationTypeOK, Chained, Marks, MigrationNext
    PROVE  Chained'
<1>0. Writes /\ schema.version \in Nat /\ (build \in Builds => Current \in Nat)
  BY SchemaWrites DEF MigrationTypeOK, MigrationAssumption, Versions, Current
<1>1. ASSUME NEW b \in Builds, Start(b)
      PROVE  Chained'
  BY <1>1 DEF Start, Compatible, ChainValid, ChainComplete, Chained, Current, End
<1>2. CASE SaveVersion
  <2>1. schema'.version = schema.version + 1 /\ build' = build /\ upgrade # "idle"
    BY <1>0, <1>2 DEF Writes, SaveVersion
  <2>2. build \in Builds /\ schema.version + 1 \in Declared[build]
    BY <1>2, NextIsNext, MarkedIsNext DEF SaveVersion, Marks, MigrationTypeOK
  <2>3. schema.version + 1 <= Current
    BY <1>0, <2>1, <2>2 DEF Chained, ChainValid, Current
  <2> QED
    BY <1>0, <2>1, <2>2, <2>3 DEF Chained, ChainValid, ChainComplete, Current
<1>3. ASSUME ~SaveVersion, \A b \in Builds : ~Start(b)
      PROVE  Chained'
  <2>1. schema'.version = schema.version
    BY <1>0, <1>3 DEF Writes
  <2>2. upgrade' = "idle" \/ (upgrade # "idle" /\ build' = build)
    BY <1>3 DEF MigrationNext, TablesOpened, BackUp, StartFails, MigrationFails, Stop,
         CreatedTablesDropped, RefillTable, MarkingFailureFails, OpenTable,
         MigrateTable, DropCreatedTable, ClearTable, RestoreFails, End, StampVersion,
         MarkPendingMigration, ClearPendingMigration, MarkRollbackFailure, RolledBack,
         MigrationTypeOK
  <2> QED
    BY <2>1, <2>2 DEF Chained, ChainValid, ChainComplete, Current
<1> QED
  BY <1>1, <1>2, <1>3

\* The marks, with what Writes says of the record.
LEMMA MarksStep ==
    ASSUME MigrationAssumption, MigrationTypeOK, Chained, Marks, MigrationNext
    PROVE  Marks'
<1>0. Writes /\ schema.version \in Nat /\ schema.pending \in Nat
  BY SchemaWrites DEF MigrationTypeOK, Versions
<1> USE DEF Marks, Reverting
<1>1. ASSUME NEW b \in Builds, Start(b)
      PROVE  Marks'
  BY <1>1 DEF Start, Compatible, InterruptionResumable, End
<1>2. CASE TablesOpened \/ StartFails \/ CreatedTablesDropped \/ Stop \/ RefillTable
              \/ MigrationFails \/ MarkingFailureFails
  BY <1>2 DEF TablesOpened, StartFails, CreatedTablesDropped, Stop, RefillTable,
              MigrationFails, MarkingFailureFails, End, MigrationTypeOK
<1>3. CASE BackUp
  BY <1>3 DEF BackUp, Pending
<1>4. CASE MarkPendingMigration
  BY <1>0, <1>4, NextIsNext DEF Writes, MarkPendingMigration
<1>5. CASE SaveVersion \/ StampVersion
  BY <1>0, <1>5 DEF Writes, SaveVersion, StampVersion, End
<1>6. CASE ClearPendingMigration \/ MarkRollbackFailure
  BY <1>0, <1>6 DEF Writes, ClearPendingMigration, MarkRollbackFailure, End, RolledBack
<1>7. ASSUME NEW t \in Tables,
             OpenTable(t) \/ MigrateTable(t) \/ DropCreatedTable(t) \/ ClearTable(t)
                \/ RestoreFails(t)
      PROVE  Marks'
  BY <1>7 DEF OpenTable, MigrateTable, DropCreatedTable, ClearTable, RestoreFails
<1> QED
  BY <1>1, <1>2, <1>3, <1>4, <1>5, <1>6, <1>7 DEF MigrationNext

\* The loops.
LEMMA LoopStep ==
    ASSUME MigrationAssumption, MigrationInv, MigrationNext
    PROVE  LoopInv'
<1>0. Writes /\ MigrationTypeOK /\ Chained /\ Marks /\ DataInv /\ LoopInv /\ CoverInv
  BY SchemaWrites DEF MigrationInv
<1>1. ASSUME NEW b \in Builds, Start(b)
      PROVE  LoopInv'
  BY <1>1 DEF LoopInv, Start, End, Present
<1>2. CASE TablesOpened \/ BackUp \/ SaveVersion \/ StampVersion \/ StartFails
             \/ ClearPendingMigration \/ MarkRollbackFailure \/ MarkingFailureFails \/ Stop
  BY <1>2 DEF LoopInv, TablesOpened, BackUp, SaveVersion, StampVersion, StartFails,
       ClearPendingMigration, MarkRollbackFailure, MarkingFailureFails, Stop, End
<1>3. CASE MarkPendingMigration
  <2>1. /\ NextMigration = schema.version + 1
        /\ schema'.pending = schema.version + 1
        /\ schema.version \in Nat
    BY <1>0, <1>3, NextIsNext DEF MarkPendingMigration, Writes, Marks, MigrationTypeOK, Versions
  <2>2. todo' = Layout[schema.version] \cup Layout[schema.version + 1]
    BY <1>3, <2>1 DEF MarkPendingMigration, Touched
  <2>3. ASSUME ~tainted, NEW t \in Tables \ todo'
        PROVE  shape[t] \in {Absent, Empty} /\ t \notin Layout[schema.version + 1]
    BY <1>0, <2>2, <2>3 DEF DataInv, FollowsIn, Marks
  <2> QED
    BY <1>3, <2>1, <2>3 DEF MarkPendingMigration, LoopInv, history
<1>4. CASE MigrationFails
  BY <1>0, <1>4 DEF LoopInv, CoverInv, MigrationFails, Copied, MigrationTypeOK, Present
<1>5. CASE CreatedTablesDropped
  BY <1>0, <1>5 DEF LoopInv, CoverInv, CreatedTablesDropped, Copied, Reverting, MigrationTypeOK
<1>6. CASE RefillTable
  BY <1>0, <1>6 DEF LoopInv, RefillTable, MigrationTypeOK
<1>7. ASSUME NEW t \in Tables, OpenTable(t) \/ DropCreatedTable(t) \/ ClearTable(t)
      PROVE  LoopInv'
  BY <1>0, <1>7 DEF LoopInv, OpenTable, DropCreatedTable, ClearTable, MigrationTypeOK
<1>8. ASSUME NEW t \in Tables, RestoreFails(t)
      PROVE  LoopInv'
  BY <1>0, <1>8 DEF LoopInv, RestoreFails, MigrationTypeOK
<1>9. ASSUME NEW t \in Tables, MigrateTable(t)
      PROVE  LoopInv'
  <2>1. NextMigration = schema.pending
    BY <1>0, <1>9, MarkedIsNext DEF MigrateTable, Marks
  <2> QED
    BY <1>0, <1>9, <2>1 DEF LoopInv, MigrateTable, MigrationTypeOK, history
<1> QED
  BY <1>1, <1>2, <1>3, <1>4, <1>5, <1>6, <1>7, <1>8, <1>9 DEF MigrationNext

\* The migration's tables are in the backup, as the assumption says, and what a
\* rollback drops has changed since the backup.
LEMMA CoverStep ==
    ASSUME MigrationAssumption, MigrationInv, MigrationNext
    PROVE  CoverInv'
<1>0. MigrationTypeOK /\ Chained /\ Marks /\ LoopInv /\ CoverInv
  BY DEF MigrationInv
<1>1. ASSUME NEW b \in Builds, Start(b)
      PROVE  CoverInv'
  BY <1>1 DEF CoverInv, Start, End, Reverting
<1>2. CASE TablesOpened \/ BackUp \/ SaveVersion \/ StampVersion \/ StartFails
             \/ ClearPendingMigration \/ MarkRollbackFailure \/ MarkingFailureFails \/ Stop
  BY <1>2 DEF CoverInv, Reverting, TablesOpened, BackUp, SaveVersion, StampVersion, StartFails,
       ClearPendingMigration, MarkRollbackFailure, MarkingFailureFails, Stop, End
<1>3. CASE MarkPendingMigration
  <2>1. /\ NextMigration = schema.version + 1 /\ NextMigration \in Versions
        /\ NextMigration \in Declared[build] /\ build \in Builds /\ schema.version \in Nat
        /\ schema.version > 0
    BY <1>0, <1>3, NextIsNext
       DEF MarkPendingMigration, Marks, MigrationTypeOK, Versions, MigrationAssumption
  <2>2. Touched(NextMigration) \subseteq Migratable[build]
    BY <2>1 DEF MigrationAssumption
  <2>3. \A t \in Tables : shape[t] = backup[t]
    BY <1>0, <1>3 DEF MarkPendingMigration, LoopInv
  <2> QED
    BY <1>3, <2>2, <2>3 DEF CoverInv, MarkPendingMigration
<1>4. CASE MigrationFails
  BY <1>0, <1>4 DEF CoverInv, MigrationFails, Copied, MigrationTypeOK, Present, Reverting
<1>5. CASE CreatedTablesDropped \/ RefillTable
  BY <1>0, <1>5 DEF CoverInv, LoopInv, CreatedTablesDropped, RefillTable, Copied,
                    MigrationTypeOK, Reverting
<1>6. ASSUME NEW t \in Tables,
             OpenTable(t) \/ MigrateTable(t) \/ DropCreatedTable(t) \/ ClearTable(t)
                \/ RestoreFails(t)
      PROVE  CoverInv'
  BY <1>0, <1>6 DEF CoverInv, OpenTable, MigrateTable, DropCreatedTable, ClearTable,
                    RestoreFails, MigrationTypeOK, Reverting
<1> QED
  BY <1>1, <1>2, <1>3, <1>4, <1>5, <1>6 DEF MigrationNext

\* The backup is taken of good data, unless an interrupted run left the data.
LEMMA CopyStep ==
    ASSUME MigrationAssumption, MigrationInv, MigrationNext
    PROVE  CopyInv'
<1>0. /\ Writes /\ MigrationTypeOK /\ Chained /\ Marks /\ DataInv /\ CopyInv
      /\ schema.version \in Nat
  BY SchemaWrites DEF MigrationInv, MigrationTypeOK, Versions
<1>1. ASSUME NEW b \in Builds, Start(b)
      PROVE  CopyInv'
  BY <1>1 DEF CopyInv, Start, End, Reverting
<1>2. CASE TablesOpened \/ SaveVersion \/ StampVersion \/ StartFails
             \/ ClearPendingMigration \/ MarkRollbackFailure \/ MarkingFailureFails \/ Stop
  BY <1>2 DEF CopyInv, Reverting, TablesOpened, SaveVersion, StampVersion, StartFails,
       ClearPendingMigration, MarkRollbackFailure, MarkingFailureFails, Stop, End
<1>3. CASE BackUp
  <2>1. ASSUME ~tainted, schema.pending = 0
        PROVE  FollowsIn(shape, schema.version) /\ HasRows(shape, 1..schema.version)
    <3>1. FollowsIn(shape, schema.version)
      BY <1>0, <2>1 DEF DataInv
    <3>2. ~schema.failed /\ HasRows(shape, Lasting)
      BY <1>0, <1>3, <2>1 DEF BackUp, DataInv, Marks, Reverting
    <3>3. Lasting \subseteq 1..schema.version
      BY <1>0, <2>1 DEF Lasting, Versions, MigrationAssumption
    <3> QED
      BY <3>1, <3>2, <3>3 DEF HasRows
  <2>2. /\ backup' = shape /\ schema' = schema /\ tainted' = tainted
        /\ resumed' = (schema.pending # 0) /\ upgrade' = "backedUp"
    BY <1>3 DEF BackUp
  <2>3. ASSUME ~tainted', ~resumed'
        PROVE  FollowsIn(backup', schema'.version) /\ HasRows(backup', 1..schema'.version)
    BY <2>1, <2>2, <2>3
  <2> QED
    BY <2>2, <2>3 DEF CopyInv, Reverting, FollowsIn, HasRows
<1>4. CASE MarkPendingMigration
  <2>1. /\ backup' = backup /\ schema'.version = schema.version
        /\ tainted' = tainted /\ resumed' = resumed
        /\ upgrade = "backedUp" /\ upgrade' = "migrating"
    BY <1>0, <1>4 DEF MarkPendingMigration, Writes, history
  <2> QED
    BY <1>0, <2>1 DEF CopyInv, Reverting, FollowsIn, HasRows
<1>5. CASE MigrationFails
  <2>1. /\ backup' = backup /\ schema' = schema
        /\ (~tainted' => ~tainted /\ ~resumed) /\ resumed' = resumed
        /\ upgrade = "migrating"
    BY <1>5 DEF MigrationFails
  <2> QED
    BY <1>0, <2>1 DEF CopyInv, Reverting, FollowsIn, HasRows
<1>6. CASE CreatedTablesDropped \/ RefillTable
  <2>1. /\ backup' = backup /\ schema' = schema /\ tainted' = tainted /\ resumed' = resumed
        /\ upgrade \in Reverting
    BY <1>0, <1>6 DEF CreatedTablesDropped, RefillTable, history, Reverting, MigrationTypeOK
  <2> QED
    BY <1>0, <2>1 DEF CopyInv, Reverting, FollowsIn, HasRows
<1>7. ASSUME NEW t \in Tables,
             OpenTable(t) \/ MigrateTable(t) \/ DropCreatedTable(t) \/ ClearTable(t)
                \/ RestoreFails(t)
      PROVE  CopyInv'
  <2>1. /\ backup' = backup /\ schema' = schema /\ tainted' = tainted /\ resumed' = resumed
        /\ upgrade' = upgrade
    BY <1>7 DEF OpenTable, MigrateTable, DropCreatedTable, ClearTable, RestoreFails, history
  <2> QED
    BY <1>0, <2>1 DEF CopyInv, Reverting, FollowsIn, HasRows
<1> QED
  BY <1>1, <1>2, <1>3, <1>4, <1>5, <1>6, <1>7 DEF MigrationNext

\* The tables.
LEMMA DataStep ==
    ASSUME MigrationAssumption, MigrationInv, MigrationNext
    PROVE  DataInv'
<1>0. /\ Writes /\ MigrationTypeOK /\ Chained /\ Marks /\ DataInv /\ CopyInv /\ LoopInv
      /\ schema.version \in Versions /\ schema.version \in Nat
  BY SchemaWrites DEF MigrationInv, MigrationTypeOK, Versions
<1>1. ASSUME UNCHANGED <<shape, schema>>, tainted' \/ ~tainted,
             tainted' \/ upgrade \notin Reverting \/ upgrade' \in Reverting
      PROVE  DataInv'
  BY <1>0, <1>1 DEF DataInv, FollowsIn, HasRows, Lasting
<1>2. ASSUME NEW b \in Builds, Start(b)
      PROVE  DataInv'
  BY <1>1, <1>2 DEF Start, Reverting, history
<1>3. CASE TablesOpened \/ BackUp \/ StartFails \/ MigrationFails \/ CreatedTablesDropped
             \/ MarkingFailureFails \/ Stop
  BY <1>1, <1>3 DEF TablesOpened, BackUp, StartFails, MigrationFails, CreatedTablesDropped,
                    MarkingFailureFails, Stop, Reverting, history
<1>4. ASSUME NEW t \in Tables, RestoreFails(t)
      PROVE  DataInv'
  BY <1>1, <1>4 DEF RestoreFails, Reverting, history
<1>5. CASE MarkPendingMigration
  <2>1. /\ schema'.pending = schema.version + 1 /\ schema'.version = schema.version
        /\ schema'.failed = schema.failed /\ shape' = shape /\ tainted' = tainted
        /\ upgrade = "backedUp" /\ schema.pending \in {0, schema.version + 1}
    BY <1>0, <1>5 DEF Writes, Marks, MarkPendingMigration, history
  <2>2. Lasting \subseteq Lasting'
    BY <1>0, <2>1 DEF Lasting, Versions
  <2>3. ASSUME ~tainted, NEW t \in Tables,
               t \notin Layout[schema.version] \cup Layout[schema.version + 1]
        PROVE  shape[t] \in {Absent, Empty}
    BY <1>0, <2>1, <2>3 DEF DataInv, FollowsIn
  <2>4. ~tainted /\ ~schema.failed => HasRows(shape, Lasting')
    BY <1>0, <2>1, <2>2 DEF DataInv, HasRows, Reverting
  <2> QED
    BY <1>0, <2>1, <2>3, <2>4 DEF DataInv, HasRows
<1>6. CASE SaveVersion
  <2>1. /\ schema.pending = schema.version + 1 /\ schema'.version = schema.version + 1
        /\ schema'.pending = 0 /\ shape' = shape /\ tainted' = tainted
        /\ schema'.failed = schema.failed /\ upgrade = "migrating" /\ todo = {}
    BY <1>0, <1>6 DEF Writes, SaveVersion, history
  <2>2. Lasting' = Lasting
    BY <1>0, <2>1 DEF Lasting, Versions
  <2>3. ~tainted => FollowsIn(shape, schema.version + 1)
    BY <1>0, <2>1 DEF LoopInv, FollowsIn
  <2>4. ~tainted /\ ~schema.failed => HasRows(shape, Lasting)
    BY <1>0, <2>1 DEF DataInv, Reverting
  <2> QED
    BY <2>1, <2>2, <2>3, <2>4 DEF DataInv, FollowsIn, HasRows
<1>7. CASE StampVersion
  <2>1. /\ schema.pending = 0 /\ schema'.version = schema.version /\ schema'.pending = 0
        /\ shape' = shape /\ tainted' = tainted /\ schema'.failed = schema.failed
        /\ upgrade = "running"
    BY <1>0, <1>7 DEF Writes, StampVersion, history
  <2>2. Lasting' = Lasting
    BY <2>1 DEF Lasting
  <2> QED
    BY <1>0, <2>1, <2>2 DEF DataInv, FollowsIn, HasRows, Reverting
<1>8. CASE ClearPendingMigration
  <2>1. /\ schema'.version = schema.version /\ schema'.failed = schema.failed
        /\ schema'.pending \in {0, schema.pending} /\ shape' = shape
        /\ tainted' = tainted /\ upgrade = "restoring" /\ todo = {} /\ ~failures
    BY <1>0, <1>8 DEF Writes, ClearPendingMigration, RolledBack, history
  <2>2. \A t \in Tables : shape[t] = backup[t]
    BY <1>0, <2>1 DEF LoopInv
  <2>3. ~tainted => FollowsIn(shape, schema.version) /\ HasRows(shape, 1..schema.version)
    BY <1>0, <2>1, <2>2 DEF CopyInv, Reverting, FollowsIn, HasRows
  <2>4. 1..schema.version \subseteq Lasting'
    BY <1>0, <2>1 DEF Lasting, Versions, MigrationAssumption
  <2>5. ~tainted => HasRows(shape, Lasting')
    BY <2>3, <2>4 DEF HasRows
  <2>6. schema'.pending # 0 => schema'.pending = schema.pending
    BY <2>1
  <2> QED
    BY <1>0, <2>1, <2>3, <2>5, <2>6 DEF DataInv, FollowsIn, HasRows
<1>9. CASE MarkRollbackFailure
  <2>1. /\ schema'.version = schema.version /\ schema'.failed
        /\ schema'.pending = schema.pending /\ shape' = shape /\ tainted' = tainted
    BY <1>0, <1>9 DEF Writes, MarkRollbackFailure, history
  <2> QED
    BY <1>0, <2>1 DEF DataInv, FollowsIn
<1>10. ASSUME NEW t \in Tables, NEW row, shape' = [shape EXCEPT ![t] = row],
              UNCHANGED <<schema, tainted, upgrade>>,
              ~tainted /\ schema.pending = 0 =>
                  row \in (IF t \in Layout[schema.version] THEN {schema.version, Empty}
                                                           ELSE {Absent, Empty}),
              ~tainted /\ schema.pending # 0 =>
                  \/ t \in Layout[schema.version] \cup Layout[schema.pending]
                  \/ row \in {Absent, Empty},
              ~tainted /\ upgrade \notin Reverting /\ ~schema.failed =>
                  ((\A v \in Lasting : t \in Layout[v]) => row \notin {Absent, Empty})
       PROVE  DataInv'
  <2>1. \A u \in Tables : shape'[u] = IF u = t THEN row ELSE shape[u]
    BY <1>0, <1>10 DEF MigrationTypeOK
  <2>2. Lasting' = Lasting
    BY <1>10 DEF Lasting
  <2> QED
    BY <1>0, <1>10, <2>1, <2>2 DEF DataInv, FollowsIn, HasRows
<1>11. ASSUME NEW t \in Tables, OpenTable(t)
       PROVE  DataInv'
  <2>1. /\ shape' = [shape EXCEPT ![t] = Empty] /\ UNCHANGED <<schema, tainted, upgrade>>
        /\ shape[t] = Absent /\ upgrade = "opening"
    BY <1>0, <1>11 DEF OpenTable, LoopInv, history
  <2>2. ~tainted /\ ~schema.failed => ~(\A v \in Lasting : t \in Layout[v])
    BY <1>0, <2>1 DEF DataInv, HasRows, Reverting
  <2> QED
    BY <1>10, <2>1, <2>2
<1>12. ASSUME NEW t \in Tables, DropCreatedTable(t) \/ ClearTable(t)
       PROVE  DataInv'
  <2>1. /\ \/ shape' = [shape EXCEPT ![t] = Empty]
           \/ shape' = [shape EXCEPT ![t] = Absent]
           \/ shape' = shape
        /\ UNCHANGED <<schema, tainted, upgrade>>
        /\ upgrade \in Reverting /\ schema.pending # 0
    BY <1>0, <1>12 DEF DropCreatedTable, ClearTable, Marks, Reverting, history
  <2> QED
    BY <1>1, <1>10, <2>1
<1>13. CASE RefillTable
  <2>1. /\ shape' = [shape EXCEPT ![clearing] = backup[clearing]]
        /\ UNCHANGED <<schema, tainted, upgrade>>
        /\ clearing \in Tables /\ upgrade \in Reverting /\ schema.pending # 0
    BY <1>0, <1>13 DEF RefillTable, Marks, Reverting, history, MigrationTypeOK
  <2>2. ~tainted => \/ clearing \in Layout[schema.version]
                    \/ backup[clearing] \in {Absent, Empty}
    BY <1>0, <2>1 DEF CopyInv, FollowsIn
  <2> QED
    BY <1>10, <2>1, <2>2
<1>14. ASSUME NEW t \in Tables, MigrateTable(t)
       PROVE  DataInv'
  <2> DEFINE row == IF t \notin Layout[NextMigration] THEN Absent
                    ELSE IF shape[t] \in {Absent, Empty} THEN Empty
                    ELSE NextMigration
  <2>1. /\ shape' = [shape EXCEPT ![t] = row] /\ UNCHANGED <<schema, tainted, upgrade>>
        /\ upgrade = "migrating" /\ schema.pending # 0
    BY <1>0, <1>14 DEF MigrateTable, Marks, history, MigrationTypeOK
  <2>2. NextMigration = schema.pending /\ schema.pending \in Versions
    BY <1>0, <2>1, MarkedIsNext DEF Marks
  <2>3. t \in Layout[schema.pending] \/ row = Absent
    BY <2>2
  <2>4. ASSUME ~tainted, ~schema.failed, \A v \in Lasting : t \in Layout[v]
        PROVE  row \notin {Absent, Empty}
    <3>1. t \in Layout[schema.pending]
      BY <2>2, <2>4 DEF Lasting
    <3>2. shape[t] \notin {Absent, Empty}
      BY <1>0, <2>1, <2>4 DEF DataInv, HasRows, Reverting
    <3> QED
      BY <2>2, <3>1, <3>2 DEF Versions, Absent, Empty
  <2> HIDE DEF row
  <2> QED
    BY <1>10, <2>1, <2>3, <2>4
<1> QED
  BY <1>2, <1>3, <1>4, <1>5, <1>6, <1>7, <1>8, <1>9, <1>11, <1>12, <1>13, <1>14
     DEF MigrationNext

\* Every step of a start, a migration or a rollback keeps it.
LEMMA InvStep ==
    ASSUME MigrationAssumption, MigrationInv, [MigrationNext]_migrationVars
    PROVE  MigrationInv'
<1>1. CASE MigrationNext
  BY <1>1, TypeStep, ChainedStep, MarksStep, DataStep, CopyStep, LoopStep, CoverStep
     DEF MigrationInv
<1>2. CASE UNCHANGED migrationVars
  BY <1>2 DEF migrationVars, history, MigrationInv, MigrationTypeOK, Chained, ChainValid,
     ChainComplete, Current, Marks, Pending, DataInv, CopyInv, LoopInv, CoverInv, FollowsIn,
     HasRows, Lasting
<1> QED
  BY <1>1, <1>2

-----------------------------------------------------------------------------
(* Theorems *)

\* The inductive invariant of starts, migrations and rollbacks (assertCompatible
\* and run of StorageMigrationRunner), whatever the migrations are.
THEOREM MigrationInvariance == MigrationSpec => []MigrationInv
<1>1. MigrationInit => MigrationInv
  BY InvInit, MigrationAssumption
<1>2. MigrationInv /\ [MigrationNext]_migrationVars => MigrationInv'
  BY InvStep, MigrationAssumption
<1> QED
  BY <1>1, <1>2, PTL DEF MigrationSpec

\* The schema record marks no migration only when the tables are those of its
\* version, unless a rollback went wrong: what assertCompatible of the next start
\* relies on.
THEOREM RecordTellsData == MigrationSpec => []VersionTellsData
<1>1. MigrationInv => VersionTellsData
  BY DEF MigrationInv, DataInv, VersionTellsData, Follows, FollowsIn
<1> QED
  BY <1>1, MigrationInvariance, PTL

\* A client that starts (run of StorageMigrationRunner has returned) has every
\* row that no migration has dropped, unless a rollback went wrong (tainted).
THEOREM RowsAreKept == MigrationSpec => []RowsSurvive
<1>1. ASSUME MigrationAssumption, MigrationInv, upgrade = "ready", ~tainted
      PROVE  RowsLost = {}
  <2>1. /\ schema.pending = 0 /\ ~schema.failed /\ schema.version \in Versions
        /\ HasRows(shape, Lasting)
    BY <1>1 DEF MigrationInv, MigrationTypeOK, Marks, DataInv, Reverting
  <2>2. Lasting \subseteq 1..schema.version
    BY <2>1 DEF Lasting, Versions
  <2> QED
    BY <2>1, <2>2 DEF RowsLost, Keeping, HasRows
<1>2. MigrationInv => RowsSurvive
  BY <1>1, MigrationAssumption DEF RowsSurvive
<1> QED
  BY <1>2, MigrationInvariance, PTL

\* What markRollbackFailure has written is final: every later start is refused
\* before it touches a table, by any build.
THEOREM DamageStays == MigrationSpec => DamageIsSticky
<1>1. ASSUME MigrationInv, MigrationNext, schema.failed
      PROVE  UNCHANGED <<shape, schema>> /\ upgrade' # "ready"
  <2>1. upgrade = "idle" /\ schema.pending # 0 /\ clearing = Nothing
    BY <1>1 DEF MigrationInv, Marks, MigrationTypeOK
  <2>2. PICK b \in Builds : Start(b)
    BY <1>1, <2>1 DEF MigrationNext, TablesOpened, BackUp, MarkPendingMigration,
       SaveVersion, StampVersion, StartFails, MigrationFails, CreatedTablesDropped,
       RefillTable, ClearPendingMigration, MarkRollbackFailure, MarkingFailureFails, Stop,
       OpenTable, MigrateTable, DropCreatedTable, ClearTable, RestoreFails, RolledBack
  <2>3. ~Compatible(b)
    BY <1>1, <2>1 DEF Compatible, InterruptionResumable
  <2> QED
    BY <2>2, <2>3 DEF Start, End
<1>2. ASSUME MigrationInv, UNCHANGED migrationVars, schema.failed
      PROVE  UNCHANGED <<shape, schema>> /\ upgrade' # "ready"
  BY <1>2 DEF migrationVars, MigrationInv, Marks
<1>3. MigrationInv /\ [MigrationNext]_migrationVars =>
        [schema.failed => UNCHANGED <<shape, schema>> /\ upgrade' # "ready"]_migrationVars
  BY <1>1, <1>2
<1> QED
  BY <1>3, MigrationInvariance, PTL DEF MigrationSpec, DamageIsSticky

\* A set of numbers has a least one.
LEMMA HasLeast ==
    ASSUME NEW S \in SUBSET Nat, S # {}
    PROVE  \E k \in S : \A j \in S : k <= j
<1>1. PICK n \in S : TRUE
    OBVIOUS
<1>. DEFINE Bad == {T \in SUBSET (0 .. n) :
                       T \cap S # {} /\ \E k \in 0 .. n : T = 0 .. k}
<1>2. 0 .. n \in Bad
    OBVIOUS
<1>3. PICK T \in Bad : \A x \in T : T \ {x} \notin Bad
    <2>1. IsFiniteSet(0 .. n)
        BY FS_Interval
    <2>2. Bad \in SUBSET SUBSET (0 .. n) /\ Bad # {}
        BY <1>2
    <2>. HIDE DEF Bad
    <2>. QED
        BY <2>1, <2>2, LeastCounterexample
<1>4. PICK k \in 0 .. n : T = 0 .. k
    BY <1>3
<1>5. k \in S
    <2>1. CASE k = 0
        BY <1>3, <1>4, <2>1
    <2>2. CASE k # 0
        <3>1. T \ {k} = 0 .. (k - 1) /\ k - 1 \in 0 .. n
            BY <1>4, <2>2
        <3>2. T \ {k} \notin Bad
            BY <1>3, <1>4
        <3>3. (T \ {k}) \cap S = {}
            BY <3>1, <3>2
        <3>. QED
            BY <1>3, <3>3
    <2>. QED
        BY <2>1, <2>2
<1>6. \A j \in S : k <= j
    <2>1. SUFFICES ASSUME NEW j \in S, j < k PROVE FALSE
        BY <1>4
    <2>2. T \ {k} = 0 .. (k - 1) /\ k - 1 \in 0 .. n /\ j \in T \ {k}
        BY <1>4, <2>1
    <2>3. T \ {k} \in Bad
        BY <2>2
    <2>. QED
        BY <1>3, <1>4, <2>3
<1>. QED
    BY <1>5, <1>6

-----------------------------------------------------------------------------
(* Wallets and their secrets                                               *)

JobRecords ==
    [id : Nat, kind : {"create", "wallet", "accounts"}, secret : Secrets,
     indexes : SUBSET Indexes,
     stage : {"plan", "plan legacy", "persist", "legacy", "fingerprint", "check", "save"}]

\* The types, without the bounds.
KeyfileTypes ==
    /\ issued \in Nat
    /\ signers \subseteq [id : Nat, mark : {"seed", "path"}, secret : Secrets]
    /\ accountRows \subseteq [signer : Nat, key : PrivateKeys]
    /\ imports \subseteq JobRecords
    /\ files \subseteq [secret : Secrets, indexes : SUBSET Indexes]
    /\ modal \in [file : files \cup {NoFile}, asked : files \cup {NoFile},
                  preview : files \cup {NoFile}, existing : BOOLEAN,
                  fresh : SUBSET Indexes]

\* Ids are given out once.
IdsFit ==
    /\ \A s \in signers : 1 <= s.id /\ s.id <= issued
    /\ \A s, t \in signers : s.id = t.id => s = t
    /\ \A r \in accountRows : r.signer <= issued
    /\ \A job \in imports : job.id <= issued

\* An older record is that of an HD wallet with accounts, which tell its root.
OldRecordsTold ==
    \A s \in signers : s.mark = "seed" => s.secret \in HDSecrets /\ RowsOf(s.id) # {}

KindsFit ==
    \A job \in imports :
        /\ job.stage \in {"plan", "plan legacy"} => job.kind # "create"
        /\ job.stage \in {"persist", "legacy", "fingerprint"} => job.kind # "accounts"
        /\ job.stage = "check" => job.kind = "accounts"

\* Under the keys of persist: making a wallet.
Making(job) == job.kind # "accounts" /\ Creating(job)

\* A secret is claimed by one creation, which comes to know that no older
\* record has it and then that none has; who found a signer found its secret.
ClaimsHold ==
    /\ \A j, k \in imports : Making(j) /\ Making(k) /\ j.secret = k.secret => j = k
    /\ \A job \in imports : \A s \in signers :
           /\ Making(job) /\ job.stage = "fingerprint" /\ s.secret = job.secret
                  => s.mark = "path"
           /\ Making(job) /\ job.stage = "save" => s.secret # job.secret
           /\ s.id = job.id => s.secret = job.secret

KeyfileInv ==
    /\ KeyfileTypes /\ IdsFit /\ OldRecordsTold /\ KindsFit /\ ClaimsHold
    /\ OneWalletPerSecret

\* A set of numbers that is not empty has a least one.
LEMMA LeastIsIn ==
    ASSUME NEW S \in SUBSET Nat, S # {}
    PROVE  Least(S) \in S
BY HasLeast DEF Least

\* An HD wallet's secret is no private key.
LEMMA SecretsDiffer ==
    ASSUME NEW secret \in Secrets
    PROVE  secret \in HDSecrets <=> secret \notin PrivateKeys
<1>1. \A h \in HDSecrets : h \notin PrivateKeys
    <2>1. SUFFICES ASSUME NEW h \in HDSecrets, h \in PrivateKeys PROVE FALSE
        OBVIOUS
    <2>2. DOMAIN h = {"seed", "root"} /\ DOMAIN h = {"of", "index"}
        BY <2>1 DEF HDSecrets, PrivateKeys
    <2>. QED
        BY <2>2
<1>. QED
    BY <1>1 DEF Secrets

\* The keys of a secret tell the secret.
LEMMA KeyFacts ==
    ASSUME NEW secret \in Secrets, NEW I \in SUBSET Indexes, NEW k \in Keys(secret, I)
    PROVE  k \in PrivateKeys /\ k = KeyOf(secret, k.index)
<1>1. CASE secret \in PrivateKeys
    BY <1>1 DEF Keys, KeyOf
<1>2. CASE secret \notin PrivateKeys
    BY <1>2, SecretsDiffer DEF Keys, KeyOf, PrivateKeys
<1>. QED
    BY <1>1, <1>2

\* An older record that looks like one of the secret is.
LEMMA LegacyFacts ==
    ASSUME KeyfileInv, NEW secret \in Secrets
    PROVE  \A s \in signers :
               s \in LegacySigners(secret) <=> s.mark = "seed" /\ s.secret = secret
<1>1. ASSUME NEW s \in LegacySigners(secret)
      PROVE  s.mark = "seed" /\ s.secret = secret
    <2>1. /\ secret \in HDSecrets /\ secret \notin PrivateKeys
          /\ s \in signers /\ s.mark = "seed" /\ SameRootPath(s, secret)
        BY <1>1, SecretsDiffer DEF LegacySigners
    <2>2. s.secret \in HDSecrets /\ RowsOf(s.id) # {} /\ s.secret \in Secrets
        BY <2>1 DEF KeyfileInv, OldRecordsTold, KeyfileTypes
    <2>3. s.secret \notin PrivateKeys
        BY <2>2, SecretsDiffer
    <2>. DEFINE indexes == {r.key.index : r \in RowsOf(s.id)}
    <2>4. indexes \in SUBSET Nat
        BY KeyfilesAssumption DEF KeyfileInv, KeyfileTypes, RowsOf, PrivateKeys
    <2>5. Least(indexes) \in indexes
        BY <2>2, <2>4, LeastIsIn
    <2>6. PICK r \in RowsOf(s.id) : r.key.index = Least(indexes)
        BY <2>5
    <2>7. r.key = KeyOf(secret, Least(indexes))
        BY <2>1, <2>2, <2>6 DEF SameRootPath
    <2>8. r.key = KeyOf(s.secret, r.key.index)
        BY <2>1 DEF KeyfileInv, OneWalletPerSecret
    <2>9. r.key.of = secret /\ r.key.of = s.secret
        BY <2>1, <2>3, <2>7, <2>8 DEF KeyOf
    <2>. QED
        BY <2>1, <2>9
<1>2. ASSUME NEW s \in signers, s.mark = "seed", s.secret = secret
      PROVE  s \in LegacySigners(secret)
    <2>1. secret \notin PrivateKeys
        BY <1>2, SecretsDiffer DEF KeyfileInv, OldRecordsTold
    <2>. DEFINE indexes == {r.key.index : r \in RowsOf(s.id)}
    <2>2. \A r \in RowsOf(s.id) :
              r.key.index = Least(indexes) => r.key = KeyOf(secret, Least(indexes))
        BY <1>2 DEF KeyfileInv, OneWalletPerSecret
    <2>3. SameRootPath(s, secret)
        BY <2>2 DEF SameRootPath
    <2>. QED
        BY <1>2, <2>1, <2>3 DEF LegacySigners
<1>. QED
    BY <1>1, <1>2 DEF LegacySigners

\* What looking up a fingerprint finds has the secret.
LEMMA FoundHasSecret ==
    ASSUME KeyfileInv, NEW job \in imports,
           NEW found, found \subseteq {s \in signers : s.secret = job.secret},
           NEW s \in signers, s.id = Id(found)
    PROVE  s.secret = job.secret
<1>1. CASE found = {}
    BY <1>1 DEF Id, Nobody, KeyfileInv, IdsFit, KeyfileTypes
<1>2. CASE found # {}
    <2>. DEFINE t == CHOOSE t \in found : TRUE
    <2>1. t \in found /\ Id(found) = t.id
        BY <1>2 DEF Id
    <2>. HIDE DEF t
    <2>. QED
        BY <2>1 DEF KeyfileInv, IdsFit
<1>. QED
    BY <1>1, <1>2

\* Such an id is one that was given out.
LEMMA FoundId ==
    ASSUME KeyfileInv, NEW found \in SUBSET signers
    PROVE  Id(found) \in Nat /\ Id(found) <= issued
<1>1. CASE found = {}
    BY <1>1 DEF Id, Nobody, KeyfileInv, KeyfileTypes
<1>2. CASE found # {}
    <2>. DEFINE t == CHOOSE t \in found : TRUE
    <2>1. t \in found /\ Id(found) = t.id
        BY <1>2 DEF Id
    <2>. HIDE DEF t
    <2>. QED
        BY <2>1 DEF KeyfileInv, IdsFit, KeyfileTypes
<1>. QED
    BY <1>1, <1>2

\* The storage stands still, and one call goes on to "new", which has its secret.
LEMMA JobKeepsInv ==
    ASSUME KeyfileInv, UNCHANGED <<Storage, files, modal>>,
           NEW job \in imports, NEW new \in JobRecords,
           imports' = (imports \ {job}) \cup {new},
           new.id <= issued, new.secret = job.secret,
           new.stage \in {"plan", "plan legacy"} => new.kind # "create",
           new.stage \in {"persist", "legacy", "fingerprint"} => new.kind # "accounts",
           new.stage = "check" => new.kind = "accounts",
           Making(new) => Making(job) \/ \A k \in imports : Making(k) => k.secret # job.secret,
           Making(new) /\ new.stage = "fingerprint" =>
               \A s \in signers : s.secret = job.secret => s.mark = "path",
           Making(new) /\ new.stage = "save" => \A s \in signers : s.secret # job.secret,
           \A s \in signers : s.id = new.id => s.secret = job.secret
    PROVE  KeyfileInv'
<1>1. KeyfileTypes'
    BY DEF KeyfileInv, KeyfileTypes, Storage
<1>2. IdsFit'
    BY DEF KeyfileInv, IdsFit, Storage
<1>3. OldRecordsTold' /\ OneWalletPerSecret'
    BY DEF KeyfileInv, OldRecordsTold, OneWalletPerSecret, Storage, RowsOf
<1>4. KindsFit'
    BY DEF KeyfileInv, KindsFit
<1>5. ClaimsHold'
    <2>1. \A j, k \in imports' : Making(j) /\ Making(k) /\ j.secret = k.secret => j = k
        <3>1. \A j \in imports : Making(j) /\ Making(new) /\ j # job => j.secret # new.secret
            BY DEF KeyfileInv, ClaimsHold
        <3>. QED
            BY <3>1 DEF KeyfileInv, ClaimsHold
    <2>2. \A j : Making(j)' <=> Making(j)
        BY DEF Making, Creating
    <2>3. signers' = signers
        BY DEF Storage
    <2>. QED
        BY <2>1, <2>2, <2>3 DEF KeyfileInv, ClaimsHold
<1>. QED
    BY <1>1, <1>2, <1>3, <1>4, <1>5 DEF KeyfileInv

\* Calls end, and signers go with their accounts.
LEMMA LessKeepsInv ==
    ASSUME KeyfileInv, imports' \subseteq imports, UNCHANGED <<issued, modal>>,
           files \subseteq files',
           files' \subseteq [secret : Secrets, indexes : SUBSET Indexes],
           \/ UNCHANGED <<signers, accountRows>>
           \/ \E s \in signers : signers' = signers \ {s}
                                 /\ accountRows' = accountRows \ RowsOf(s.id)
    PROVE  KeyfileInv'
<1>1. signers' \subseteq signers /\ accountRows' \subseteq accountRows
    OBVIOUS
<1>2. KeyfileTypes'
    BY <1>1 DEF KeyfileInv, KeyfileTypes
<1>3. IdsFit'
    BY <1>1 DEF KeyfileInv, IdsFit
<1>4. \A s \in signers' : RowsOf(s.id)' = RowsOf(s.id)
    <2>1. CASE UNCHANGED <<signers, accountRows>>
        BY <2>1 DEF RowsOf
    <2>2. ASSUME NEW t \in signers, signers' = signers \ {t},
                 accountRows' = accountRows \ RowsOf(t.id)
          PROVE  \A s \in signers' : RowsOf(s.id)' = RowsOf(s.id)
        <3>1. \A s \in signers' : s.id # t.id
            BY <2>2 DEF KeyfileInv, IdsFit
        <3>. QED
            BY <2>2, <3>1 DEF RowsOf
    <2>. QED
        BY <2>1, <2>2
<1>5. OldRecordsTold'
    BY <1>1, <1>4 DEF KeyfileInv, OldRecordsTold
<1>6. OneWalletPerSecret'
    BY <1>1, <1>4 DEF KeyfileInv, OneWalletPerSecret
<1>7. KindsFit'
    BY DEF KeyfileInv, KindsFit
<1>8. ClaimsHold'
    <2>1. \A j : Making(j)' <=> Making(j)
        BY DEF Making, Creating
    <2>. QED
        BY <1>1, <2>1 DEF KeyfileInv, ClaimsHold
<1>. QED
    BY <1>2, <1>3, <1>5, <1>6, <1>7, <1>8 DEF KeyfileInv

\* A creation or an import begins; nothing is claimed yet.
LEMMA BeginKeepsInv ==
    ASSUME KeyfileInv, UNCHANGED <<Storage, files>>,
           modal' \in {modal, NoModal}, NEW new \in JobRecords,
           imports' = imports \cup {new}, new.id = Nobody,
           \/ new.stage = "plan" /\ new.kind # "create"
           \/ new.stage = "persist" /\ new.kind # "accounts"
    PROVE  KeyfileInv'
<1>1. KeyfileTypes'
    <2>1. modal' \in [file : files \cup {NoFile}, asked : files \cup {NoFile},
                      preview : files \cup {NoFile}, existing : BOOLEAN,
                      fresh : SUBSET Indexes]
        <3>1. CASE modal' = modal
            BY <3>1 DEF KeyfileInv, KeyfileTypes
        <3>2. CASE modal' = NoModal
            BY <3>2 DEF NoModal
        <3>. QED
            BY <3>1, <3>2
    <2>. QED
        BY <2>1 DEF KeyfileInv, KeyfileTypes, Storage
<1>2. IdsFit'
    BY DEF KeyfileInv, KeyfileTypes, IdsFit, Storage, Nobody
<1>3. OldRecordsTold' /\ OneWalletPerSecret'
    BY DEF KeyfileInv, OldRecordsTold, OneWalletPerSecret, Storage, RowsOf
<1>4. KindsFit'
    BY DEF KeyfileInv, KindsFit
<1>5. ClaimsHold'
    <2>1. (\A j : Making(j)' <=> Making(j)) /\ ~Making(new)
        BY DEF Making, Creating
    <2>2. \A s \in signers : s.id # new.id
        BY DEF KeyfileInv, KeyfileTypes, IdsFit, Nobody
    <2>3. signers' = signers
        BY DEF Storage
    <2>. QED
        BY <2>1, <2>2, <2>3 DEF KeyfileInv, ClaimsHold
<1>. QED
    BY <1>1, <1>2, <1>3, <1>4, <1>5 DEF KeyfileInv

\* The modal works on files that were exported.
LEMMA ModalKeepsInv ==
    ASSUME KeyfileInv, UNCHANGED <<Storage, files, imports>>,
           modal' \in [file : files \cup {NoFile}, asked : files \cup {NoFile},
                       preview : files \cup {NoFile}, existing : BOOLEAN,
                       fresh : SUBSET Indexes]
    PROVE  KeyfileInv'
<1>1. KeyfileTypes'
    BY DEF KeyfileInv, KeyfileTypes, Storage
<1>2. IdsFit'
    BY DEF KeyfileInv, IdsFit, Storage
<1>3. OldRecordsTold' /\ OneWalletPerSecret'
    BY DEF KeyfileInv, OldRecordsTold, OneWalletPerSecret, Storage, RowsOf
<1>4. KindsFit'
    BY DEF KeyfileInv, KindsFit
<1>5. ClaimsHold'
    <2>1. \A j : Making(j)' <=> Making(j)
        BY DEF Making, Creating
    <2>. QED
        BY <2>1 DEF KeyfileInv, ClaimsHold, Storage
<1>. QED
    BY <1>1, <1>2, <1>3, <1>4, <1>5 DEF KeyfileInv

\* Opening upgrades a record: it stays the one of its secret.
LEMMA UpgradeKeepsInv ==
    ASSUME KeyfileInv, NEW s \in signers, OpenStored(s)
    PROVE  KeyfileInv'
<1>. DEFINE new == [s EXCEPT !.mark = "path"]
<1>1. /\ signers' = (signers \ {s}) \cup {new}
      /\ UNCHANGED <<accountRows, issued, files, imports, modal>>
    BY DEF OpenStored
<1>2. /\ new \in [id : Nat, mark : {"seed", "path"}, secret : Secrets]
      /\ new.id = s.id /\ new.secret = s.secret /\ new.mark = "path"
    BY DEF KeyfileInv, KeyfileTypes
<1>. HIDE DEF new
<1>3. KeyfileTypes'
    BY <1>1, <1>2 DEF KeyfileInv, KeyfileTypes
<1>4. IdsFit'
    BY <1>1, <1>2 DEF KeyfileInv, IdsFit
<1>5. \A id : RowsOf(id)' = RowsOf(id)
    BY <1>1 DEF RowsOf
<1>6. OldRecordsTold'
    BY <1>1, <1>2, <1>5 DEF KeyfileInv, OldRecordsTold
<1>7. OneWalletPerSecret'
    BY <1>1, <1>2, <1>5 DEF KeyfileInv, OneWalletPerSecret
<1>8. KindsFit'
    BY <1>1 DEF KeyfileInv, KindsFit
<1>9. ClaimsHold'
    <2>1. \A j : Making(j)' <=> Making(j)
        BY DEF Making, Creating
    <2>. QED
        BY <1>1, <1>2, <2>1 DEF KeyfileInv, ClaimsHold
<1>. QED
    BY <1>3, <1>4, <1>6, <1>7, <1>8, <1>9 DEF KeyfileInv

\* A wallet is stored under a new id: nobody has its secret, and nobody else
\* is about to store it.
LEMMA SaveKeepsInv ==
    ASSUME KeyfileInv, NEW job \in imports, SaveWallet(job)
    PROVE  KeyfileInv'
<1>. DEFINE new == [id |-> issued + 1, mark |-> "path", secret |-> job.secret]
<1>1. /\ job.stage = "save" /\ job.kind # "accounts" /\ issued' = issued + 1
      /\ signers' = signers \cup {new}
      /\ accountRows' = accountRows \cup NewRows(issued + 1, job)
      /\ imports' = imports \ {job} /\ UNCHANGED <<files, modal>>
    BY DEF SaveWallet, EndJob
<1>2. /\ issued \in Nat /\ job.secret \in Secrets /\ job.indexes \in SUBSET Indexes
      /\ new \in [id : Nat, mark : {"seed", "path"}, secret : Secrets]
      /\ new.id = issued + 1 /\ new.mark = "path" /\ new.secret = job.secret
      /\ \A j \in imports : j.id \in Nat /\ j.id <= issued
    <2>1. imports \subseteq JobRecords /\ issued \in Nat
        BY DEF KeyfileInv, KeyfileTypes
    <2>2. job.secret \in Secrets /\ job.indexes \in SUBSET Indexes
        BY <2>1 DEF JobRecords
    <2>3. \A j \in imports : j.id \in Nat /\ j.id <= issued
        BY <2>1 DEF JobRecords, KeyfileInv, IdsFit
    <2>. QED
        BY <2>1, <2>2, <2>3
<1>. HIDE DEF new
<1>3. Making(job)
    BY <1>1 DEF Making, Creating
<1>4. \A r \in NewRows(issued + 1, job) :
          /\ r \in [signer : Nat, key : PrivateKeys] /\ r.signer = issued + 1
          /\ r.key = KeyOf(job.secret, r.key.index)
    BY <1>2, KeyFacts DEF NewRows
<1>5. KeyfileTypes'
    BY <1>1, <1>2, <1>4 DEF KeyfileInv, KeyfileTypes
<1>6. IdsFit'
    <2>1. \A r \in accountRows' : r.signer <= issued'
        BY <1>1, <1>2, <1>4 DEF KeyfileInv, KeyfileTypes, IdsFit
    <2>2. \A s \in signers : s.id \in Nat /\ s.id <= issued
        BY DEF KeyfileInv, KeyfileTypes, IdsFit
    <2>3. \A s, t \in signers' : s.id = t.id => s = t
        BY <1>1, <1>2, <2>2 DEF KeyfileInv, IdsFit
    <2>4. \A s \in signers' : 1 <= s.id /\ s.id <= issued'
        BY <1>1, <1>2, <2>2 DEF KeyfileInv, IdsFit
    <2>5. \A j \in imports' : j.id <= issued'
        BY <1>1, <1>2
    <2>. QED
        BY <2>1, <2>3, <2>4, <2>5 DEF IdsFit
<1>7. \A s \in signers : RowsOf(s.id)' = RowsOf(s.id)
    <2>1. \A s \in signers : s.id # issued + 1
        BY <1>2 DEF KeyfileInv, KeyfileTypes, IdsFit
    <2>. QED
        BY <1>1, <1>4, <2>1 DEF RowsOf
<1>8. \A r \in accountRows' : r.signer = new.id => r.key = KeyOf(job.secret, r.key.index)
    <2>1. \A r \in accountRows : r.signer # issued + 1
        BY <1>2 DEF KeyfileInv, KeyfileTypes, IdsFit
    <2>. QED
        BY <1>1, <1>2, <1>4, <2>1
<1>9. \A s \in signers : s.secret # job.secret
    BY <1>1, <1>3 DEF KeyfileInv, ClaimsHold
<1>10. OldRecordsTold'
    BY <1>1, <1>2, <1>7 DEF KeyfileInv, OldRecordsTold
<1>11. OneWalletPerSecret'
    <2>1. \A s, t \in signers' : s.secret = t.secret => s = t
        BY <1>1, <1>2, <1>9 DEF KeyfileInv, OneWalletPerSecret
    <2>2. ASSUME NEW s \in signers', NEW r \in RowsOf(s.id)'
          PROVE  r.key = KeyOf(s.secret, r.key.index)
        <3>1. CASE s \in signers
            BY <1>7, <2>2, <3>1 DEF KeyfileInv, OneWalletPerSecret
        <3>2. CASE s = new
            BY <1>2, <1>8, <2>2, <3>2 DEF RowsOf
        <3>. QED
            BY <1>1, <3>1, <3>2
    <2>. QED
        BY <2>1, <2>2 DEF OneWalletPerSecret
<1>12. KindsFit'
    BY <1>1 DEF KeyfileInv, KindsFit
<1>13. ClaimsHold'
    <2>1. \A j : Making(j)' <=> Making(j)
        BY DEF Making, Creating
    <2>2. \A j \in imports' : Making(j) => j.secret # new.secret
        BY <1>1, <1>2, <1>3 DEF KeyfileInv, ClaimsHold
    <2>3. \A j \in imports' : j.id # new.id
        BY <1>1, <1>2
    <2>. QED
        BY <1>1, <2>1, <2>2, <2>3 DEF KeyfileInv, ClaimsHold
<1>. QED
    BY <1>5, <1>6, <1>10, <1>11, <1>12, <1>13 DEF KeyfileInv

\* Accounts are stored under the signer that was found, which may have gone.
LEMMA SaveAccountsKeepsInv ==
    ASSUME KeyfileInv, NEW job \in imports, SaveAccounts(job)
    PROVE  KeyfileInv'
<1>1. /\ accountRows' = accountRows \cup NewRows(job.id, job)
      /\ imports' = imports \ {job} /\ UNCHANGED <<signers, issued, files, modal>>
    BY DEF SaveAccounts, EndJob
<1>2. /\ job.id \in Nat /\ job.id <= issued
      /\ job.secret \in Secrets /\ job.indexes \in SUBSET Indexes
    BY DEF KeyfileInv, KeyfileTypes, IdsFit, JobRecords
<1>3. \A r \in NewRows(job.id, job) :
          /\ r \in [signer : Nat, key : PrivateKeys] /\ r.signer = job.id
          /\ r.key = KeyOf(job.secret, r.key.index)
    BY <1>2, KeyFacts DEF NewRows
<1>4. KeyfileTypes'
    BY <1>1, <1>3 DEF KeyfileInv, KeyfileTypes
<1>5. IdsFit'
    BY <1>1, <1>2, <1>3 DEF KeyfileInv, IdsFit
<1>6. \A s \in signers : RowsOf(s.id) \subseteq RowsOf(s.id)'
    BY <1>1 DEF RowsOf
<1>7. OldRecordsTold'
    BY <1>1, <1>6 DEF KeyfileInv, OldRecordsTold
<1>8. OneWalletPerSecret'
    <2>1. ASSUME NEW s \in signers, NEW r \in RowsOf(s.id)'
          PROVE  r.key = KeyOf(s.secret, r.key.index)
        <3>1. CASE r \in RowsOf(s.id)
            BY <3>1 DEF KeyfileInv, OneWalletPerSecret
        <3>2. CASE r \notin RowsOf(s.id)
            <4>1. r \in NewRows(job.id, job) /\ r.signer = s.id
                BY <1>1, <2>1, <3>2 DEF RowsOf
            <4>2. s.secret = job.secret
                BY <1>3, <4>1 DEF KeyfileInv, ClaimsHold
            <4>. QED
                BY <1>3, <4>1, <4>2
        <3>. QED
            BY <3>1, <3>2
    <2>. QED
        BY <1>1, <2>1 DEF KeyfileInv, OneWalletPerSecret
<1>9. KindsFit'
    BY <1>1 DEF KeyfileInv, KindsFit
<1>10. ClaimsHold'
    <2>1. \A j : Making(j)' <=> Making(j)
        BY DEF Making, Creating
    <2>. QED
        BY <1>1, <2>1 DEF KeyfileInv, ClaimsHold
<1>. QED
    BY <1>4, <1>5, <1>7, <1>8, <1>9, <1>10 DEF KeyfileInv

\* A call looks something up, takes its keys or ends.
LEMMA ChecksKeepInv ==
    ASSUME KeyfileInv, NEW job \in imports,
           \/ PlanByFingerprint(job) \/ PlanByLegacy(job) \/ BeginPersist(job)
           \/ CheckWallet(job) \/ CheckAccounts(job) \/ ImportFails(job)
    PROVE  KeyfileInv'
<1>1. /\ job \in JobRecords /\ job.id <= issued /\ job.secret \in Secrets
      /\ job.stage \in {"plan", "plan legacy"} => job.kind # "create"
      /\ job.stage \in {"persist", "legacy", "fingerprint"} => job.kind # "accounts"
      /\ job.stage = "check" => job.kind = "accounts"
      /\ \A s \in signers : s.id = job.id => s.secret = job.secret
    BY DEF KeyfileInv, KeyfileTypes, IdsFit, KindsFit, ClaimsHold, JobRecords
<1>2. UNCHANGED <<Storage, files, modal>>
    BY DEF PlanByFingerprint, PlanByLegacy, BeginPersist, CheckWallet, CheckAccounts,
           ImportFails
<1>3. ASSUME EndJob(job) PROVE KeyfileInv'
    BY <1>2, <1>3, LessKeepsInv DEF EndJob, Storage, KeyfileInv, KeyfileTypes
<1>4. ASSUME NEW stage \in {"legacy", "fingerprint", "check", "save"}, To(job, stage)
      PROVE  /\ imports' = (imports \ {job}) \cup {[job EXCEPT !.stage = stage]}
             /\ [job EXCEPT !.stage = stage] \in JobRecords
             /\ [job EXCEPT !.stage = stage].id = job.id
             /\ [job EXCEPT !.stage = stage].secret = job.secret
             /\ [job EXCEPT !.stage = stage].kind = job.kind
             /\ [job EXCEPT !.stage = stage].stage = stage
    BY <1>1, <1>4 DEF To, JobRecords
<1>5. CASE PlanByFingerprint(job)
    <2>. DEFINE id == Id(CurrentSigners(job.secret))
                new == [job EXCEPT !.id = id, !.stage = "plan legacy"]
    <2>1. CurrentSigners(job.secret) \subseteq {s \in signers : s.secret = job.secret}
        BY DEF CurrentSigners
    <2>2. id \in Nat /\ id <= issued
        BY <2>1, FoundId
    <2>3. \A s \in signers : s.id = id => s.secret = job.secret
        BY <2>1, FoundHasSecret
    <2>. HIDE DEF id
    <2>4. imports' = (imports \ {job}) \cup {new} /\ job.stage = "plan"
        BY <1>5 DEF PlanByFingerprint, id
    <2>5. /\ new \in JobRecords /\ new.id = id /\ new.secret = job.secret
          /\ new.kind = job.kind /\ new.stage = "plan legacy"
        BY <1>1, <2>2 DEF JobRecords
    <2>6. ~Making(new)
        BY <2>5 DEF Making, Creating
    <2>. HIDE DEF new
    <2>. QED
        BY <1>1, <1>2, <2>2, <2>3, <2>4, <2>5, <2>6, JobKeepsInv
<1>6. CASE PlanByLegacy(job)
    <2>. DEFINE id == IF job.id # Nobody THEN job.id ELSE Id(LegacySigners(job.secret))
                stage == IF job.kind = "wallet" THEN "persist" ELSE "check"
                new == [job EXCEPT !.id = id, !.stage = stage]
    <2>1. LegacySigners(job.secret) \subseteq {s \in signers : s.secret = job.secret}
        BY <1>1, LegacyFacts DEF LegacySigners
    <2>2. id \in Nat /\ id <= issued
        BY <1>1, <2>1, FoundId DEF JobRecords
    <2>3. \A s \in signers : s.id = id => s.secret = job.secret
        BY <1>1, <2>1, FoundHasSecret
    <2>4. \/ EndJob(job)
          \/ imports' = (imports \ {job}) \cup {new} /\ job.stage = "plan legacy"
        BY <1>6 DEF PlanByLegacy
    <2>. HIDE DEF id
    <2>5. /\ new \in JobRecords /\ new.id = id /\ new.secret = job.secret
          /\ new.kind = job.kind /\ new.stage = stage
        BY <1>1, <2>2 DEF JobRecords
    <2>6. /\ new.stage \in {"persist", "check"}
          /\ new.stage = "persist" => new.kind = "wallet"
          /\ job.stage = "plan legacy" /\ new.stage = "check" => new.kind = "accounts"
        BY <1>1, <2>5 DEF JobRecords
    <2>7. ~Making(new)
        BY <2>6 DEF Making, Creating
    <2>. HIDE DEF new, stage
    <2>8. CASE imports' = (imports \ {job}) \cup {new} /\ job.stage = "plan legacy"
        BY <1>1, <1>2, <2>2, <2>3, <2>5, <2>6, <2>7, <2>8, JobKeepsInv
    <2>. QED
        BY <1>3, <2>4, <2>8
<1>7. CASE BeginPersist(job)
    <2>1. CASE EndJob(job)
        BY <1>3, <2>1
    <2>2. CASE job.stage = "persist" /\ CanPersist(job) /\ To(job, "legacy")
        <3>1. \A k \in imports : Making(k) => k.secret # job.secret
            BY <2>2 DEF CanPersist, Making
        <3>. DEFINE new == [job EXCEPT !.stage = "legacy"]
        <3>2. /\ imports' = (imports \ {job}) \cup {new} /\ new \in JobRecords
              /\ new.id = job.id /\ new.secret = job.secret /\ new.kind = job.kind
              /\ new.stage = "legacy"
            BY <1>4, <2>2
        <3>. HIDE DEF new
        <3>. QED
            BY <1>1, <1>2, <2>2, <3>1, <3>2, JobKeepsInv
    <2>. QED
        BY <1>7, <2>1, <2>2 DEF BeginPersist
<1>8. CASE CheckWallet(job)
    <2>1. CASE EndJob(job)
        BY <1>3, <2>1
    <2>2. CASE job.stage = "legacy" /\ LegacySigners(job.secret) = {}
               /\ To(job, "fingerprint")
        <3>1. \A s \in signers : s.secret = job.secret => s.mark = "path"
            BY <1>1, <2>2, LegacyFacts DEF KeyfileInv, KeyfileTypes
        <3>. DEFINE new == [job EXCEPT !.stage = "fingerprint"]
        <3>2. /\ imports' = (imports \ {job}) \cup {new} /\ new \in JobRecords
              /\ new.id = job.id /\ new.secret = job.secret /\ new.kind = job.kind
              /\ new.stage = "fingerprint"
            BY <1>4, <2>2
        <3>3. Making(job)
            BY <1>1, <2>2 DEF Making, Creating
        <3>. HIDE DEF new
        <3>. QED
            BY <1>1, <1>2, <2>2, <3>1, <3>2, <3>3, JobKeepsInv
    <2>3. CASE job.stage = "fingerprint" /\ CurrentSigners(job.secret) = {}
               /\ To(job, "save")
        <3>1. Making(job)
            BY <1>1, <2>3 DEF Making, Creating
        <3>2. \A s \in signers : s.secret # job.secret
            BY <2>3, <3>1 DEF KeyfileInv, ClaimsHold, CurrentSigners
        <3>. DEFINE new == [job EXCEPT !.stage = "save"]
        <3>3. /\ imports' = (imports \ {job}) \cup {new} /\ new \in JobRecords
              /\ new.id = job.id /\ new.secret = job.secret /\ new.kind = job.kind
              /\ new.stage = "save"
            BY <1>4, <2>3
        <3>. HIDE DEF new
        <3>. QED
            BY <1>1, <1>2, <2>3, <3>1, <3>2, <3>3, JobKeepsInv, ZenonT(30)
    <2>. QED
        BY <1>8, <2>1, <2>2, <2>3 DEF CheckWallet
<1>9. CASE CheckAccounts(job)
    <2>1. CASE EndJob(job)
        BY <1>3, <2>1
    <2>2. CASE job.stage = "check" /\ To(job, "save")
        <3>. DEFINE new == [job EXCEPT !.stage = "save"]
        <3>1. /\ imports' = (imports \ {job}) \cup {new} /\ new \in JobRecords
              /\ new.id = job.id /\ new.secret = job.secret /\ new.kind = job.kind
              /\ new.stage = "save"
            BY <1>4, <2>2
        <3>2. ~Making(new)
            BY <1>1, <2>2, <3>1 DEF Making
        <3>. HIDE DEF new
        <3>. QED
            BY <1>1, <1>2, <3>1, <3>2, JobKeepsInv, ZenonT(30)
    <2>. QED
        BY <1>9, <2>1, <2>2 DEF CheckAccounts
<1>10. CASE ImportFails(job)
    BY <1>3, <1>10 DEF ImportFails
<1>. QED
    BY <1>5, <1>6, <1>7, <1>8, <1>9, <1>10

\* Files come out of stored wallets and go in through the modal.
LEMMA FilesKeepInv ==
    ASSUME KeyfileInv,
           \/ \E secret \in Secrets, i \in Indexes : BeginCreation(secret, i)
           \/ \E s \in signers : RemoveStored(s) \/ ExportKeyfile(s)
           \/ \E f \in files : PickFile(f)
           \/ \E chosen \in SUBSET Indexes : SubmitImport(chosen)
           \/ AskPreview \/ ShowPreview \/ BackToKeyfile \/ CloseModal
    PROVE  KeyfileInv'
<1>1. /\ modal \in [file : files \cup {NoFile}, asked : files \cup {NoFile},
                    preview : files \cup {NoFile}, existing : BOOLEAN,
                    fresh : SUBSET Indexes]
      /\ files \subseteq [secret : Secrets, indexes : SUBSET Indexes]
    BY DEF KeyfileInv, KeyfileTypes
<1>2. ASSUME NEW secret \in Secrets, NEW i \in Indexes, BeginCreation(secret, i)
      PROVE  KeyfileInv'
    <2>. DEFINE new == [id |-> Nobody, kind |-> "create", secret |-> secret,
                        indexes |-> IF secret \in PrivateKeys THEN {} ELSE {i},
                        stage |-> "persist"]
    <2>1. /\ new \in JobRecords /\ new.id = Nobody /\ new.stage = "persist"
          /\ new.kind = "create"
        BY DEF JobRecords, Nobody
    <2>2. imports' = imports \cup {new} /\ UNCHANGED <<Storage, files, modal>>
        BY <1>2 DEF BeginCreation
    <2>. HIDE DEF new
    <2>. QED
        BY <2>1, <2>2, BeginKeepsInv
<1>3. ASSUME NEW s \in signers, RemoveStored(s) PROVE KeyfileInv'
    BY <1>1, <1>3, LessKeepsInv DEF RemoveStored
<1>4. ASSUME NEW s \in signers, ExportKeyfile(s) PROVE KeyfileInv'
    <2>1. Exported(s) \in [secret : Secrets, indexes : SUBSET Indexes]
        BY DEF Exported, KeyfileInv, KeyfileTypes, RowsOf, PrivateKeys
    <2>. QED
        BY <1>1, <1>4, <2>1, LessKeepsInv DEF ExportKeyfile, Storage
<1>5. ASSUME NEW f \in files, PickFile(f) PROVE KeyfileInv'
    BY <1>1, <1>5, ModalKeepsInv DEF PickFile, NoModal
<1>6. ASSUME NEW chosen \in SUBSET Indexes, SubmitImport(chosen) PROVE KeyfileInv'
    <2>. DEFINE f == modal.file
                new == [id |-> Nobody,
                        kind |-> IF modal.existing THEN "accounts" ELSE "wallet",
                        secret |-> f.secret, indexes |-> Selected(f, chosen),
                        stage |-> "plan"]
    <2>1. f \in files
        BY <1>1, <1>6 DEF SubmitImport
    <2>2. CASE Selectable(f, chosen) /\ imports' = imports \cup {new}
               /\ modal' \in {NoModal, modal} /\ UNCHANGED <<Storage, files>>
        <3>1. /\ new \in JobRecords /\ new.id = Nobody /\ new.stage = "plan"
              /\ new.kind # "create"
            BY <1>1, <2>1 DEF JobRecords, Nobody, Selected
        <3>. HIDE DEF new
        <3>. QED
            BY <2>2, <3>1, BeginKeepsInv
    <2>3. CASE UNCHANGED <<imports, modal, Storage, files>>
        BY <1>1, <2>3, ModalKeepsInv
    <2>. QED
        BY <1>6, <2>2, <2>3 DEF SubmitImport, BeginFileImport
<1>7. CASE AskPreview
    BY <1>1, <1>7, ModalKeepsInv DEF AskPreview
<1>8. CASE ShowPreview
    <2>1. modal.asked \in files
        BY <1>1, <1>8 DEF ShowPreview
    <2>2. NewAccounts(modal.asked) \in SUBSET Indexes
        BY <1>1, <2>1 DEF NewAccounts
    <2>. QED
        BY <1>1, <1>8, <2>1, <2>2, ModalKeepsInv DEF ShowPreview
<1>9. CASE BackToKeyfile
    BY <1>1, <1>9, ModalKeepsInv DEF BackToKeyfile, NoModal
<1>10. CASE CloseModal
    BY <1>1, <1>10, ModalKeepsInv DEF CloseModal, NoModal
<1>. QED
    BY <1>2, <1>3, <1>4, <1>5, <1>6, <1>7, <1>8, <1>9, <1>10

\* The storage of an older build.
LEMMA KeyfilesInitInv ==
    ASSUME KeyfilesInit
    PROVE  KeyfileInv
<1>1. PICK S \in {{}} \cup {{m} : m \in Seeds}, root \in Roots, i \in Indexes :
          /\ issued = Cardinality(S)
          /\ signers = {[id |-> 1, mark |-> "seed",
                         secret |-> [seed |-> m, root |-> root]] : m \in S}
          /\ accountRows = {[signer |-> 1,
                     key |-> KeyOf([seed |-> m, root |-> root], i)] : m \in S}
    BY DEF KeyfilesInit
<1>2. files = {} /\ imports = {} /\ modal = NoModal
    BY DEF KeyfilesInit
<1>3. /\ modal \in [file : files \cup {NoFile}, asked : files \cup {NoFile},
                    preview : files \cup {NoFile}, existing : BOOLEAN,
                    fresh : SUBSET Indexes]
      /\ KindsFit /\ ClaimsHold
    BY <1>2 DEF NoModal, KindsFit, ClaimsHold
<1>4. CASE S = {}
    <2>1. signers = {} /\ accountRows = {} /\ issued = 0
        BY <1>1, <1>4, FS_EmptySet
    <2>. QED
        BY <1>2, <1>3, <2>1 DEF KeyfileInv, KeyfileTypes, IdsFit, OldRecordsTold,
                               OneWalletPerSecret
<1>5. ASSUME NEW m \in Seeds, S = {m} PROVE KeyfileInv
    <2>. DEFINE secret == [seed |-> m, root |-> root]
                s == [id |-> 1, mark |-> "seed", secret |-> secret]
                r == [signer |-> 1, key |-> [of |-> secret, index |-> i]]
    <2>1. secret \in HDSecrets /\ secret \in Secrets /\ secret \notin PrivateKeys
        BY SecretsDiffer DEF HDSecrets, Secrets
    <2>2. KeyOf(secret, i) = [of |-> secret, index |-> i]
        BY <2>1 DEF KeyOf
    <2>3. signers = {s} /\ accountRows = {r} /\ issued = 1
        <3>1. Cardinality({m}) = 1
            BY FS_Singleton
        <3>2. signers = {s}
            BY <1>1, <1>5
        <3>3. accountRows = {r}
            BY <1>1, <1>5, <2>2
        <3>. QED
            BY <1>1, <1>5, <3>1, <3>2, <3>3
    <2>4. /\ s \in [id : Nat, mark : {"seed", "path"}, secret : Secrets]
          /\ s.id = 1 /\ s.secret = secret
          /\ r \in [signer : Nat, key : PrivateKeys] /\ r.signer = 1
          /\ r.key.index = i /\ r.key = KeyOf(secret, i)
        BY <2>1, <2>2 DEF PrivateKeys
    <2>. HIDE DEF secret, s, r
    <2>5. RowsOf(s.id) = {r}
        BY <2>3, <2>4 DEF RowsOf
    <2>6. KeyfileTypes
        BY <1>2, <1>3, <2>3, <2>4 DEF KeyfileTypes
    <2>7. IdsFit
        BY <1>2, <2>3, <2>4 DEF IdsFit
    <2>8. OldRecordsTold /\ OneWalletPerSecret
        BY <2>1, <2>3, <2>4, <2>5 DEF OldRecordsTold, OneWalletPerSecret
    <2>. QED
        BY <1>3, <2>6, <2>7, <2>8 DEF KeyfileInv
<1>. QED
    BY <1>1, <1>4, <1>5

\* Whatever is created, imported, opened and removed at once, a secret is
\* claimed by one call and stored by it only when nobody has it.
THEOREM KeyfileInvariance == KeyfilesSpec => []KeyfileInv
<1>1. ASSUME KeyfileInv, [KeyfilesNext]_keyfileVars PROVE KeyfileInv'
    <2>1. CASE UNCHANGED keyfileVars
        BY <1>1, <2>1, ModalKeepsInv
           DEF keyfileVars, Storage, KeyfileInv, KeyfileTypes
    <2>2. ASSUME KeyfilesNext PROVE KeyfileInv'
        BY <1>1, <2>2, ChecksKeepInv, SaveKeepsInv, SaveAccountsKeepsInv,
           UpgradeKeepsInv, FilesKeepInv DEF KeyfilesNext
    <2>. QED
        BY <1>1, <2>1, <2>2
<1>. QED
    BY <1>1, KeyfilesInitInv, PTL DEF KeyfilesSpec

\* For any number of wallets, keyfiles and imports, a secret is stored once,
\* and the accounts of a signer are keys of its secret.
THEOREM SecretsAreStoredOnce == KeyfilesSpec => []OneWalletPerSecret
<1>1. KeyfileInv => OneWalletPerSecret
    BY DEF KeyfileInv
<1>. QED
    BY <1>1, KeyfileInvariance, PTL

\* The bounds of a run, and whom rows and additions name: a signer, not nobody.
\* A call that adds accounts has found the one it adds them to.
KeyfileBounds ==
    /\ issued <= MaxSigners
    /\ \A r \in accountRows : 1 <= r.signer
    /\ \A job \in imports :
           job.kind = "accounts" /\ job.stage \in {"check", "save"} => 1 <= job.id

\* A call that looks something up keeps its kind, and one that goes on to add
\* accounts has an id.
LEMMA ChecksKeepBounds ==
    ASSUME KeyfileInv, KeyfileBounds, NEW job \in imports,
           \/ PlanByFingerprint(job) \/ PlanByLegacy(job) \/ BeginPersist(job)
           \/ CheckWallet(job) \/ CheckAccounts(job) \/ ImportFails(job)
    PROVE  KeyfileBounds'
<1>1. /\ job \in JobRecords /\ job.id \in Nat
      /\ job.stage \in {"plan", "plan legacy"} => job.kind # "create"
      /\ job.stage \in {"persist", "legacy", "fingerprint"} => job.kind # "accounts"
      /\ job.stage = "check" => job.kind = "accounts"
    BY DEF KeyfileInv, KeyfileTypes, KindsFit, JobRecords
<1>2. UNCHANGED <<signers, accountRows, issued>>
    BY DEF PlanByFingerprint, PlanByLegacy, BeginPersist, CheckWallet, CheckAccounts,
           ImportFails, Storage
<1>3. ASSUME EndJob(job) PROVE KeyfileBounds'
    BY <1>2, <1>3 DEF EndJob, KeyfileBounds
<1>4. ASSUME NEW job1, imports' = (imports \ {job}) \cup {job1},
             job1.kind = "accounts" /\ job1.stage \in {"check", "save"} => 1 <= job1.id
      PROVE  KeyfileBounds'
    BY <1>2, <1>4 DEF KeyfileBounds
<1>5. ASSUME NEW stage, To(job, stage),
             job.kind = "accounts" /\ stage \in {"check", "save"} => 1 <= job.id
      PROVE  KeyfileBounds'
    <2>. DEFINE job1 == [job EXCEPT !.stage = stage]
    <2>1. job1.kind = job.kind /\ job1.stage = stage /\ job1.id = job.id
        BY <1>1 DEF JobRecords
    <2>2. imports' = (imports \ {job}) \cup {job1}
        BY <1>5 DEF To
    <2>. HIDE DEF job1
    <2>. QED
        BY <1>4, <1>5, <2>1, <2>2
<1>6. CASE PlanByFingerprint(job)
    <2>. DEFINE job1 == [job EXCEPT !.id = Id(CurrentSigners(job.secret)),
                                    !.stage = "plan legacy"]
    <2>1. job1.stage = "plan legacy"
        BY <1>1 DEF JobRecords
    <2>2. imports' = (imports \ {job}) \cup {job1}
        BY <1>6 DEF PlanByFingerprint
    <2>. HIDE DEF job1
    <2>. QED
        BY <1>4, <2>1, <2>2
<1>7. CASE PlanByLegacy(job)
    <2>. DEFINE id == IF job.id # Nobody THEN job.id ELSE Id(LegacySigners(job.secret))
                job1 == [job EXCEPT !.id = id,
                            !.stage = IF job.kind = "wallet" THEN "persist" ELSE "check"]
    <2>1. LegacySigners(job.secret) \in SUBSET signers
        BY DEF LegacySigners
    <2>2. id \in Nat
        BY <1>1, <2>1, FoundId
    <2>3. job1.kind = job.kind /\ job1.id = id
        BY <1>1 DEF JobRecords
    <2>4. \/ EndJob(job)
          \/ /\ job.kind = "wallet" <=> id = Nobody
             /\ imports' = (imports \ {job}) \cup {job1}
        BY <1>7 DEF PlanByLegacy
    <2>. HIDE DEF id, job1
    <2>5. job.kind = "accounts" /\ (job.kind = "wallet" <=> id = Nobody) => 1 <= id
        BY <2>2 DEF Nobody
    <2>. QED
        BY <1>3, <1>4, <2>3, <2>4, <2>5
<1>8. CASE BeginPersist(job)
    BY <1>3, <1>5, <1>8 DEF BeginPersist
<1>9. CASE CheckWallet(job)
    BY <1>1, <1>3, <1>5, <1>9 DEF CheckWallet
<1>10. CASE CheckAccounts(job)
    <2>1. job.kind = "accounts" /\ job.stage = "check" => 1 <= job.id
        BY DEF KeyfileBounds
    <2>. QED
        BY <1>1, <1>3, <1>5, <1>10, <2>1 DEF CheckAccounts
<1>11. CASE ImportFails(job)
    BY <1>3, <1>11 DEF ImportFails
<1>. QED
    BY <1>6, <1>7, <1>8, <1>9, <1>10, <1>11

\* Rows are stored under an id that was given out, to a signer or to a call.
LEMMA RowsKeepBounds ==
    ASSUME KeyfileInv, KeyfileBounds, NEW job \in imports,
           SaveWallet(job) \/ SaveAccounts(job)
    PROVE  KeyfileBounds'
<1>1. issued \in Nat /\ imports' = imports \ {job}
    BY DEF KeyfileInv, KeyfileTypes, SaveWallet, SaveAccounts, EndJob
<1>2. \A id, r : r \in NewRows(id, job) => r.signer = id
    BY DEF NewRows
<1>3. CASE SaveWallet(job)
    <2>1. issued < MaxSigners /\ issued' = issued + 1
            /\ accountRows' = accountRows \cup NewRows(issued + 1, job)
        BY <1>3 DEF SaveWallet
    <2>. QED
        BY <1>1, <1>2, <2>1, KeyfilesAssumption DEF KeyfileBounds, KeyfilesAssumption
<1>4. CASE SaveAccounts(job)
    <2>1. job.stage = "save" /\ job.kind = "accounts" /\ issued' = issued
            /\ accountRows' = accountRows \cup NewRows(job.id, job)
        BY <1>4 DEF SaveAccounts
    <2>. QED
        BY <1>1, <1>2, <2>1 DEF KeyfileBounds
<1>. QED
    BY <1>3, <1>4

\* Ids and files stay within the bounds of the guards, ...
LEMMA BoundsKept ==
    ASSUME KeyfileInv, KeyfileBounds, [KeyfilesNext]_keyfileVars
    PROVE  KeyfileBounds'
<1>1. ASSUME issued' = issued, accountRows' \subseteq accountRows,
             \A job \in imports' : job \in imports \/ job.stage \in {"plan", "persist"}
      PROVE  KeyfileBounds'
    BY <1>1 DEF KeyfileBounds
<1>2. CASE \E secret \in Secrets, i \in Indexes : BeginCreation(secret, i)
    BY <1>1, <1>2 DEF BeginCreation, Storage
<1>3. CASE \E chosen \in SUBSET Indexes : SubmitImport(chosen)
    BY <1>1, <1>3 DEF SubmitImport, BeginFileImport, Storage
<1>4. CASE \E s \in signers : OpenStored(s) \/ RemoveStored(s) \/ ExportKeyfile(s)
    BY <1>1, <1>4 DEF OpenStored, RemoveStored, ExportKeyfile, Storage
<1>5. CASE \/ \E f \in files : PickFile(f)
           \/ AskPreview \/ ShowPreview \/ BackToKeyfile \/ CloseModal
           \/ UNCHANGED keyfileVars
    BY <1>1, <1>5 DEF PickFile, AskPreview, ShowPreview, BackToKeyfile, CloseModal,
                      Storage, keyfileVars
<1>. QED
    BY <1>2, <1>3, <1>4, <1>5, ChecksKeepBounds, RowsKeepBounds DEF KeyfilesNext

\* ... as they are before anything was created.
LEMMA BoundsBegin ==
    ASSUME KeyfilesInit
    PROVE  KeyfileBounds
<1>1. PICK S \in {{}} \cup {{m} : m \in Seeds}, root \in Roots, i \in Indexes :
          /\ issued = Cardinality(S)
          /\ accountRows = {[signer |-> 1,
                     key |-> KeyOf([seed |-> m, root |-> root], i)] : m \in S}
    BY DEF KeyfilesInit
<1>2. Cardinality(S) \in {0, 1}
    BY FS_EmptySet, FS_Singleton
<1>3. ASSUME NEW r \in accountRows PROVE r.signer = 1
    <2>1. PICK m \in S : r = [signer |-> 1, key |-> KeyOf([seed |-> m, root |-> root], i)]
        BY <1>1
    <2>. QED
        BY <2>1
<1>4. issued \in {0, 1} /\ imports = {}
    BY <1>1, <1>2 DEF KeyfilesInit
<1>5. MaxSigners \in Nat \ {0}
    BY KeyfilesAssumption DEF KeyfilesAssumption
<1>6. issued <= MaxSigners
    BY <1>4, <1>5
<1>. QED
    BY <1>3, <1>4, <1>6 DEF KeyfileBounds

\* The signers, rows and calls of a run are what the types say, within its
\* bounds: a stored account names a signer, and so does a call that adds one.
THEOREM KeyfilesTyped == KeyfilesSpec => []KeyfilesTypeOK
<1>1. KeyfilesInit => KeyfileBounds
    BY BoundsBegin
<1>2. KeyfileInv /\ KeyfileBounds /\ [KeyfilesNext]_keyfileVars => KeyfileBounds'
    BY BoundsKept
<1>3. ASSUME KeyfileInv, KeyfileBounds PROVE KeyfilesTypeOK
    <2>1. MaxSigners \in Nat
        BY KeyfilesAssumption DEF KeyfilesAssumption
    <2>2. issued \in 0 .. MaxSigners
        BY <1>3, <2>1 DEF KeyfileInv, KeyfileTypes, KeyfileBounds
    <2>3. ASSUME NEW s \in signers
          PROVE  s \in [id : 1 .. MaxSigners, mark : {"seed", "path"}, secret : Secrets]
        <3>1. s \in [id : Nat, mark : {"seed", "path"}, secret : Secrets]
                /\ 1 <= s.id /\ s.id <= issued
            BY <1>3 DEF KeyfileInv, KeyfileTypes, IdsFit
        <3>. QED
            BY <2>1, <2>2, <3>1
    <2>4. ASSUME NEW r \in accountRows
          PROVE  r \in [signer : 1 .. MaxSigners, key : PrivateKeys]
        <3>1. r \in [signer : Nat, key : PrivateKeys] /\ 1 <= r.signer /\ r.signer <= issued
            BY <1>3 DEF KeyfileInv, KeyfileTypes, IdsFit, KeyfileBounds
        <3>. QED
            BY <2>1, <2>2, <3>1
    <2>5. ASSUME NEW job \in imports
          PROVE  job \in [id : 0 .. MaxSigners, kind : {"create", "wallet", "accounts"},
                          secret : Secrets, indexes : SUBSET Indexes,
                          stage : {"plan", "plan legacy", "persist", "legacy",
                                   "fingerprint", "check", "save"}]
        <3>1. job \in JobRecords /\ job.id <= issued
            BY <1>3 DEF KeyfileInv, KeyfileTypes, IdsFit
        <3>2. job.id \in Nat
            BY <3>1 DEF JobRecords
        <3>3. job.id \in 0 .. MaxSigners
            BY <2>1, <2>2, <3>1, <3>2
        <3>4. \A K, X, I, S, N, r :
                  r \in [id : Nat, kind : K, secret : X, indexes : I, stage : S] /\ r.id \in N
                      => r \in [id : N, kind : K, secret : X, indexes : I, stage : S]
            OBVIOUS
        <3>. QED
            BY <3>1, <3>3, <3>4, Zenon DEF JobRecords
    <2>. QED
        BY <1>3, <2>2, <2>3, <2>4, <2>5 DEF KeyfilesTypeOK, KeyfileInv, KeyfileTypes
<1>. QED
    BY <1>1, <1>2, <1>3, KeyfileInvariance, PTL DEF KeyfilesSpec

-----------------------------------------------------------------------------
(* The accounts of a wallet                                                *)

RowSets == UNION {[D -> {Given} \cup Calls] : D \in SUBSET Accounts}

CallRecords ==
    [stage : Stages, wallet : Nat, account : Accounts, view : RowSets]

Removals ==
    [stage : {"none", "draining", "deleting", "rowsDeleted"}, wallet : Nat, view : RowSets,
     gone : SUBSET Accounts]

\* The types, without the bounds of the runs.
AccountTypes ==
    /\ rowsStored \in RowSets
    /\ signerStored \in BOOLEAN /\ creating \in BOOLEAN
    /\ wallets \in Seq(RowSets)
    /\ current \in {0, Len(wallets)}
    /\ \A rows \in opener : rows \in RowSets
    /\ removal \in Removals
    /\ calls \in [Calls -> CallRecords]

Stage(c) == calls[c].stage
Target(c) == calls[c].account
InWriting == {"saving", "writing"}

\* The wallet is being created, open, being opened or being removed.
PlacesFit ==
    /\ creating => /\ current = 0 /\ Len(wallets) = 0 /\ opener = {} /\ ~Suspended
                   /\ \A c \in Calls : Stage(c) = "idle" \/ (Kind[c] = "import" /\ signerStored)
    /\ opener # {} => current = 0 /\ ~Suspended /\ signerStored
    /\ current # 0 => ~Suspended /\ signerStored
    /\ Suspended => removal.wallet = Len(wallets) /\ Len(wallets) # 0 /\ signerStored

\* The stages and the accounts of the calls of each kind.
CallsFit ==
    \A c \in Calls :
        /\ Kind[c] = "derive" =>
               /\ Stage(c) \notin {"checking", "stored"}
               /\ Stage(c) \notin {"idle", "failed"} => calls[c].wallet \in 1 .. Len(wallets)
               /\ Stage(c) \in {"deriving", "saving", "writing", "done"} => Target(c)[1] = c
        /\ Kind[c] = "import" =>
               /\ Stage(c) # "deriving"
               /\ Stage(c) # "idle" => Target(c) = <<c, Wanted[c]>>
        /\ Kind[c] \in {"rename", "remove"} =>
               Stage(c) \in {"idle", "saving", "writing", "done", "failed"}

AccountsBase == AccountTypes /\ PlacesFit /\ CallsFit

\* What was reported stays until it is asked to go.
ReportsHold ==
    signerStored /\ removal.stage # "rowsDeleted" /\ Without({"lost", "torn"}) =>
        \A c \in Calls : Kind[c] \in {"derive", "import"} /\ Stage(c) \in {"stored", "done"}
            => Target(c) \in In(rowsStored) \cup AskedToGo

\* No derivation failed, and no call crossed a write or an opening unseen.
Steady ==
    /\ Without({"reopened", "lost"})
    /\ \A c \in Calls : Kind[c] = "derive" => Stage(c) # "failed"

\* Nor did any other call fail.
Clean == Without({"failed", "reopened", "lost", "crashed"})

\* An account that memory has, or has had, was put there by its call ...
Made(a) ==
    a[1] \in Calls =>
        \/ Kind[a[1]] = "derive" /\ Stage(a[1]) \in {"saving", "writing", "done"}
        \/ Kind[a[1]] = "import" /\ Stage(a[1]) \in {"done", "failed"}

\* ... and one that is stored may be on its way there.
Written(a) == Made(a) \/ (a[1] \in Calls /\ Kind[a[1]] = "import" /\ Stage(a[1]) = "stored")

Origins ==
    /\ \A n \in 1 .. Len(wallets) : \A a \in In(wallets[n]) : Made(a)
    /\ \A rows \in opener : \A a \in In(rows) : Made(a)
    /\ \A c \in Calls : Kind[c] = "remove" /\ Stage(c) # "idle" => Made(Target(c))
    /\ \A c \in Calls : Kind[c] = "rename" /\ Stage(c) # "idle" => Written(Target(c))
    /\ \A a \in In(rowsStored) : Written(a)

\* What openWallet has read is what is stored, and nothing is being written.
ReadIsStored ==
    opener # {} =>
        /\ opener = {rowsStored}
        /\ \A c \in Calls :
               \/ Stage(c) \in Over
               \/ Kind[c] = "import" /\ Stage(c) # "stored"

\* The trouble tells of the derivations that failed.
FailuresNoted ==
    \A c \in Calls : Kind[c] = "derive" /\ Stage(c) = "failed"
        => "failed" \in trouble \/ "crashed" \in trouble

SteadyInv == FailuresNoted /\ (Steady => Origins /\ ReadIsStored)

Last == wallets[Len(wallets)]

\* What the last wallet object has is stored or being stored; what is being
\* removed it has no more.
LastIsStored ==
    /\ signerStored /\ ~creating /\ removal.stage # "rowsDeleted" =>
           /\ Len(wallets) # 0 /\ In(Last) # {}
           /\ \A a \in In(Last) :
                  \/ a \in In(rowsStored)
                  \/ \E c \in Calls : /\ Kind[c] = "derive" /\ Stage(c) \in InWriting
                                      /\ Target(c) = a
    /\ Len(wallets) # 0 =>
           \A c \in Calls :
               Kind[c] = "remove" /\ Stage(c) \in InWriting => Target(c) \notin In(Last)

SmoothInv == Steady /\ Without({"torn"}) => LastIsStored

\* Where nothing failed, nor did derivations and imports mix, or calls meet on one account.
Apart == Clean /\ Without({"mixed", "contended"})

\* What is stored and not about to be removed.
Going == {Target(c) : c \in {d \in Calls : Kind[d] = "remove" /\ Stage(d) \in InWriting}}
Staying == In(rowsStored) \ Going

CallsApart ==
    /\ creating => In(rowsStored) = {} /\ \A c \in Calls : Stage(c) = "idle"
    /\ \A c, d \in UnderWay({"derive"}) : c = d
    /\ UnderWay({"derive"}) # {} => UnderWay({"import"}) = {}
    /\ \A c \in UnderWay({"derive"}) : calls[c].wallet = Len(wallets)
    /\ \A c, d \in UnderWay({"import"}) :
           {Stage(c), Stage(d)} \cap {"decrypting", "checking"} = {} => c = d
    /\ UnderWay({"rename"}) # {} => ~Suspended
    /\ \A c \in UnderWay({"rename"}) :
           Target(c) \notin Going /\ (Stage(c) = "writing" => Target(c) \in In(rowsStored))

\* Whose index is whose: what stays has indexes of its own, none of them that
\* of a call under way, and memory has it.
IndexesApart ==
    /\ \A a, b \in Staying : Index(a) = Index(b) => a = b
    /\ \A c \in Calls : Kind[c] = "derive" /\ Stage(c) \in {"deriving", "saving", "writing"} =>
           \A b \in Staying : Index(b) # Index(Target(c))
    /\ \A c \in Calls : Kind[c] = "import" /\ Stage(c) \in InWriting =>
           \A b \in In(rowsStored) : Index(b) # Index(Target(c))
    /\ \A c \in Calls : Kind[c] = "derive" /\ Stage(c) \in InWriting => Target(c) \in In(Last)
    /\ current # 0 \/ UnderWay({"derive"}) # {} =>
           \A a \in Staying :
               \/ a \in In(Last)
               \/ /\ current # 0
                  /\ \E c \in Calls : Kind[c] = "import" /\ Stage(c) = "stored" /\ Target(c) = a

ApartInv == Apart => CallsApart /\ IndexesApart

\* A call that has to do with an account until memory and storage agree on it.
Unsettled == {c \in Calls : Stage(c) \in {"saving", "writing", "stored"}}

Agree(a) ==
    /\ a \in In(rowsStored) <=> a \in In(Last)
    /\ a \in In(rowsStored) => rowsStored[a] = Last[a]

\* How far memory is ahead of storage by an unsettled call.
Ahead(c) ==
    /\ Kind[c] = "derive" => Target(c) \in In(Last) /\ Last[Target(c)] = Given
    /\ Kind[c] = "import" => Target(c) \notin In(Last)
    /\ Kind[c] = "import" /\ Stage(c) = "stored" =>
           Target(c) \in In(rowsStored) /\ rowsStored[Target(c)] = Given
    /\ Kind[c] = "rename" => Target(c) \in In(Last) /\ Last[Target(c)] = c
    /\ Kind[c] = "remove" => Target(c) \notin In(Last)

\* Memory is ahead of storage by the unsettled calls, one for an account.
InStep ==
    /\ \A c, d \in Unsettled : Target(c) = Target(d) => c = d
    /\ \A a \in Accounts : (\A c \in Unsettled : Target(c) # a) => Agree(a)
    /\ \A c \in Unsettled : Ahead(c)

\* What may be under way while the wallet is being removed.
RemovalApart ==
    /\ Suspended \/ ~signerStored =>
           \A c \in Calls :
               \/ Stage(c) \in Over
               \/ Kind[c] = "remove"
               \/ Kind[c] = "import" /\ Stage(c) = "decrypting"
               \/ Kind[c] = "derive" /\ removal.stage = "draining"
    /\ removal.stage = "rowsDeleted" \/ ~signerStored => In(rowsStored) \subseteq Going
    /\ removal.stage = "deleting" => removal.gone = In(Last)

FollowInv ==
    trouble = {} =>
        /\ current # 0 \/ removal.stage \in {"draining", "deleting"} => InStep
        /\ RemovalApart

AccountsInv == AccountsBase /\ ReportsHold /\ SteadyInv /\ SmoothInv /\ ApartInv /\ FollowInv
-----------------------------------------------------------------------------
(* Rows, wallets and indexes *)

\* A set of rows, taken apart ...
LEMMA RowsFacts ==
    ASSUME NEW rows \in RowSets
    PROVE  /\ In(rows) \subseteq Accounts
           /\ \A a \in In(rows) : rows[a] \in {Given} \cup Calls
           /\ rows = [a \in In(rows) |-> rows[a]]
BY DEF RowSets, In

\* ... and put together.
LEMMA RowsMade ==
    ASSUME NEW D \in SUBSET Accounts, NEW f \in [D -> {Given} \cup Calls]
    PROVE  f \in RowSets
<1>1. [D -> {Given} \cup Calls] \in {[E -> {Given} \cup Calls] : E \in SUBSET Accounts}
    OBVIOUS
<1>. QED
    BY <1>1 DEF RowSets

\* Having no rows is a set of rows.
LEMMA NoRowsFacts == NoRows \in RowSets /\ In(NoRows) = {}
<1>1. {} \in SUBSET Accounts /\ NoRows \in [{} -> {Given} \cup Calls]
    BY DEF NoRows
<1>2. NoRows \in RowSets
    BY <1>1, RowsMade
<1>. QED
    BY <1>2 DEF NoRows, In

\* A row that is put is there, and the others are as they were.
LEMMA PutFacts ==
    ASSUME NEW rows \in RowSets, NEW a \in Accounts, NEW name \in {Given} \cup Calls
    PROVE  /\ Put(rows, a, name) \in RowSets
           /\ In(Put(rows, a, name)) = In(rows) \cup {a}
           /\ Put(rows, a, name)[a] = name
           /\ \A b \in In(rows) : b # a => Put(rows, a, name)[b] = rows[b]
<1>1. DOMAIN rows \subseteq Accounts /\ \A b \in DOMAIN rows : rows[b] \in {Given} \cup Calls
    BY RowsFacts DEF In
<1>2. Put(rows, a, name) \in [DOMAIN rows \cup {a} -> {Given} \cup Calls]
    BY <1>1 DEF Put
<1>3. Put(rows, a, name) \in RowSets
    BY <1>1, <1>2, RowsMade
<1>4. In(Put(rows, a, name)) = In(rows) \cup {a}
    BY DEF Put, In
<1>5. Put(rows, a, name)[a] = name
    BY DEF Put
<1>6. \A b \in In(rows) : b # a => Put(rows, a, name)[b] = rows[b]
    BY DEF Put, In
<1>. QED
    BY <1>3, <1>4, <1>5, <1>6

\* Rows that are dropped are gone, and the others are as they were.
LEMMA DropFacts ==
    ASSUME NEW rows \in RowSets, NEW gone
    PROVE  /\ Drop(rows, gone) \in RowSets
           /\ In(Drop(rows, gone)) = In(rows) \ gone
           /\ \A b \in In(rows) \ gone : Drop(rows, gone)[b] = rows[b]
<1>1. DOMAIN rows \subseteq Accounts /\ \A b \in DOMAIN rows : rows[b] \in {Given} \cup Calls
    BY RowsFacts DEF In
<1>2. Drop(rows, gone) \in [DOMAIN rows \ gone -> {Given} \cup Calls]
    BY <1>1 DEF Drop, Restrict
<1>3. Drop(rows, gone) \in RowSets
    BY <1>1, <1>2, RowsMade
<1>4. In(Drop(rows, gone)) = In(rows) \ gone
    BY DEF Drop, Restrict, In
<1>5. \A b \in In(rows) \ gone : Drop(rows, gone)[b] = rows[b]
    BY DEF Drop, Restrict, In
<1>. QED
    BY <1>3, <1>4, <1>5

\* One wallet object gets other rows.
LEMMA WalletWritten ==
    ASSUME NEW w \in Seq(RowSets), NEW n \in 1 .. Len(w), NEW rows \in RowSets
    PROVE  /\ [w EXCEPT ![n] = rows] \in Seq(RowSets)
           /\ Len([w EXCEPT ![n] = rows]) = Len(w)
           /\ [w EXCEPT ![n] = rows][n] = rows
           /\ \A m \in 1 .. Len(w) : m # n => [w EXCEPT ![n] = rows][m] = w[m]
BY ExceptSeq

\* The wallet objects there have been are sets of rows.
LEMMA WalletsFacts ==
    ASSUME NEW w \in Seq(RowSets)
    PROVE  Len(w) \in Nat /\ \A n \in 1 .. Len(w) : w[n] \in RowSets
BY LenProperties, ElementOfSeq

\* An account is its maker and its index.
LEMMA AccountFacts ==
    ASSUME NEW a \in Accounts
    PROVE  /\ a = <<a[1], a[2]>> /\ a[1] \in Calls \cup {Creation} /\ Index(a) \in 0 .. MaxIndex
BY DEF Accounts, Index

\* A wallet with accounts derives the first index that none of them has.
LEMMA FreshIndex ==
    ASSUME NEW rows \in RowSets, MaxIndex \in Nat
    PROVE  /\ DerivationIndex(rows) \in Nat
           /\ \A a \in In(rows) : Index(a) # DerivationIndex(rows)
<1>. DEFINE indexes == {Index(a) : a \in In(rows)}
<1>1. indexes \subseteq 0 .. MaxIndex
    BY RowsFacts, AccountFacts
<1>2. CASE indexes = {}
    <2>1. In(rows) = {} /\ DerivationIndex(rows) = 0
        BY <1>2 DEF DerivationIndex
    <2>. QED
        BY <2>1
<1>3. CASE indexes # {}
    <2>. DEFINE n == Cardinality(indexes)
                Free == {i \in 1 .. n + 1 : i \notin indexes}
    <2>1. IsFiniteSet(indexes) /\ n \in Nat
        <3>1. IsFiniteSet(0 .. MaxIndex)
            BY FS_Interval
        <3>. HIDE DEF indexes
        <3>2. IsFiniteSet(indexes)
            BY <1>1, <3>1, FS_Subset
        <3>. QED
            BY <3>2, FS_CardinalityType
    <2>2. Free # {}
        <3>. HIDE DEF indexes
        <3>1. SUFFICES ASSUME 1 .. n + 1 \subseteq indexes PROVE FALSE
            OBVIOUS
        <3>. HIDE DEF n
        <3>2. Cardinality(1 .. n + 1) = n + 1
            BY <2>1, FS_Interval
        <3>3. Cardinality(1 .. n + 1) <= n
            BY <2>1, <3>1, FS_Subset DEF n
        <3>. QED
            BY <2>1, <3>2, <3>3
    <2>3. Free \in SUBSET Nat
        BY <2>1
    <2>4. PICK k \in Free : \A j \in Free : k <= j
        <3>. HIDE DEF Free
        <3>. QED
            BY <2>2, <2>3, HasLeast
    <2>5. k \in 1 .. n + 1 /\ k \notin indexes /\ \A j \in 1 .. k - 1 : j \in indexes
        <3>1. k \in 1 .. n + 1 /\ k \notin indexes
            BY <2>4
        <3>. HIDE DEF indexes, n
        <3>2. ASSUME NEW j \in 1 .. k - 1, j \notin indexes PROVE FALSE
            BY <2>1, <2>4, <3>1, <3>2
        <3>. QED
            BY <3>1, <3>2
    <2>6. DerivationIndex(rows) = CHOOSE i \in 1 .. n + 1 :
                 i \notin indexes /\ \A j \in 1 .. i - 1 : j \in indexes
        BY <1>3 DEF DerivationIndex
    <2>7. DerivationIndex(rows) \in 1 .. n + 1 /\ DerivationIndex(rows) \notin indexes
        <3>. HIDE DEF indexes, n
        <3>. QED
            BY <2>5, <2>6
    <2>. QED
        BY <2>1, <2>7
<1>. QED
    BY <1>2, <1>3

-----------------------------------------------------------------------------
(* What a step does *)

\* A step of call c and of no other.
Moves(c, stage, wallet, account) ==
    /\ calls'[c].stage = stage /\ calls'[c].wallet = wallet /\ calls'[c].account = account
    /\ calls' \in [Calls -> CallRecords]
    /\ \A d \in Calls : d # c => calls'[d] = calls[d]

\* A record given to one call leaves the others alone, ...
LEMMA CallWritten ==
    ASSUME AccountTypes, NEW c \in Calls, NEW r \in CallRecords,
           calls' = [calls EXCEPT ![c] = r]
    PROVE  Moves(c, r.stage, r.wallet, r.account)
BY DEF AccountTypes, Moves, CallRecords

\* ... and so does a stage.
LEMMA StageWritten ==
    ASSUME AccountTypes, NEW c \in Calls, NEW s \in Stages, Step(c, s)
    PROVE  Moves(c, s, calls[c].wallet, calls[c].account)
<1>. DEFINE r == [calls[c] EXCEPT !.stage = s]
<1>1. r \in CallRecords /\ r.stage = s /\ r.wallet = calls[c].wallet
        /\ r.account = calls[c].account
    BY DEF AccountTypes, CallRecords
<1>2. calls' = [calls EXCEPT ![c] = r]
    BY DEF Step
<1>. HIDE DEF r
<1>. QED
    BY <1>1, <1>2, CallWritten

\* Where each step takes its call.
LEMMA CallMoves ==
    ASSUME AccountsAssumption, AccountTypes, CallsFit, NEW c \in Calls
    PROVE  /\ BeginDerive(c) => Moves(c, "decrypting", current, Target(c))
           /\ ChooseIndex(c) =>
                  /\ DerivationIndex(wallets[calls[c].wallet]) \in 0 .. MaxIndex
                  /\ Moves(c, "deriving", calls[c].wallet,
                           <<c, DerivationIndex(wallets[calls[c].wallet])>>)
           /\ AddDerived(c) => Moves(c, "saving", calls[c].wallet, Target(c))
           /\ BeginImport(c) => Moves(c, "decrypting", calls[c].wallet, <<c, Wanted[c]>>)
           /\ EnterImport(c) => Moves(c, "checking", calls[c].wallet, Target(c))
           /\ CheckDuplicates(c) =>
                  Moves(c, IF \E a \in In(rowsStored) : Index(a) = Wanted[c]
                           THEN "failed" ELSE "saving", calls[c].wallet, Target(c))
           /\ JoinWallet(c) => Moves(c, "done", calls[c].wallet, Target(c))
           /\ \A a \in Accounts : BeginRemove(c, a) \/ BeginRename(c, a) =>
                  Moves(c, "saving", calls[c].wallet, a)
           /\ WriteRows(c) => Moves(c, IF Kind[c] = "import" THEN "stored" ELSE "done",
                                    calls[c].wallet, Target(c))
           /\ SaveFails(c) => Moves(c, "failed", calls[c].wallet, Target(c))
           /\ ReadRows(c) =>
                  \/ Moves(c, "writing", calls[c].wallet, Target(c)) /\ trouble' = trouble
                  \/ /\ Moves(c, "failed", calls[c].wallet, Target(c))
                     /\ Kind[c] = "rename" /\ "failed" \in trouble'
<1>. DEFINE r == calls[c]
<1>1. r \in CallRecords /\ r.stage \in Stages /\ r.wallet \in Nat /\ r.account \in Accounts
        /\ r.view \in RowSets
    BY DEF AccountTypes, CallRecords
<1>2. Wanted[c] \in 0 .. MaxIndex /\ Len(wallets) \in Nat /\ current \in Nat
        /\ NoRows \in RowSets /\ rowsStored \in RowSets
    BY LenProperties, NoRowsFacts DEF AccountsAssumption, AccountTypes
<1>3. \A i \in 0 .. MaxIndex : <<c, i>> \in Accounts
    BY DEF Accounts
<1>5. ASSUME NEW s \in Stages, NEW w \in Nat, NEW a \in Accounts, NEW v \in RowSets,
             calls' = [calls EXCEPT ![c] =
                          [r EXCEPT !.stage = s, !.wallet = w, !.account = a, !.view = v]]
      PROVE  Moves(c, s, w, a)
    <2>. DEFINE n == [r EXCEPT !.stage = s, !.wallet = w, !.account = a, !.view = v]
    <2>1. n \in CallRecords /\ n.stage = s /\ n.wallet = w /\ n.account = a
        BY <1>1 DEF CallRecords
    <2>2. calls' = [calls EXCEPT ![c] = n]
        BY <1>5
    <2>. HIDE DEF n
    <2>. QED
        BY <2>1, <2>2, CallWritten
<1>. DEFINE Sets(s, w, a, v) ==
        calls' = [calls EXCEPT ![c] =
                     [r EXCEPT !.stage = s, !.wallet = w, !.account = a, !.view = v]]
<1>6. ASSUME NEW s \in Stages, NEW w \in Nat, NEW a \in Accounts, NEW v \in RowSets,
             Sets(s, w, a, v)
      PROVE  Moves(c, s, w, a)
    BY <1>5, <1>6
<1>7. [r EXCEPT !.stage = r.stage] = r
    BY <1>1 DEF CallRecords
<1>8. ASSUME BeginDerive(c) PROVE Sets("decrypting", current, r.account, r.view)
    BY <1>1, <1>8 DEF BeginDerive, CallRecords, AccountTypes
<1>9. ASSUME NEW i \in Nat,
             calls' = [calls EXCEPT ![c].stage = "deriving", ![c].account = <<c, i>>]
      PROVE  Sets("deriving", r.wallet, <<c, i>>, r.view)
    BY <1>1, <1>9 DEF CallRecords, AccountTypes
<1>10. ASSUME BeginImport(c) PROVE Sets("decrypting", r.wallet, <<c, Wanted[c]>>, r.view)
    BY <1>1, <1>10 DEF BeginImport, CallRecords, AccountTypes
<1>11. ASSUME NEW a \in Accounts, BeginRemove(c, a) \/ BeginRename(c, a)
       PROVE  Sets("saving", r.wallet, a, r.view)
    BY <1>1, <1>11 DEF BeginRemove, BeginRename, CallRecords, AccountTypes
<1>12. ASSUME WriteRows(c)
       PROVE  Sets(IF Kind[c] = "import" THEN "stored" ELSE "done", r.wallet, r.account, NoRows)
    BY <1>1, <1>12 DEF WriteRows, CallRecords, AccountTypes
<1>13. ASSUME SaveFails(c) PROVE Sets("failed", r.wallet, r.account, NoRows)
    BY <1>1, <1>13 DEF SaveFails, CallRecords, AccountTypes
<1>14. ASSUME calls' = [calls EXCEPT ![c].stage = "writing", ![c].view = rowsStored]
       PROVE  Sets("writing", r.wallet, r.account, rowsStored)
    BY <1>1, <1>14 DEF CallRecords, AccountTypes
<1>. HIDE DEF Sets
<1>. {"decrypting", "deriving", "saving", "writing", "stored", "done", "failed",
      "checking"} \subseteq Stages
    BY DEF Stages
<1>21. BeginDerive(c) => Moves(c, "decrypting", current, Target(c))
    BY <1>1, <1>2, <1>6, <1>8 DEF Target
<1>22. ASSUME ChooseIndex(c)
       PROVE  /\ DerivationIndex(wallets[calls[c].wallet]) \in 0 .. MaxIndex
              /\ Moves(c, "deriving", calls[c].wallet,
                       <<c, DerivationIndex(wallets[calls[c].wallet])>>)
    <2>. DEFINE i == DerivationIndex(wallets[calls[c].wallet])
    <2>1. calls[c].wallet \in 1 .. Len(wallets)
        BY <1>22 DEF ChooseIndex, At, CallsFit, Stage
    <2>2. wallets[calls[c].wallet] \in RowSets
        BY <2>1, WalletsFacts DEF AccountTypes
    <2>3. i \in Nat
        BY <2>2, FreshIndex DEF AccountsAssumption
    <2>4. /\ i \in 0 .. MaxIndex
          /\ calls' = [calls EXCEPT ![c].stage = "deriving", ![c].account = <<c, i>>]
        BY <1>22, <2>3 DEF ChooseIndex, AccountsAssumption
    <2>. HIDE DEF i
    <2>5. Sets("deriving", r.wallet, <<c, i>>, r.view)
        BY <1>9, <2>3, <2>4
    <2>. QED
        BY <1>1, <1>3, <1>6, <2>4, <2>5 DEF i
<1>23. /\ AddDerived(c) => Moves(c, "saving", calls[c].wallet, Target(c))
       /\ EnterImport(c) => Moves(c, "checking", calls[c].wallet, Target(c))
       /\ JoinWallet(c) => Moves(c, "done", calls[c].wallet, Target(c))
    BY StageWritten DEF AddDerived, EnterImport, JoinWallet, Target
<1>24. BeginImport(c) => Moves(c, "decrypting", calls[c].wallet, <<c, Wanted[c]>>)
    BY <1>1, <1>2, <1>3, <1>6, <1>10
<1>25. CheckDuplicates(c) =>
           Moves(c, IF \E a \in In(rowsStored) : Index(a) = Wanted[c]
                    THEN "failed" ELSE "saving", calls[c].wallet, Target(c))
    BY StageWritten DEF CheckDuplicates, Target
<1>26. \A a \in Accounts : BeginRemove(c, a) \/ BeginRename(c, a) =>
           Moves(c, "saving", calls[c].wallet, a)
    BY <1>1, <1>2, <1>6, <1>11
<1>27. WriteRows(c) => Moves(c, IF Kind[c] = "import" THEN "stored" ELSE "done",
                             calls[c].wallet, Target(c))
    BY <1>1, <1>2, <1>6, <1>12 DEF Target
<1>28. SaveFails(c) => Moves(c, "failed", calls[c].wallet, Target(c))
    BY <1>1, <1>2, <1>6, <1>13 DEF Target
<1>29. ASSUME ReadRows(c)
       PROVE  \/ Moves(c, "writing", calls[c].wallet, Target(c)) /\ trouble' = trouble
              \/ /\ Moves(c, "failed", calls[c].wallet, Target(c))
                 /\ Kind[c] = "rename" /\ "failed" \in trouble'
    <2>1. CASE Kind[c] = "rename" /\ calls[c].account \notin In(rowsStored)
        BY <1>29, <2>1, StageWritten DEF ReadRows, Adding, Target
    <2>2. CASE ~(Kind[c] = "rename" /\ calls[c].account \notin In(rowsStored))
        BY <1>1, <1>2, <1>6, <1>14, <1>29, <2>2 DEF ReadRows, Target
    <2>. QED
        BY <2>1, <2>2
<1>. QED
    BY <1>21, <1>22, <1>23, <1>24, <1>25, <1>26, <1>27, <1>28, <1>29

\* The history only grows, and says of a step what it must.
LEMMA TroubleGrows ==
    ASSUME AccountsNext
    PROVE  trouble \subseteq trouble'
BY DEF AccountsNext, SaveSigner, SaveFirstAccount, CreationFails, CloseWallet, ReadWallet,
       PublishWallet, BeginRemoval, Drain, DeleteRows, DeleteSigner, RemovalFails, Crash,
       BeginDerive, ChooseIndex, AddDerived, BeginImport, EnterImport, CheckDuplicates,
       JoinWallet, ReadRows, WriteRows, SaveFails, BeginRemove, BeginRename, Adding

-----------------------------------------------------------------------------
(* The types, the places of the wallet and the stages of the calls *)

\* The invariant holds before the wallet is created.
LEMMA AccountsBegin ==
    ASSUME AccountsAssumption, AccountsInit
    PROVE  AccountsInv
<1>1. NoRows \in RowSets /\ In(NoRows) = {} /\ First \in Accounts
    BY NoRowsFacts DEF First, Accounts, AccountsAssumption
<1>2. IdleCall \in CallRecords /\ IdleCall.stage = "idle"
    BY <1>1 DEF IdleCall, CallRecords, Stages
<1>3. NoRemoval \in Removals /\ NoRemoval.stage = "none"
    BY <1>1 DEF NoRemoval, Removals
<1>4. wallets \in Seq(RowSets) /\ Len(wallets) = 0
    BY EmptySeq DEF AccountsInit
<1>5. \A c \in Calls : calls[c].stage = "idle"
    BY <1>2 DEF AccountsInit
<1>6. AccountTypes
    BY <1>1, <1>2, <1>3, <1>4 DEF AccountsInit, AccountTypes
<1>7. ~Suspended /\ opener = {} /\ current = 0 /\ creating /\ ~signerStored
        /\ In(rowsStored) = {}
    BY <1>1, <1>3 DEF AccountsInit, Suspended
<1>8. PlacesFit
    BY <1>4, <1>5, <1>7 DEF PlacesFit, Stage
<1>9. CallsFit
    BY <1>5 DEF CallsFit, Stage
<1>10. ReportsHold /\ ReadIsStored
    BY <1>7 DEF ReportsHold, ReadIsStored
<1>11. Origins /\ FailuresNoted
    BY <1>4, <1>5, <1>7 DEF Origins, FailuresNoted, Stage
<1>12. LastIsStored
    BY <1>4, <1>7 DEF LastIsStored
<1>13. \A K : UnderWay(K) = {}
    BY <1>5 DEF UnderWay, Over
<1>14. CallsApart
    BY <1>5, <1>7, <1>13 DEF CallsApart, Stage
<1>15. IndexesApart
    BY <1>5, <1>7, <1>13 DEF IndexesApart, Staying, Stage, InWriting
<1>16. FollowInv
    BY <1>3, <1>5, <1>7 DEF FollowInv, RemovalApart, Stage, Over, AccountsInit
<1>. QED
    BY <1>6, <1>8, <1>9, <1>10, <1>11, <1>12, <1>14, <1>15, <1>16
       DEF AccountsInv, AccountsBase, SteadyInv, SmoothInv, ApartInv

\* Wallet object n gets these rows.
Rewritten(n, rows) ==
    /\ n \in 1 .. Len(wallets) /\ rows \in RowSets
    /\ wallets' \in Seq(RowSets) /\ Len(wallets') = Len(wallets)
    /\ wallets'[n] = rows
    /\ \A m \in 1 .. Len(wallets) : m # n => wallets'[m] = wallets[m]

\* What each step makes of the wallet objects.
LEMMA WalletMoves ==
    ASSUME AccountsAssumption, AccountsBase
    PROVE  /\ \A c \in Calls :
                  /\ AddDerived(c) =>
                         Rewritten(calls[c].wallet,
                                   Put(wallets[calls[c].wallet], Target(c), Given))
                  /\ JoinWallet(c) =>
                         IF current = 0 THEN wallets' = wallets
                         ELSE Rewritten(current, Put(wallets[current], Target(c), Given))
                  /\ \A a \in Accounts :
                         /\ BeginRemove(c, a) => Rewritten(current, Drop(wallets[current], {a}))
                         /\ BeginRename(c, a) =>
                                IF a \in In(wallets[current])
                                THEN Rewritten(current, Put(wallets[current], a, c))
                                ELSE wallets' = wallets
           /\ SaveFirstAccount =>
                  /\ wallets' \in Seq(RowSets) /\ Len(wallets') = 1 /\ current' = 1
                  /\ wallets'[1] = Put(NoRows, First, Given)
           /\ PublishWallet =>
                  \E rows \in opener :
                      /\ wallets' \in Seq(RowSets) /\ Len(wallets') = Len(wallets) + 1
                      /\ current' = Len(wallets')
                      /\ wallets'[Len(wallets')] = rows
                      /\ \A m \in 1 .. Len(wallets) : wallets'[m] = wallets[m]
<1>1. wallets \in Seq(RowSets) /\ Len(wallets) \in Nat
        /\ \A n \in 1 .. Len(wallets) : wallets[n] \in RowSets
    BY WalletsFacts DEF AccountsBase, AccountTypes
<1>2. current # 0 => current \in 1 .. Len(wallets)
    BY <1>1 DEF AccountsBase, AccountTypes
<1>3. \A c \in Calls : Target(c) \in Accounts /\ c \in {Given} \cup Calls
        /\ Given \in {Given} \cup Calls
    BY DEF AccountsBase, AccountTypes, CallRecords, Target
<1>4. ASSUME NEW n \in 1 .. Len(wallets), NEW rows \in RowSets,
             wallets' = [wallets EXCEPT ![n] = rows]
      PROVE  Rewritten(n, rows)
    BY <1>1, <1>4, WalletWritten DEF Rewritten
<1>5. ASSUME NEW c \in Calls, AddDerived(c)
      PROVE  Rewritten(calls[c].wallet, Put(wallets[calls[c].wallet], Target(c), Given))
    <2>1. calls[c].wallet \in 1 .. Len(wallets)
        BY <1>5 DEF AddDerived, At, AccountsBase, CallsFit, Stage
    <2>2. Put(wallets[calls[c].wallet], Target(c), Given) \in RowSets
        BY <1>1, <1>3, <2>1, PutFacts
    <2>. QED
        BY <1>4, <1>5, <2>1, <2>2 DEF AddDerived, Target
<1>6. ASSUME NEW c \in Calls, JoinWallet(c), current # 0
      PROVE  Rewritten(current, Put(wallets[current], Target(c), Given))
    <2>1. Put(wallets[current], Target(c), Given) \in RowSets
        BY <1>1, <1>2, <1>3, <1>6, PutFacts
    <2>. QED
        BY <1>2, <1>4, <1>6, <2>1 DEF JoinWallet, Target
<1>7. ASSUME NEW c \in Calls, NEW a \in Accounts, BeginRemove(c, a)
      PROVE  Rewritten(current, Drop(wallets[current], {a}))
    <2>1. current # 0 /\ wallets' = [wallets EXCEPT ![current] = Drop(@, {a})]
        BY <1>7 DEF BeginRemove
    <2>2. Drop(wallets[current], {a}) \in RowSets
        BY <1>1, <1>2, <2>1, DropFacts
    <2>. QED
        BY <1>2, <1>4, <2>1, <2>2
<1>8. ASSUME NEW c \in Calls, NEW a \in Accounts, BeginRename(c, a), a \in In(wallets[current])
      PROVE  Rewritten(current, Put(wallets[current], a, c))
    <2>1. current # 0 /\ wallets' = [wallets EXCEPT ![current] = Put(@, a, c)]
        BY <1>8 DEF BeginRename
    <2>2. Put(wallets[current], a, c) \in RowSets
        BY <1>1, <1>2, <1>3, <2>1, PutFacts
    <2>. QED
        BY <1>2, <1>4, <2>1, <2>2
<1>9. ASSUME SaveFirstAccount
      PROVE  /\ wallets' \in Seq(RowSets) /\ Len(wallets') = 1 /\ current' = 1
             /\ wallets'[1] = Put(NoRows, First, Given)
    <2>1. First \in Accounts
        BY DEF First, Accounts, AccountsAssumption
    <2>2. Put(NoRows, First, Given) \in RowSets
        BY <1>3, <2>1, NoRowsFacts, PutFacts
    <2>. QED
        BY <1>9, <2>2 DEF SaveFirstAccount
<1>10. ASSUME PublishWallet
       PROVE  \E rows \in opener :
                  /\ wallets' \in Seq(RowSets) /\ Len(wallets') = Len(wallets) + 1
                  /\ current' = Len(wallets')
                  /\ wallets'[Len(wallets')] = rows
                  /\ \A m \in 1 .. Len(wallets) : wallets'[m] = wallets[m]
    <2>1. PICK rows \in opener : wallets' = Append(wallets, rows)
        BY <1>10 DEF PublishWallet
    <2>2. rows \in RowSets
        BY DEF AccountsBase, AccountTypes
    <2>3. current' = Len(wallets')
        BY <1>10 DEF PublishWallet
    <2>. QED
        BY <1>1, <2>1, <2>2, <2>3, AppendProperties
<1>11. \A c \in Calls : /\ JoinWallet(c) /\ current = 0 => wallets' = wallets
                        /\ \A a \in Accounts : BeginRename(c, a) /\ a \notin In(wallets[current])
                               => wallets' = wallets
    BY DEF JoinWallet, BeginRename
<1>. QED
    BY <1>5, <1>6, <1>7, <1>8, <1>9, <1>10, <1>11

\* A write works on what is stored, or the history tells.
LEMMA StoredMoves ==
    ASSUME AccountsAssumption, AccountsBase
    PROVE  /\ \A c \in Calls : WriteRows(c) =>
                  /\ rowsStored' \in RowSets
                  /\ "lost" \notin trouble' => rowsStored' = Effect(c, rowsStored)
           /\ DeleteRows =>
                  /\ rowsStored' \in RowSets
                  /\ "lost" \notin trouble' => rowsStored' = Drop(rowsStored, removal.gone)
           /\ SaveFirstAccount => rowsStored' = Put(rowsStored, First, Given)
           /\ \A c \in Calls, rows \in RowSets :
                  /\ Effect(c, rows) \in RowSets
                  /\ Kind[c] \in {"derive", "import"} =>
                         Effect(c, rows) = Put(rows, Target(c), Given)
                  /\ Kind[c] = "rename" => Effect(c, rows) = Put(rows, Target(c), c)
                  /\ Kind[c] = "remove" => Effect(c, rows) = Drop(rows, {Target(c)})
<1>1. rowsStored \in RowSets /\ removal.view \in RowSets
        /\ \A c \in Calls : calls[c].view \in RowSets /\ Target(c) \in Accounts
    BY DEF AccountsBase, AccountTypes, Removals, CallRecords, Target
<1>2. ASSUME NEW c \in Calls, NEW rows \in RowSets
      PROVE  /\ Effect(c, rows) \in RowSets
             /\ Kind[c] \in {"derive", "import"} =>
                    Effect(c, rows) = Put(rows, Target(c), Given)
             /\ Kind[c] = "rename" => Effect(c, rows) = Put(rows, Target(c), c)
             /\ Kind[c] = "remove" => Effect(c, rows) = Drop(rows, {Target(c)})
    <2>1. Kind[c] \in {"derive", "import", "rename", "remove"}
        BY DEF AccountsAssumption
    <2>2. Kind[c] \in {"derive", "import"} => Effect(c, rows) = Put(rows, Target(c), Given)
        BY DEF Effect, Target
    <2>3. Kind[c] = "rename" => Effect(c, rows) = Put(rows, Target(c), c)
        BY DEF Effect, Target
    <2>4. Kind[c] = "remove" => Effect(c, rows) = Drop(rows, {Target(c)})
        BY DEF Effect, Target
    <2>5. Put(rows, Target(c), Given) \in RowSets /\ Put(rows, Target(c), c) \in RowSets
            /\ Drop(rows, {Target(c)}) \in RowSets
        BY <1>1, PutFacts, DropFacts
    <2>. QED
        BY <2>1, <2>2, <2>3, <2>4, <2>5
<1>3. ASSUME NEW view \in RowSets
      PROVE  /\ Base(view) \in RowSets
             /\ ((backend = "node" /\ view # rowsStored) \/ Base(view) = rowsStored)
    BY <1>1 DEF Base
<1>4. ASSUME NEW c \in Calls, WriteRows(c)
      PROVE  /\ rowsStored' \in RowSets
             /\ "lost" \notin trouble' => rowsStored' = Effect(c, rowsStored)
    <2>1. rowsStored' = Effect(c, Base(calls[c].view))
            /\ (backend = "node" /\ calls[c].view # rowsStored => "lost" \in trouble')
        BY <1>4 DEF WriteRows, Adding
    <2>. QED
        BY <1>1, <1>2, <1>3, <2>1
<1>5. ASSUME DeleteRows
      PROVE  /\ rowsStored' \in RowSets
             /\ "lost" \notin trouble' => rowsStored' = Drop(rowsStored, removal.gone)
    <2>1. rowsStored' = Drop(Base(removal.view), removal.gone)
            /\ (backend = "node" /\ removal.view # rowsStored => "lost" \in trouble')
        BY <1>5 DEF DeleteRows, Adding
    <2>. QED
        BY <1>1, <1>3, <2>1, DropFacts
<1>. QED
    BY <1>2, <1>4, <1>5 DEF SaveFirstAccount

\* What only some actions change.
LEMMA Frames ==
    ASSUME AccountsNext
    PROVE  /\ \/ rowsStored' = rowsStored
              \/ SaveFirstAccount \/ DeleteRows \/ \E c \in Calls : WriteRows(c)
           /\ \/ wallets' = wallets
              \/ SaveFirstAccount \/ PublishWallet
              \/ \E c \in Calls : AddDerived(c) \/ JoinWallet(c)
              \/ \E c \in Calls, a \in Accounts : BeginRemove(c, a) \/ BeginRename(c, a)
           /\ \/ calls' = calls
              \/ Crash
              \/ \E c \in Calls :
                    \/ BeginDerive(c) \/ ChooseIndex(c) \/ AddDerived(c)
                    \/ BeginImport(c) \/ EnterImport(c) \/ CheckDuplicates(c) \/ JoinWallet(c)
                    \/ ReadRows(c) \/ WriteRows(c) \/ SaveFails(c)
              \/ \E c \in Calls, a \in Accounts : BeginRemove(c, a) \/ BeginRename(c, a)
           /\ \/ removal' = removal
              \/ BeginRemoval \/ Drain \/ DeleteRows \/ DeleteSigner \/ RemovalFails \/ Crash
           /\ opener' = opener \/ ReadWallet \/ PublishWallet \/ Crash
           /\ \/ current' = current
              \/ SaveFirstAccount \/ CloseWallet \/ PublishWallet \/ BeginRemoval \/ Crash
           /\ creating' = creating \/ SaveFirstAccount \/ CreationFails \/ Crash
           /\ signerStored' = signerStored \/ SaveSigner \/ DeleteSigner
<1>. USE DEF AccountsNext, SaveSigner, SaveFirstAccount, CreationFails, CloseWallet,
       ReadWallet, PublishWallet, BeginRemoval, Drain, DeleteRows, DeleteSigner,
       RemovalFails, Crash
<1>1. \/ rowsStored' = rowsStored
      \/ SaveFirstAccount \/ DeleteRows \/ \E c \in Calls : WriteRows(c)
    BY DEF BeginDerive, ChooseIndex, AddDerived, BeginImport, EnterImport, CheckDuplicates,
           JoinWallet, ReadRows, SaveFails, BeginRemove, BeginRename
<1>2. \/ wallets' = wallets
      \/ SaveFirstAccount \/ PublishWallet
      \/ \E c \in Calls : AddDerived(c) \/ JoinWallet(c)
      \/ \E c \in Calls, a \in Accounts : BeginRemove(c, a) \/ BeginRename(c, a)
    BY DEF BeginDerive, ChooseIndex, BeginImport, EnterImport, CheckDuplicates,
           ReadRows, WriteRows, SaveFails
<1>3. \/ calls' = calls
      \/ Crash
      \/ \E c \in Calls :
            \/ BeginDerive(c) \/ ChooseIndex(c) \/ AddDerived(c)
            \/ BeginImport(c) \/ EnterImport(c) \/ CheckDuplicates(c) \/ JoinWallet(c)
            \/ ReadRows(c) \/ WriteRows(c) \/ SaveFails(c)
      \/ \E c \in Calls, a \in Accounts : BeginRemove(c, a) \/ BeginRename(c, a)
    OBVIOUS
<1>. USE DEF BeginDerive, ChooseIndex, AddDerived, BeginImport, EnterImport, CheckDuplicates,
       JoinWallet, ReadRows, WriteRows, SaveFails, BeginRemove, BeginRename
<1>4. \/ removal' = removal
      \/ BeginRemoval \/ Drain \/ DeleteRows \/ DeleteSigner \/ RemovalFails \/ Crash
    OBVIOUS
<1>5. opener' = opener \/ ReadWallet \/ PublishWallet \/ Crash
    OBVIOUS
<1>6. \/ current' = current
      \/ SaveFirstAccount \/ CloseWallet \/ PublishWallet \/ BeginRemoval \/ Crash
    OBVIOUS
<1>7. creating' = creating \/ SaveFirstAccount \/ CreationFails \/ Crash
    OBVIOUS
<1>8. signerStored' = signerStored \/ SaveSigner \/ DeleteSigner
    OBVIOUS
<1>. QED
    BY <1>1, <1>2, <1>3, <1>4, <1>5, <1>6, <1>7, <1>8

\* A crash ends the calls that are under way.
LEMMA CrashMoves ==
    ASSUME AccountTypes, Crash
    PROVE  /\ calls' \in [Calls -> CallRecords]
           /\ \A c \in Calls :
                  /\ calls'[c].wallet = calls[c].wallet /\ calls'[c].account = calls[c].account
                  /\ calls'[c].stage =
                         IF calls[c].stage \in Over THEN calls[c].stage ELSE "failed"
<1>1. ASSUME NEW c \in Calls
      PROVE  /\ calls'[c] \in CallRecords
             /\ calls'[c].wallet = calls[c].wallet /\ calls'[c].account = calls[c].account
             /\ calls'[c].stage = IF calls[c].stage \in Over THEN calls[c].stage ELSE "failed"
    <2>1. calls[c] \in CallRecords /\ NoRows \in RowSets
        BY NoRowsFacts DEF AccountTypes
    <2>2. calls'[c] = IF calls[c].stage \in Over THEN calls[c]
                      ELSE [calls[c] EXCEPT !.stage = "failed", !.view = NoRows]
        BY DEF Crash
    <2>3. LET r == [calls[c] EXCEPT !.stage = "failed", !.view = NoRows]
          IN  r \in CallRecords /\ r.wallet = calls[c].wallet
              /\ r.account = calls[c].account /\ r.stage = "failed"
        BY <2>1 DEF CallRecords, Stages
    <2>. QED
        BY <2>1, <2>2, <2>3
<1>2. calls' = [c \in Calls |-> calls'[c]]
    BY DEF Crash
<1>. QED
    BY <1>1, <1>2

\* A call that is taken from one stage to another.
LEMMA CallsTyped ==
    ASSUME AccountsAssumption, AccountsBase, AccountsNext
    PROVE  calls' \in [Calls -> CallRecords]
<1>1. ASSUME NEW c \in Calls, NEW s, NEW w, NEW a, Moves(c, s, w, a)
      PROVE  calls' \in [Calls -> CallRecords]
    BY <1>1 DEF Moves
<1>2. ASSUME NEW c \in Calls,
             \/ BeginDerive(c) \/ ChooseIndex(c) \/ AddDerived(c)
             \/ BeginImport(c) \/ EnterImport(c) \/ CheckDuplicates(c) \/ JoinWallet(c)
             \/ ReadRows(c) \/ WriteRows(c) \/ SaveFails(c)
      PROVE  calls' \in [Calls -> CallRecords]
    <2>1. CASE \/ BeginDerive(c) \/ AddDerived(c) \/ EnterImport(c) \/ JoinWallet(c)
               \/ SaveFails(c)
        BY <1>1, <2>1, CallMoves DEF AccountsBase
    <2>2. CASE ChooseIndex(c)
        <3>1. Moves(c, "deriving", calls[c].wallet,
                    <<c, DerivationIndex(wallets[calls[c].wallet])>>)
            BY <2>2, CallMoves DEF AccountsBase
        <3>. QED
            BY <1>1, <3>1
    <2>5. CASE BeginImport(c)
        BY <1>1, <2>5, CallMoves DEF AccountsBase
    <2>6. CASE CheckDuplicates(c)
        BY <1>1, <2>6, CallMoves DEF AccountsBase
    <2>3. CASE ReadRows(c)
        BY <1>1, <2>3, CallMoves DEF AccountsBase
    <2>4. CASE WriteRows(c)
        BY <1>1, <2>4, CallMoves DEF AccountsBase
    <2>. QED
        BY <1>2, <2>1, <2>2, <2>3, <2>4, <2>5, <2>6
<1>3. ASSUME NEW c \in Calls, NEW a \in Accounts, BeginRemove(c, a) \/ BeginRename(c, a)
      PROVE  calls' \in [Calls -> CallRecords]
    BY <1>1, <1>3, CallMoves DEF AccountsBase
<1>. QED
    BY <1>2, <1>3, Frames, CrashMoves DEF AccountsBase, AccountTypes

\* Every step keeps the types.
LEMMA TypesKept ==
    ASSUME AccountsAssumption, AccountsBase, AccountsNext
    PROVE  AccountTypes'
<1>1. rowsStored \in RowSets /\ wallets \in Seq(RowSets) /\ Len(wallets) \in Nat
        /\ current \in {0, Len(wallets)} /\ removal \in Removals /\ NoRows \in RowSets
        /\ removal.view \in RowSets /\ removal.wallet \in Nat
    BY WalletsFacts, NoRowsFacts DEF AccountsBase, AccountTypes, Removals
<1>2. rowsStored' \in RowSets
    <2>1. First \in Accounts /\ Given \in {Given} \cup Calls
        BY DEF First, Accounts, AccountsAssumption
    <2>2. Put(rowsStored, First, Given) \in RowSets
        BY <1>1, <2>1, PutFacts
    <2>. QED
        BY <1>1, <2>2, Frames, StoredMoves
<1>3. signerStored' \in BOOLEAN /\ creating' \in BOOLEAN
    BY Frames DEF AccountsBase, AccountTypes, SaveFirstAccount, CreationFails, Crash,
                  SaveSigner, DeleteSigner
<1>4. /\ wallets' \in Seq(RowSets)
      /\ Len(wallets') = Len(wallets) \/ current' = Len(wallets') \/ SaveFirstAccount
    <2>1. ASSUME NEW n, NEW rows, Rewritten(n, rows)
          PROVE  wallets' \in Seq(RowSets) /\ Len(wallets') = Len(wallets)
        BY <2>1 DEF Rewritten
    <2>2. ASSUME NEW c \in Calls, AddDerived(c) \/ JoinWallet(c)
          PROVE  wallets' \in Seq(RowSets) /\ Len(wallets') = Len(wallets)
        BY <1>1, <2>1, <2>2, WalletMoves
    <2>3. ASSUME NEW c \in Calls, NEW a \in Accounts, BeginRemove(c, a) \/ BeginRename(c, a)
          PROVE  wallets' \in Seq(RowSets) /\ Len(wallets') = Len(wallets)
        BY <1>1, <2>1, <2>3, WalletMoves
    <2>. QED
        BY <1>1, <2>2, <2>3, Frames, WalletMoves
<1>5. current' \in {0, Len(wallets')}
    <2>1. CASE SaveFirstAccount
        BY <2>1, WalletMoves
    <2>2. CASE PublishWallet
        BY <2>2 DEF PublishWallet
    <2>3. CASE CloseWallet \/ BeginRemoval \/ Crash
        BY <2>3 DEF CloseWallet, BeginRemoval, Crash
    <2>4. CASE current' = current /\ ~SaveFirstAccount
        BY <1>1, <1>4, <2>4
    <2>. QED
        BY <2>1, <2>2, <2>3, <2>4, Frames
<1>6. \A rows \in opener' : rows \in RowSets
    BY <1>1, Frames, ZenonT(30) DEF AccountsBase, AccountTypes, ReadWallet, PublishWallet, Crash
<1>7. removal' \in Removals
    <2>1. CASE BeginRemoval
        <3>1. NoRemoval \in Removals
            BY <1>1 DEF NoRemoval, Removals
        <3>. QED
            BY <1>1, <2>1, <3>1 DEF BeginRemoval, Removals
    <2>2. CASE Drain
        <3>1. Suspended /\ removal.wallet \in 1 .. Len(wallets)
            BY <1>1, <2>2 DEF Drain, Suspended, AccountsBase, PlacesFit
        <3>2. In(wallets[removal.wallet]) \subseteq Accounts
            BY <1>1, <3>1, WalletsFacts, RowsFacts
        <3>. QED
            BY <1>1, <2>2, <3>2 DEF Drain, BeginDeletion, Removals
    <2>3. CASE DeleteRows
        BY <1>1, <2>3 DEF DeleteRows, Removals
    <2>4. CASE DeleteSigner \/ RemovalFails \/ Crash
        <3>1. NoRemoval \in Removals
            BY <1>1 DEF NoRemoval, Removals
        <3>. QED
            BY <2>4, <3>1 DEF DeleteSigner, RemovalFails, Crash
    <2>. QED
        BY <1>1, <2>1, <2>2, <2>3, <2>4, Frames
<1>. QED
    BY <1>2, <1>3, <1>4, <1>5, <1>6, <1>7, CallsTyped DEF AccountTypes

\* The stage of a removal after each of its steps.
LEMMA RemovalMoves ==
    ASSUME AccountsBase
    PROVE  /\ BeginRemoval => removal'.stage = "draining" /\ removal'.wallet = current
           /\ Drain => removal'.stage = "deleting" /\ removal'.wallet = removal.wallet
           /\ DeleteRows => removal'.stage = "rowsDeleted" /\ removal'.wallet = removal.wallet
           /\ DeleteSigner \/ RemovalFails \/ Crash => removal'.stage = "none"
<1>1. removal \in Removals
    BY DEF AccountsBase, AccountTypes
<1>2. BeginRemoval => removal'.stage = "draining" /\ removal'.wallet = current
    BY DEF BeginRemoval, NoRemoval
<1>3. Drain => removal'.stage = "deleting" /\ removal'.wallet = removal.wallet
    BY <1>1 DEF Drain, BeginDeletion, Removals
<1>4. DeleteRows => removal'.stage = "rowsDeleted" /\ removal'.wallet = removal.wallet
    BY <1>1 DEF DeleteRows, Removals
<1>5. DeleteSigner \/ RemovalFails \/ Crash => removal'.stage = "none"
    <2>1. NoRemoval.stage = "none"
        BY DEF NoRemoval
    <2>2. DeleteSigner \/ RemovalFails \/ Crash => removal' = NoRemoval
        BY DEF DeleteSigner, RemovalFails, Crash
    <2>. QED
        BY <2>1, <2>2
<1>. QED
    BY <1>2, <1>3, <1>4, <1>5

\* Which calls can begin, and what a step asks of the places.
LEMMA CallsKept ==
    ASSUME AccountsAssumption, AccountsBase, AccountsNext
    PROVE  CallsFit'
<1>1. Len(wallets') \in Nat /\ Len(wallets) \in Nat
    BY TypesKept, WalletsFacts DEF AccountsBase, AccountTypes
<1>2. \A c \in Calls : Kind[c] \in {"derive", "import", "rename", "remove"}
    BY DEF AccountsAssumption
\* The wallet objects only become more, or are made when no derivation is there.
<1>3. Len(wallets) <= Len(wallets')
    <2>1. ASSUME NEW n, NEW rows, Rewritten(n, rows)
          PROVE  Len(wallets') = Len(wallets)
        BY <2>1 DEF Rewritten
    <2>2. ASSUME NEW c \in Calls, AddDerived(c) \/ JoinWallet(c)
          PROVE  Len(wallets') = Len(wallets)
        BY <2>1, <2>2, WalletMoves
    <2>3. ASSUME NEW c \in Calls, NEW a \in Accounts, BeginRemove(c, a) \/ BeginRename(c, a)
          PROVE  Len(wallets') = Len(wallets)
        BY <2>1, <2>3, WalletMoves
    <2>4. SaveFirstAccount => Len(wallets) = 0
        BY DEF SaveFirstAccount, AccountsBase, PlacesFit
    <2>. QED
        BY <1>1, <2>2, <2>3, <2>4, Frames, WalletMoves
\* One call, taken to a stage that fits its kind.
<1>. DEFINE Fits(c, s, w, a) ==
        /\ Kind[c] = "derive" =>
               /\ s \notin {"checking", "stored"}
               /\ s \notin {"idle", "failed"} => w \in 1 .. Len(wallets)
               /\ s \in {"deriving", "saving", "writing", "done"} => a[1] = c
        /\ Kind[c] = "import" =>
               /\ s # "deriving"
               /\ s # "idle" => a = <<c, Wanted[c]>>
        /\ Kind[c] \in {"rename", "remove"} =>
               s \in {"idle", "saving", "writing", "done", "failed"}
<1>4. \A c \in Calls : Fits(c, calls[c].stage, calls[c].wallet, calls[c].account)
    BY DEF AccountsBase, CallsFit, Stage, Target
<1>5. SUFFICES \A c \in Calls : Fits(c, calls'[c].stage, calls'[c].wallet, calls'[c].account)
    <2>1. \A w : w \in 1 .. Len(wallets) => w \in 1 .. Len(wallets')
        BY <1>1, <1>3
    <2>. QED
        BY <2>1 DEF CallsFit, Stage, Target
<1>6. ASSUME NEW c \in Calls, NEW s, NEW w, NEW a, Moves(c, s, w, a), Fits(c, s, w, a)
      PROVE  \A d \in Calls : Fits(d, calls'[d].stage, calls'[d].wallet, calls'[d].account)
    <2>1. \A d \in Calls : d # c => calls'[d] = calls[d]
        BY <1>6 DEF Moves
    <2>2. calls'[c].stage = s /\ calls'[c].wallet = w /\ calls'[c].account = a
        BY <1>6 DEF Moves
    <2>. HIDE DEF Fits
    <2>. QED
        BY <1>4, <1>6, <2>1, <2>2
<1>7. ASSUME NEW c \in Calls,
             \/ BeginDerive(c) \/ ChooseIndex(c) \/ AddDerived(c)
             \/ BeginImport(c) \/ EnterImport(c) \/ CheckDuplicates(c) \/ JoinWallet(c)
             \/ ReadRows(c) \/ WriteRows(c) \/ SaveFails(c)
      PROVE  \A d \in Calls : Fits(d, calls'[d].stage, calls'[d].wallet, calls'[d].account)
    <2>1. CASE BeginDerive(c)
        <3>1. Fits(c, "decrypting", current, Target(c))
            BY <1>1, <2>1 DEF BeginDerive, AccountsBase, AccountTypes
        <3>. QED
            BY <1>6, <2>1, <3>1, CallMoves DEF AccountsBase
    <2>2. CASE ChooseIndex(c)
        <3>. DEFINE i == DerivationIndex(wallets[calls[c].wallet])
        <3>1. Fits(c, "deriving", calls[c].wallet, <<c, i>>)
            BY <1>4, <2>2 DEF ChooseIndex, At
        <3>. HIDE DEF Fits
        <3>2. Moves(c, "deriving", calls[c].wallet, <<c, i>>)
            BY <2>2, CallMoves DEF AccountsBase
        <3>. QED
            BY <1>6, <3>1, <3>2
    <2>3. CASE AddDerived(c) \/ EnterImport(c) \/ JoinWallet(c)
        <3>1. AddDerived(c) => Fits(c, "saving", calls[c].wallet, Target(c))
            BY <1>4 DEF AddDerived, At, Target
        <3>2. EnterImport(c) => Fits(c, "checking", calls[c].wallet, Target(c))
            BY <1>4 DEF EnterImport, At, Target
        <3>3. JoinWallet(c) => Fits(c, "done", calls[c].wallet, Target(c))
            BY <1>4 DEF JoinWallet, At, Target
        <3>. HIDE DEF Fits
        <3>. QED
            BY <1>6, <2>3, <3>1, <3>2, <3>3, CallMoves DEF AccountsBase
    <2>4. CASE BeginImport(c)
        <3>1. Fits(c, "decrypting", calls[c].wallet, <<c, Wanted[c]>>)
            BY <2>4 DEF BeginImport
        <3>. HIDE DEF Fits
        <3>. QED
            BY <1>6, <2>4, <3>1, CallMoves DEF AccountsBase
    <2>5. CASE CheckDuplicates(c)
        <3>1. Kind[c] = "import" /\ Fits(c, "failed", calls[c].wallet, Target(c))
                /\ Fits(c, "saving", calls[c].wallet, Target(c))
            BY <1>4, <2>5 DEF CheckDuplicates, At, Target
        <3>2. \/ Moves(c, "failed", calls[c].wallet, Target(c))
              \/ Moves(c, "saving", calls[c].wallet, Target(c))
            BY <2>5, CallMoves DEF AccountsBase
        <3>. HIDE DEF Fits
        <3>. QED
            BY <1>6, <3>1, <3>2
    <2>6. CASE ReadRows(c) \/ WriteRows(c) \/ SaveFails(c)
        <3>1. ReadRows(c) => Fits(c, "writing", calls[c].wallet, Target(c))
            BY <1>4 DEF ReadRows, At, Target
        <3>2. WriteRows(c) => Fits(c, IF Kind[c] = "import" THEN "stored" ELSE "done",
                                   calls[c].wallet, Target(c))
            BY <1>4 DEF WriteRows, At, Target
        <3>3. SaveFails(c) \/ ReadRows(c) => Fits(c, "failed", calls[c].wallet, Target(c))
            BY <1>4 DEF SaveFails, ReadRows, At, Target
        <3>. HIDE DEF Fits
        <3>4. CASE ReadRows(c)
            BY <1>6, <3>1, <3>3, <3>4, CallMoves DEF AccountsBase
        <3>5. CASE WriteRows(c)
            BY <1>6, <3>2, <3>5, CallMoves DEF AccountsBase
        <3>6. CASE SaveFails(c)
            BY <1>6, <3>3, <3>6, CallMoves DEF AccountsBase
        <3>. QED
            BY <2>6, <3>4, <3>5, <3>6
    <2>. QED
        BY <1>7, <2>1, <2>2, <2>3, <2>4, <2>5, <2>6
<1>8. ASSUME NEW c \in Calls, NEW a \in Accounts, BeginRemove(c, a) \/ BeginRename(c, a)
      PROVE  \A d \in Calls : Fits(d, calls'[d].stage, calls'[d].wallet, calls'[d].account)
    <2>1. Fits(c, "saving", calls[c].wallet, a)
        BY <1>8 DEF BeginRemove, BeginRename
    <2>. HIDE DEF Fits
    <2>. QED
        BY <1>6, <1>8, <2>1, CallMoves DEF AccountsBase
<1>9. CASE Crash
    <2>1. ASSUME NEW c \in Calls
          PROVE  Fits(c, calls'[c].stage, calls'[c].wallet, calls'[c].account)
        <3>1. calls[c].stage \notin Over =>
                  Fits(c, "failed", calls[c].wallet, calls[c].account)
            BY <1>4 DEF Over
        <3>. HIDE DEF Fits
        <3>. QED
            BY <1>4, <1>9, <3>1, CrashMoves DEF AccountsBase
    <2>. QED
        BY <2>1
<1>10. CASE calls' = calls
    BY <1>4, <1>10
<1>. HIDE DEF Fits
<1>. QED
    BY <1>7, <1>8, <1>9, <1>10, Frames

\* A step of a call leaves the wallet where it is.
Quiet ==
    /\ removal' = removal /\ opener' = opener /\ current' = current
    /\ creating' = creating /\ signerStored' = signerStored

\* A step of a call leaves the places of the wallet alone.
LEMMA CallsAreQuiet ==
    /\ \A c \in Calls :
           \/ BeginDerive(c) \/ ChooseIndex(c) \/ AddDerived(c)
           \/ BeginImport(c) \/ EnterImport(c) \/ CheckDuplicates(c) \/ JoinWallet(c)
           \/ ReadRows(c) \/ WriteRows(c) \/ SaveFails(c)
           => Quiet
    /\ \A c \in Calls, a \in Accounts : BeginRemove(c, a) \/ BeginRename(c, a) => Quiet
<1>. USE DEF Quiet
<1>1. \A c \in Calls : BeginDerive(c) \/ ChooseIndex(c) \/ AddDerived(c) \/ BeginImport(c)
                         \/ EnterImport(c) => Quiet
    BY DEF BeginDerive, ChooseIndex, AddDerived, BeginImport, EnterImport
<1>2. \A c \in Calls : CheckDuplicates(c) \/ JoinWallet(c) \/ ReadRows(c) \/ WriteRows(c)
                         \/ SaveFails(c) => Quiet
    BY DEF CheckDuplicates, JoinWallet, ReadRows, WriteRows, SaveFails
<1>3. \A c \in Calls, a \in Accounts : BeginRemove(c, a) \/ BeginRename(c, a) => Quiet
    BY DEF BeginRemove, BeginRename
<1>. HIDE DEF Quiet
<1>. QED
    BY <1>1, <1>2, <1>3

\* How many wallet objects there are.
LEMMA WalletsCount ==
    ASSUME AccountsAssumption, AccountsBase, AccountsNext
    PROVE  /\ Len(wallets) \in Nat
           /\ Len(wallets') = Len(wallets) \/ SaveFirstAccount \/ PublishWallet
<1>1. ASSUME NEW n, NEW rows, Rewritten(n, rows)
      PROVE  Len(wallets') = Len(wallets)
    BY <1>1 DEF Rewritten
<1>2. ASSUME NEW c \in Calls, AddDerived(c) \/ JoinWallet(c)
      PROVE  Len(wallets') = Len(wallets)
    BY <1>1, <1>2, WalletMoves
<1>3. ASSUME NEW c \in Calls, NEW a \in Accounts, BeginRemove(c, a) \/ BeginRename(c, a)
      PROVE  Len(wallets') = Len(wallets)
    BY <1>1, <1>3, WalletMoves
<1>. QED
    BY <1>2, <1>3, Frames, WalletsFacts DEF AccountsBase, AccountTypes

\* Every step keeps the places of the wallet.
LEMMA PlacesKept ==
    ASSUME AccountsAssumption, AccountsBase, AccountsNext
    PROVE  PlacesFit'
<1>1. CASE Quiet /\ Len(wallets') = Len(wallets)
    <2>1. Suspended' <=> Suspended
        BY <1>1 DEF Quiet, Suspended
    <2>2. ASSUME creating
          PROVE  \A d \in Calls :
                     calls'[d].stage = "idle" \/ (Kind[d] = "import" /\ signerStored)
        <3>1. current = 0 /\ ~Suspended
                /\ \A d \in Calls :
                       calls[d].stage = "idle" \/ (Kind[d] = "import" /\ signerStored)
            BY <2>2 DEF AccountsBase, PlacesFit, Stage
        <3>2. ASSUME NEW c \in Calls, NEW s, NEW w, NEW a, Moves(c, s, w, a),
                     Kind[c] = "import" /\ signerStored
              PROVE  \A d \in Calls : calls'[d].stage = "idle"
                                        \/ (Kind[d] = "import" /\ signerStored)
            BY <3>1, <3>2 DEF Moves
        <3>3. ASSUME NEW c \in Calls,
                     \/ BeginDerive(c) \/ ChooseIndex(c) \/ AddDerived(c)
                     \/ BeginImport(c) \/ EnterImport(c) \/ CheckDuplicates(c) \/ JoinWallet(c)
                     \/ ReadRows(c) \/ WriteRows(c) \/ SaveFails(c)
              PROVE  Kind[c] = "import" /\ signerStored
            BY <3>1, <3>3 DEF BeginDerive, ChooseIndex, AddDerived, BeginImport, EnterImport,
                  CheckDuplicates, JoinWallet, ReadRows, WriteRows, SaveFails, At
        <3>4. ASSUME NEW c \in Calls,
                     \/ BeginDerive(c) \/ ChooseIndex(c) \/ AddDerived(c)
                     \/ BeginImport(c) \/ EnterImport(c) \/ CheckDuplicates(c) \/ JoinWallet(c)
                     \/ ReadRows(c) \/ WriteRows(c) \/ SaveFails(c)
              PROVE  \E s, w, a : Moves(c, s, w, a)
            <4>1. CASE BeginDerive(c) \/ ChooseIndex(c) \/ AddDerived(c) \/ BeginImport(c)
                BY <4>1, CallMoves DEF AccountsBase
            <4>2. CASE EnterImport(c) \/ CheckDuplicates(c) \/ JoinWallet(c)
                BY <4>2, CallMoves DEF AccountsBase
            <4>3. CASE ReadRows(c)
                BY <4>3, CallMoves DEF AccountsBase
            <4>4. CASE WriteRows(c) \/ SaveFails(c)
                BY <4>4, CallMoves DEF AccountsBase
            <4>. QED
                BY <3>4, <4>1, <4>2, <4>3, <4>4
        <3>5. \A c \in Calls, a \in Accounts : ~BeginRemove(c, a) /\ ~BeginRename(c, a)
            BY <3>1 DEF BeginRemove, BeginRename
        <3>6. ~Crash
            BY <1>1, <2>2 DEF Crash, Quiet
        <3>. QED
            BY <3>1, <3>2, <3>3, <3>4, <3>5, <3>6, Frames
    <2>. QED
        BY <1>1, <2>1, <2>2 DEF Quiet, AccountsBase, PlacesFit, Stage
<1>2. CASE SaveSigner
    BY <1>2 DEF SaveSigner, AccountsBase, PlacesFit, Stage, Suspended
<1>3. CASE SaveFirstAccount
    <2>1. signerStored' /\ ~creating' /\ removal' = removal /\ opener' = opener /\ opener = {}
            /\ ~Suspended
        BY <1>3 DEF SaveFirstAccount, AccountsBase, PlacesFit, AccountTypes
    <2>. QED
        BY <2>1 DEF PlacesFit, Suspended
<1>4. CASE CreationFails
    BY <1>4 DEF CreationFails, AccountsBase, PlacesFit, Suspended
<1>5. CASE CloseWallet
    BY <1>5 DEF CloseWallet, AccountsBase, PlacesFit, Suspended
<1>6. CASE ReadWallet
    BY <1>6 DEF ReadWallet, AccountsBase, PlacesFit, Suspended
<1>7. CASE PublishWallet
    BY <1>7 DEF PublishWallet, AccountsBase, PlacesFit, Suspended
<1>8. CASE BeginRemoval
    <2>1. removal'.wallet = Len(wallets) /\ Len(wallets) # 0 /\ signerStored /\ ~creating
            /\ opener = {}
        BY <1>8, RemovalMoves DEF BeginRemoval, AccountsBase, PlacesFit, AccountTypes
    <2>2. wallets' = wallets /\ signerStored' = signerStored /\ creating' = creating
            /\ opener' = opener /\ current' = 0
        BY <1>8 DEF BeginRemoval
    <2>. QED
        BY <2>1, <2>2 DEF PlacesFit
<1>9. CASE Drain \/ DeleteRows
    <2>1. removal'.wallet = removal.wallet /\ Suspended
        BY <1>9, RemovalMoves DEF Drain, DeleteRows, Suspended
    <2>2. wallets' = wallets /\ signerStored' = signerStored /\ creating' = creating
            /\ opener' = opener /\ current' = current
        BY <1>9 DEF Drain, DeleteRows
    <2>. QED
        BY <2>1, <2>2 DEF AccountsBase, PlacesFit
<1>10. CASE DeleteSigner \/ RemovalFails
    <2>1. ~Suspended' /\ Suspended
        BY <1>10, RemovalMoves DEF DeleteSigner, RemovalFails, Suspended
    <2>2. creating' = creating /\ opener' = opener /\ current' = current
        BY <1>10 DEF DeleteSigner, RemovalFails
    <2>. QED
        BY <2>1, <2>2 DEF AccountsBase, PlacesFit
<1>11. CASE Crash
    <2>1. ~Suspended' /\ creating' = FALSE /\ opener' = {} /\ current' = 0
        BY <1>11, RemovalMoves DEF Crash, Suspended
    <2>. QED
        BY <2>1 DEF PlacesFit
<1>12. CASE Quiet /\ Len(wallets') # Len(wallets)
    BY <1>3, <1>7, <1>12, WalletsCount
<1>. QED
    BY <1>1, <1>2, <1>3, <1>4, <1>5, <1>6, <1>7, <1>8, <1>9, <1>10, <1>11, <1>12,
       CallsAreQuiet DEF AccountsNext

\* Types, places and stages hold together.
LEMMA BaseKept ==
    ASSUME AccountsAssumption, AccountsBase, AccountsNext
    PROVE  AccountsBase'
BY TypesKept, CallsKept, PlacesKept DEF AccountsBase

-----------------------------------------------------------------------------
(* What a caller was told                                                  *)

\* A step as one call sees it.
Same(d) ==
    calls'[d].stage = calls[d].stage /\ calls'[d].account = calls[d].account
      /\ calls'[d].wallet = calls[d].wallet
Ended(d) ==
    /\ calls[d].stage \notin Over /\ calls'[d].stage = "failed"
    /\ calls'[d].account = calls[d].account /\ calls'[d].wallet = calls[d].wallet
    /\ "crashed" \in trouble'

\* What a step does to one call: nothing, its end, or a step of that call.
LEMMA CallSteps ==
    ASSUME AccountsAssumption, AccountsBase, AccountsNext, NEW d \in Calls
    PROVE  \/ Same(d) \/ (Crash /\ Ended(d))
           \/ BeginDerive(d) \/ ChooseIndex(d) \/ AddDerived(d)
           \/ BeginImport(d) \/ EnterImport(d) \/ CheckDuplicates(d) \/ JoinWallet(d)
           \/ ReadRows(d) \/ WriteRows(d) \/ SaveFails(d)
           \/ \E a \in Accounts : BeginRemove(d, a) \/ BeginRename(d, a)
<1>1. ASSUME NEW c \in Calls, NEW s, NEW w, NEW a, Moves(c, s, w, a), c # d
      PROVE  Same(d)
    BY <1>1 DEF Moves, Same
<1>2. ASSUME NEW c \in Calls,
             \/ BeginDerive(c) \/ ChooseIndex(c) \/ AddDerived(c)
             \/ BeginImport(c) \/ EnterImport(c) \/ CheckDuplicates(c) \/ JoinWallet(c)
             \/ ReadRows(c) \/ WriteRows(c) \/ SaveFails(c),
             c # d
      PROVE  Same(d)
    <2>1. CASE BeginDerive(c) \/ ChooseIndex(c) \/ AddDerived(c) \/ BeginImport(c)
        BY <1>1, <1>2, <2>1, CallMoves, ZenonT(30) DEF AccountsBase
    <2>2. CASE EnterImport(c) \/ CheckDuplicates(c) \/ JoinWallet(c)
        BY <1>1, <1>2, <2>2, CallMoves DEF AccountsBase
    <2>3. CASE ReadRows(c)
        BY <1>1, <1>2, <2>3, CallMoves DEF AccountsBase
    <2>4. CASE WriteRows(c) \/ SaveFails(c)
        BY <1>1, <1>2, <2>4, CallMoves DEF AccountsBase
    <2>. QED
        BY <1>2, <2>1, <2>2, <2>3, <2>4
<1>3. ASSUME NEW c \in Calls, NEW a \in Accounts, BeginRemove(c, a) \/ BeginRename(c, a),
             c # d
      PROVE  Same(d)
    BY <1>1, <1>3, CallMoves DEF AccountsBase
<1>4. ASSUME Crash PROVE Same(d) \/ Ended(d)
    <2>1. CASE calls[d].stage \in Over
        BY <1>4, <2>1, CrashMoves DEF Same, AccountsBase
    <2>2. CASE calls[d].stage \notin Over
        <3>1. d \in UnderWay({"derive", "import", "rename", "remove"})
            BY <2>2 DEF UnderWay, AccountsAssumption
        <3>2. "crashed" \in trouble'
            BY <1>4, <3>1 DEF Crash, Adding
        <3>. QED
            BY <1>4, <2>2, <3>2, CrashMoves DEF Ended, AccountsBase
    <2>. QED
        BY <2>1, <2>2
<1>5. calls' = calls => Same(d)
    BY DEF Same
<1>. QED
    BY <1>2, <1>3, <1>4, <1>5, Frames

\* The same, by the stages there are.
LEMMA CallStages ==
    ASSUME AccountsAssumption, AccountsBase, AccountsNext, NEW d \in Calls
    PROVE  /\ calls[d].stage # "idle" => calls'[d].stage # "idle"
           /\ (calls[d].stage \notin {"idle", "decrypting"}
                   \/ (Kind[d] = "import" /\ calls[d].stage # "idle"))
                  => calls'[d].account = calls[d].account
           /\ calls[d].stage # "idle" => calls'[d].wallet = calls[d].wallet
           /\ calls[d].stage \in {"done", "failed"} => Same(d)
           /\ calls'[d].stage \in {"stored", "done"} =>
                  \/ calls[d].stage \in {"stored", "done"}
                  \/ calls[d].stage = "writing" /\ WriteRows(d)
<1>. DEFINE Claims ==
        /\ calls[d].stage # "idle" => calls'[d].stage # "idle"
        /\ (calls[d].stage \notin {"idle", "decrypting"}
                \/ (Kind[d] = "import" /\ calls[d].stage # "idle"))
               => calls'[d].account = calls[d].account
        /\ calls[d].stage # "idle" => calls'[d].wallet = calls[d].wallet
        /\ calls[d].stage \in {"done", "failed"} => Same(d)
        /\ calls'[d].stage \in {"stored", "done"} =>
               \/ calls[d].stage \in {"stored", "done"}
               \/ calls[d].stage = "writing" /\ WriteRows(d)
<1>1. CASE Same(d)
    BY <1>1 DEF Same
<1>2. CASE Crash /\ Ended(d)
    BY <1>2 DEF Ended, Over
<1>3. CASE BeginDerive(d)
    BY <1>3, CallMoves DEF Moves, BeginDerive, CanStart, At, AccountsBase
<1>4. CASE ChooseIndex(d)
    BY <1>4, CallMoves DEF Moves, ChooseIndex, At, AccountsBase
<1>5. CASE AddDerived(d)
    BY <1>5, CallMoves DEF Moves, AddDerived, At, AccountsBase, Target
<1>6. CASE BeginImport(d)
    BY <1>6, CallMoves DEF Moves, BeginImport, CanStart, At, AccountsBase
<1>7. CASE EnterImport(d)
    BY <1>7, CallMoves DEF Moves, EnterImport, At, AccountsBase, Target
<1>8. CASE CheckDuplicates(d)
    BY <1>8, CallMoves DEF Moves, CheckDuplicates, At, AccountsBase, Target
<1>9. CASE JoinWallet(d)
    BY <1>9, CallMoves DEF Moves, JoinWallet, At, AccountsBase, Target
<1>10. CASE ReadRows(d)
    BY <1>10, CallMoves DEF Moves, ReadRows, At, AccountsBase, Target
<1>11. CASE WriteRows(d)
    <2>1. calls[d].stage = "writing"
        BY <1>11 DEF WriteRows, At
    <2>2. Moves(d, IF Kind[d] = "import" THEN "stored" ELSE "done", calls[d].wallet, Target(d))
        BY <1>11, CallMoves DEF AccountsBase
    <2>3. calls'[d].stage \in {"stored", "done"} /\ calls'[d].account = calls[d].account
            /\ calls'[d].wallet = calls[d].wallet
        BY <2>2 DEF Moves, Target
    <2>. QED
        BY <1>11, <2>1, <2>3
<1>12. CASE SaveFails(d)
    BY <1>12, CallMoves DEF Moves, SaveFails, At, AccountsBase, Target
<1>13. ASSUME NEW a \in Accounts, BeginRemove(d, a) \/ BeginRename(d, a)
       PROVE  Claims
    BY <1>13, CallMoves DEF Moves, BeginRemove, BeginRename, CanStart, At, AccountsBase, Target
<1>. QED
    BY <1>1, <1>2, <1>3, <1>4, <1>5, <1>6, <1>7, <1>8, <1>9, <1>10, <1>11, <1>12, <1>13,
       CallSteps

\* What was asked to go stays so.
LEMMA AskedStays ==
    ASSUME AccountsAssumption, AccountsBase, AccountsNext
    PROVE  AskedToGo \subseteq AskedToGo'
<1>1. ASSUME NEW d \in Calls, Kind[d] = "remove", calls[d].stage # "idle"
      PROVE  calls'[d].stage # "idle" /\ calls'[d].account = calls[d].account
    <2>1. calls[d].stage # "decrypting"
        BY <1>1 DEF AccountsBase, CallsFit, Stage
    <2>. QED
        BY <1>1, <2>1, CallStages
<1>. QED
    BY <1>1 DEF AskedToGo, At

\* What a call does to the table.
LEMMA StoredByCall ==
    ASSUME AccountsAssumption, AccountsBase, "lost" \notin trouble',
           NEW d \in Calls, WriteRows(d)
    PROVE  /\ Kind[d] = "remove" => rowsStored' = Drop(rowsStored, {Target(d)})
           /\ Kind[d] = "rename" => rowsStored' = Put(rowsStored, Target(d), d)
           /\ Kind[d] \in {"derive", "import"} => rowsStored' = Put(rowsStored, Target(d), Given)
           /\ Kind[d] = "remove" => In(rowsStored') = In(rowsStored) \ {Target(d)}
           /\ Kind[d] # "remove" => In(rowsStored') = In(rowsStored) \cup {Target(d)}
<1>1. rowsStored \in RowSets /\ Target(d) \in Accounts /\ d \in {Given} \cup Calls
        /\ Given \in {Given} \cup Calls
    BY DEF AccountsBase, AccountTypes, CallRecords, Target
<1>2. Kind[d] \in {"derive", "import", "rename", "remove"}
    BY DEF AccountsAssumption
<1>3. /\ Kind[d] = "remove" => rowsStored' = Drop(rowsStored, {Target(d)})
      /\ Kind[d] = "rename" => rowsStored' = Put(rowsStored, Target(d), d)
      /\ Kind[d] \in {"derive", "import"} => rowsStored' = Put(rowsStored, Target(d), Given)
    BY <1>1, StoredMoves
<1>4. In(Drop(rowsStored, {Target(d)})) = In(rowsStored) \ {Target(d)}
    BY <1>1, DropFacts
<1>5. /\ In(Put(rowsStored, Target(d), d)) = In(rowsStored) \cup {Target(d)}
      /\ In(Put(rowsStored, Target(d), Given)) = In(rowsStored) \cup {Target(d)}
    BY <1>1, PutFacts
<1>. QED
    BY <1>2, <1>3, <1>4, <1>5

\* What leaves the table was asked to, or goes with the wallet.
LEMMA StoredStays ==
    ASSUME AccountsAssumption, AccountsBase, AccountsNext, "lost" \notin trouble'
    PROVE  \/ DeleteRows
           \/ \E d \in Calls : /\ WriteRows(d) /\ Kind[d] = "remove"
                               /\ In(rowsStored') = In(rowsStored) \ {Target(d)}
           \/ \E d \in Calls : /\ WriteRows(d) /\ Kind[d] # "remove"
                               /\ In(rowsStored') = In(rowsStored) \cup {Target(d)}
           \/ SaveFirstAccount /\ In(rowsStored') = In(rowsStored) \cup {First}
           \/ rowsStored' = rowsStored
<1>1. rowsStored \in RowSets /\ First \in Accounts /\ Given \in {Given} \cup Calls
    BY DEF AccountsBase, AccountTypes, First, Accounts, AccountsAssumption
<1>2. SaveFirstAccount => rowsStored' = Put(rowsStored, First, Given)
    BY StoredMoves
<1>3. SaveFirstAccount => In(rowsStored') = In(rowsStored) \cup {First}
    BY <1>1, <1>2, PutFacts
<1>. QED
    BY <1>3, StoredByCall, Frames

\* A step keeps what was reported: it goes only when it was asked to.
LEMMA ReportsKept ==
    ASSUME AccountsAssumption, AccountsBase, ReportsHold, AccountsNext
    PROVE  ReportsHold'
<1>1. SUFFICES ASSUME signerStored', removal'.stage # "rowsDeleted",
                      "lost" \notin trouble', "torn" \notin trouble',
                      NEW c \in Calls, Kind[c] \in {"derive", "import"},
                      calls'[c].stage \in {"stored", "done"}
               PROVE  calls'[c].account \in In(rowsStored') \cup AskedToGo'
    BY DEF ReportsHold, Stage, Target, Without
<1>2. signerStored /\ removal.stage # "rowsDeleted" /\ Without({"lost", "torn"})
    <2>1. signerStored
        <3>1. SUFFICES ASSUME ~signerStored PROVE FALSE
            OBVIOUS
        <3>2. SaveSigner
            BY <1>1, <3>1, Frames DEF DeleteSigner
        <3>3. calls'[c].stage = "idle"
            BY <3>1, <3>2 DEF SaveSigner, AccountsBase, PlacesFit, Stage
        <3>. QED
            BY <1>1, <3>3
    <2>2. removal.stage # "rowsDeleted"
        <3>1. SUFFICES ASSUME removal.stage = "rowsDeleted" PROVE FALSE
            OBVIOUS
        <3>2. DeleteSigner \/ RemovalFails \/ Crash
            BY <1>1, <3>1, Frames DEF BeginRemoval, Drain, DeleteRows, Suspended
        <3>3. ~DeleteSigner
            BY <1>1 DEF DeleteSigner
        <3>. QED
            BY <1>1, <3>1, <3>2, <3>3 DEF RemovalFails, Crash, Adding
    <2>. QED
        BY <1>1, <2>1, <2>2, TroubleGrows DEF Without
<1>3. CASE calls[c].stage \in {"stored", "done"}
    <2>1. calls'[c].account = calls[c].account
            /\ calls[c].account \in In(rowsStored) \cup AskedToGo
        BY <1>1, <1>2, <1>3, CallStages DEF ReportsHold, Stage, Target
    <2>2. ~DeleteRows
        BY <1>1, RemovalMoves
    <2>3. \A d \in Calls : WriteRows(d) /\ Kind[d] = "remove" => Target(d) \in AskedToGo
        BY DEF WriteRows, At, AskedToGo, Target
    <2>. QED
        BY <1>1, <2>1, <2>2, <2>3, AskedStays, StoredStays
<1>4. CASE WriteRows(c)
    <2>1. calls'[c].account = Target(c)
        BY <1>4, CallMoves DEF Moves, AccountsBase
    <2>. QED
        BY <1>1, <1>4, <2>1, StoredByCall
<1>. QED
    BY <1>1, <1>3, <1>4, CallStages

-----------------------------------------------------------------------------
(* Where accounts come from, and what an opening reads                     *)

\* A derivation that does not fail goes forward, and an import that has stored
\* its account does so or fails.
LEMMA CallsForward ==
    ASSUME AccountsAssumption, AccountsBase, AccountsNext, NEW d \in Calls,
           Kind[d] = "derive" => calls'[d].stage # "failed"
    PROVE  /\ Kind[d] = "derive" /\ calls[d].stage \in {"saving", "writing", "done"}
                  => calls'[d].stage \in {"saving", "writing", "done"}
           /\ Kind[d] = "import" /\ calls[d].stage \in {"stored", "done", "failed"}
                  => calls'[d].stage \in {"stored", "done", "failed"}
<1>1. CASE Same(d) \/ (Crash /\ Ended(d))
    BY <1>1 DEF Same, Ended
<1>2. CASE BeginDerive(d) \/ ChooseIndex(d) \/ BeginImport(d) \/ EnterImport(d)
    BY <1>2 DEF BeginDerive, ChooseIndex, BeginImport, EnterImport, CanStart, At
<1>3. CASE AddDerived(d) \/ CheckDuplicates(d)
    BY <1>3 DEF AddDerived, CheckDuplicates, At
<1>4. CASE JoinWallet(d)
    <2>1. Kind[d] = "import"
        BY <1>4 DEF JoinWallet
    <2>2. calls'[d].stage = "done"
        BY <1>4, CallMoves DEF Moves, AccountsBase
    <2>. QED
        BY <2>1, <2>2
<1>5. CASE ReadRows(d)
    <2>1. calls[d].stage = "saving"
        BY <1>5 DEF ReadRows, At
    <2>2. calls'[d].stage \in {"writing", "failed"}
        BY <1>5, CallMoves DEF Moves, AccountsBase
    <2>. QED
        BY <2>1, <2>2
<1>6. CASE WriteRows(d)
    <2>1. calls[d].stage = "writing"
        BY <1>6 DEF WriteRows, At
    <2>2. calls'[d].stage = IF Kind[d] = "import" THEN "stored" ELSE "done"
        BY <1>6, CallMoves DEF Moves, AccountsBase
    <2>. QED
        BY <2>1, <2>2
<1>7. CASE SaveFails(d)
    <2>1. calls'[d].stage = "failed"
        BY <1>7, CallMoves DEF Moves, AccountsBase
    <2>. QED
        BY <2>1
<1>8. \A a \in Accounts :
          BeginRemove(d, a) \/ BeginRename(d, a) => Kind[d] \in {"remove", "rename"}
    BY DEF BeginRemove, BeginRename
<1>. QED
    BY <1>1, <1>2, <1>3, <1>4, <1>5, <1>6, <1>7, <1>8, CallSteps

\* What a call has made stays made, while no derivation fails.
LEMMA MadeStays ==
    ASSUME AccountsAssumption, AccountsBase, AccountsNext, NEW a,
           \A c \in Calls : Kind[c] = "derive" => calls'[c].stage # "failed"
    PROVE  (Made(a) => Made(a)') /\ (Written(a) => Written(a)')
<1>1. CASE a[1] \notin Calls
    BY <1>1 DEF Made, Written
<1>2. CASE a[1] \in Calls
    <2>1. Kind[a[1]] = "import" /\ calls[a[1]].stage \in {"done", "failed"}
              => calls'[a[1]].stage \in {"done", "failed"}
        BY <1>2, CallStages DEF Same
    <2>. QED
        BY <1>2, <2>1, CallsForward DEF Made, Written, Stage
<1>. QED
    BY <1>1, <1>2

\* Where the accounts of a wallet object come from.
LEMMA WalletRows ==
    ASSUME AccountsAssumption, AccountsBase, AccountsNext,
           NEW n \in 1 .. Len(wallets'), NEW a \in In(wallets'[n])
    PROVE  \/ n \in 1 .. Len(wallets) /\ a \in In(wallets[n])
           \/ SaveFirstAccount /\ a = First
           \/ \E rows \in opener : a \in In(rows)
           \/ \E c \in Calls : (AddDerived(c) \/ JoinWallet(c)) /\ a = Target(c)
<1>1. Len(wallets) \in Nat /\ \A m \in 1 .. Len(wallets) : wallets[m] \in RowSets
    BY WalletsFacts DEF AccountsBase, AccountTypes
<1>2. \A c \in Calls : Target(c) \in Accounts /\ c \in {Given} \cup Calls
        /\ Given \in {Given} \cup Calls
    BY DEF AccountsBase, AccountTypes, CallRecords, Target
<1>3. CASE SaveFirstAccount
    <2>1. First \in Accounts
        BY DEF First, Accounts, AccountsAssumption
    <2>2. In(Put(NoRows, First, Given)) = {First}
        BY <1>2, <2>1, PutFacts, NoRowsFacts
    <2>3. n = 1 /\ wallets'[1] = Put(NoRows, First, Given)
        BY <1>3, WalletMoves
    <2>. QED
        BY <1>3, <2>2, <2>3
<1>4. CASE PublishWallet
    <2>1. PICK rows \in opener :
              /\ Len(wallets') = Len(wallets) + 1
              /\ wallets'[Len(wallets')] = rows
              /\ \A m \in 1 .. Len(wallets) : wallets'[m] = wallets[m]
        BY <1>4, WalletMoves
    <2>2. n \in 1 .. Len(wallets) \/ n = Len(wallets')
        BY <1>1, <2>1
    <2>. QED
        BY <2>1, <2>2
\* One object has changed, by one account that was put there, or dropped.
<1>5. ASSUME NEW k, NEW rows, Rewritten(k, rows),
             a \in In(rows) => a \in In(wallets[k])
      PROVE  n \in 1 .. Len(wallets) /\ a \in In(wallets[n])
    BY <1>5 DEF Rewritten
<1>6. ASSUME NEW c \in Calls, AddDerived(c) \/ JoinWallet(c), a # Target(c)
      PROVE  n \in 1 .. Len(wallets) /\ a \in In(wallets[n])
    <2>1. CASE wallets' = wallets
        BY <2>1
    <2>2. ASSUME NEW k, Rewritten(k, Put(wallets[k], Target(c), Given))
          PROVE  n \in 1 .. Len(wallets) /\ a \in In(wallets[n])
        <3>1. k \in 1 .. Len(wallets)
            BY <2>2 DEF Rewritten
        <3>2. In(Put(wallets[k], Target(c), Given)) = In(wallets[k]) \cup {Target(c)}
            BY <1>1, <1>2, <3>1, PutFacts
        <3>. QED
            BY <1>5, <1>6, <2>2, <3>2
    <2>. QED
        BY <1>6, <2>1, <2>2, WalletMoves
<1>7. ASSUME NEW c \in Calls, NEW b \in Accounts, BeginRemove(c, b) \/ BeginRename(c, b)
      PROVE  n \in 1 .. Len(wallets) /\ a \in In(wallets[n])
    <2>1. CASE wallets' = wallets
        BY <2>1
    <2>2. CASE Rewritten(current, Drop(wallets[current], {b}))
        <3>1. current \in 1 .. Len(wallets)
            BY <2>2 DEF Rewritten
        <3>2. In(Drop(wallets[current], {b})) \subseteq In(wallets[current])
            BY <1>1, <3>1, DropFacts
        <3>. QED
            BY <1>5, <2>2, <3>2
    <2>3. CASE b \in In(wallets[current]) /\ Rewritten(current, Put(wallets[current], b, c))
        <3>1. current \in 1 .. Len(wallets)
            BY <2>3 DEF Rewritten
        <3>2. In(Put(wallets[current], b, c)) = In(wallets[current]) \cup {b}
            BY <1>1, <1>2, <3>1, PutFacts
        <3>. QED
            BY <1>5, <2>3, <3>2
    <2>. QED
        BY <1>7, <2>1, <2>2, <2>3, WalletMoves
<1>8. CASE wallets' = wallets
    BY <1>8
<1>. QED
    BY <1>3, <1>4, <1>6, <1>7, <1>8, Frames

\* Nothing went wrong before a step after which nothing has.
LEMMA CleanBefore ==
    ASSUME AccountsNext, Clean'
    PROVE  /\ Clean
           /\ "failed" \notin trouble' /\ "reopened" \notin trouble'
           /\ "lost" \notin trouble' /\ "crashed" \notin trouble'
BY TroubleGrows DEF Clean, Without

\* Nor had a derivation failed that has not failed now.
LEMMA SteadyBefore ==
    ASSUME AccountsAssumption, AccountsBase, AccountsNext, Steady'
    PROVE  /\ Steady
           /\ \A c \in Calls : Kind[c] = "derive" => calls'[c].stage # "failed"
           /\ "reopened" \notin trouble' /\ "lost" \notin trouble'
<1>1. \A c \in Calls : Kind[c] = "derive" => calls'[c].stage # "failed"
    BY DEF Steady, Stage
<1>2. \A c \in Calls : Kind[c] = "derive" => calls[c].stage # "failed"
    BY <1>1, CallStages DEF Same
<1>3. Without({"reopened", "lost"})' /\ Without({"reopened", "lost"})
    BY TroubleGrows DEF Steady, Without
<1>. QED
    BY <1>1, <1>2, <1>3 DEF Steady, Stage, Without

\* Where no call failed no derivation did.
LEMMA CleanIsSteady ==
    ASSUME Clean, FailuresNoted
    PROVE  Steady
BY DEF Clean, Steady, FailuresNoted, Without

\* A derivation fails of its own, or with the process.
LEMMA FailuresKept ==
    ASSUME AccountsAssumption, AccountsBase, FailuresNoted, AccountsNext
    PROVE  FailuresNoted'
<1>1. SUFFICES ASSUME NEW c \in Calls, Kind[c] = "derive", calls'[c].stage = "failed"
               PROVE  "failed" \in trouble' \/ "crashed" \in trouble'
    BY DEF FailuresNoted, Stage
<1>2. CASE calls[c].stage = "failed"
    BY <1>1, <1>2, TroubleGrows DEF FailuresNoted, Stage
<1>3. CASE Same(c) \/ (Crash /\ Ended(c))
    BY <1>1, <1>2, <1>3 DEF Same, Ended
<1>4. CASE SaveFails(c)
    BY <1>4 DEF SaveFails, Adding
<1>5. CASE BeginDerive(c) \/ ChooseIndex(c) \/ AddDerived(c)
    BY <1>1, <1>5, CallMoves DEF Moves, AccountsBase
<1>6. CASE ReadRows(c)
    BY <1>1, <1>6, CallMoves DEF Moves, AccountsBase
<1>7. CASE WriteRows(c)
    <2>1. calls'[c].stage = IF Kind[c] = "import" THEN "stored" ELSE "done"
        BY <1>7, CallMoves DEF Moves, AccountsBase
    <2>. QED
        BY <1>1, <2>1
<1>8. ~BeginImport(c) /\ ~EnterImport(c) /\ ~CheckDuplicates(c) /\ ~JoinWallet(c)
    BY <1>1 DEF BeginImport, EnterImport, CheckDuplicates, JoinWallet
<1>9. \A a \in Accounts : ~BeginRemove(c, a) /\ ~BeginRename(c, a)
    BY <1>1 DEF BeginRemove, BeginRename
<1>. QED
    BY <1>3, <1>4, <1>5, <1>6, <1>7, <1>8, <1>9, CallSteps

\* The account of a call, once the call has put it in memory or in storage.
LEMMA WrittenByCall ==
    ASSUME AccountsAssumption, AccountsBase, NEW c \in Calls, NEW a, a = Target(c)
    PROVE  /\ AddDerived(c) \/ JoinWallet(c) => Made(a)'
           /\ WriteRows(c) /\ Kind[c] \in {"derive", "import"} => Written(a)'
<1>1. ASSUME AddDerived(c) PROVE Made(a)'
    <2>1. Kind[c] = "derive" /\ calls[c].stage = "deriving"
        BY <1>1 DEF AddDerived, At
    <2>2. a[1] = c
        BY <2>1 DEF AccountsBase, CallsFit, Stage
    <2>3. calls'[c].stage = "saving"
        BY <1>1, CallMoves DEF Moves, AccountsBase
    <2>. QED
        BY <2>1, <2>2, <2>3 DEF Made, Stage
<1>2. ASSUME JoinWallet(c) PROVE Made(a)'
    <2>1. Kind[c] = "import" /\ calls[c].stage = "stored"
        BY <1>2 DEF JoinWallet, At
    <2>2. a[1] = c
        BY <2>1 DEF AccountsBase, CallsFit, Stage
    <2>3. calls'[c].stage = "done"
        BY <1>2, CallMoves DEF Moves, AccountsBase
    <2>. QED
        BY <2>1, <2>2, <2>3 DEF Made, Stage
<1>3. ASSUME WriteRows(c), Kind[c] \in {"derive", "import"} PROVE Written(a)'
    <2>1. calls[c].stage = "writing"
        BY <1>3 DEF WriteRows, At
    <2>2. a[1] = c
        BY <1>3, <2>1 DEF AccountsBase, CallsFit, Stage
    <2>3. calls'[c].stage = IF Kind[c] = "import" THEN "stored" ELSE "done"
        BY <1>3, CallMoves DEF Moves, AccountsBase
    <2>. QED
        BY <1>3, <2>2, <2>3 DEF Made, Written, Stage
<1>. QED
    BY <1>1, <1>2, <1>3

\* Every account that turns up has its call.
LEMMA OriginsKept ==
    ASSUME AccountsAssumption, AccountsBase, SteadyInv, AccountsNext, Steady'
    PROVE  Origins'
<1>1. /\ Origins /\ "lost" \notin trouble' /\ "reopened" \notin trouble'
      /\ \A c \in Calls : Kind[c] = "derive" => calls'[c].stage # "failed"
    BY SteadyBefore DEF SteadyInv
<1>2. ASSUME NEW a PROVE (Made(a) => Made(a)') /\ (Written(a) => Written(a)')
    BY <1>1, MadeStays
<1>3. ASSUME NEW a, a = First PROVE Made(a)' /\ Written(a)'
    <2>1. a[1] \notin Calls
        BY <1>3 DEF First, AccountsAssumption
    <2>. QED
        BY <2>1 DEF Made, Written
<1>4. ASSUME NEW n \in 1 .. Len(wallets'), NEW a \in In(wallets'[n])
      PROVE  Made(a)'
    BY <1>1, <1>2, <1>3, <1>4, WalletRows, WrittenByCall DEF Origins
<1>5. ASSUME NEW rows \in opener', NEW a \in In(rows)
      PROVE  Made(a)'
    <2>1. CASE opener' = opener
        BY <1>1, <1>2, <2>1 DEF Origins
    <2>2. CASE ReadWallet
        <3>1. Written(a)
            BY <1>1, <1>5, <2>2 DEF ReadWallet, Origins
        <3>2. a[1] \in Calls => Kind[a[1]] \in {"derive", "import", "rename", "remove"}
            BY DEF AccountsAssumption
        <3>3. a[1] \in Calls => calls[a[1]].stage \in Over
            BY <1>1, <2>2, <3>2 DEF ReadWallet, Adding, UnderWay
        <3>4. Made(a)
            BY <3>1, <3>3 DEF Written, Stage, Over
        <3>. QED
            BY <1>2, <3>4
    <2>3. ~PublishWallet /\ ~Crash
        BY <1>5 DEF PublishWallet, Crash
    <2>. QED
        BY <2>1, <2>2, <2>3, Frames
<1>6. \A n \in 1 .. Len(wallets) : \A a \in In(wallets[n]) : Made(a)
    BY <1>1 DEF Origins
<1>7. current # 0 => current \in 1 .. Len(wallets)
    BY WalletsFacts DEF AccountsBase, AccountTypes
<1>8. ASSUME NEW c \in Calls, Kind[c] = "remove", calls'[c].stage # "idle",
             NEW a, a = calls'[c].account
      PROVE  Made(a)'
    <2>1. CASE calls[c].stage # "idle"
        <3>1. calls[c].stage # "decrypting"
            BY <1>8 DEF AccountsBase, CallsFit, Stage
        <3>2. a = calls[c].account
            BY <1>8, <2>1, <3>1, CallStages
        <3>. QED
            BY <1>1, <1>2, <1>8, <2>1, <3>2 DEF Origins, Stage, Target
    <2>2. CASE calls[c].stage = "idle"
        <3>1. PICK b \in Accounts : BeginRemove(c, b)
            BY <1>8, <2>2, CallSteps DEF Same, Ended, Over, BeginDerive, ChooseIndex,
               AddDerived, BeginImport, EnterImport, CheckDuplicates, JoinWallet, ReadRows,
               WriteRows, SaveFails, BeginRename, At
        <3>2. a = b
            BY <1>8, <3>1, CallMoves DEF Moves, AccountsBase
        <3>3. current # 0 /\ b \in In(wallets[current])
            BY <3>1 DEF BeginRemove
        <3>. QED
            BY <1>2, <1>6, <1>7, <3>2, <3>3
    <2>. QED
        BY <2>1, <2>2
<1>9. ASSUME NEW c \in Calls, Kind[c] = "rename", calls'[c].stage # "idle",
             NEW a, a = calls'[c].account
      PROVE  Written(a)'
    <2>1. CASE calls[c].stage # "idle"
        <3>1. calls[c].stage # "decrypting"
            BY <1>9 DEF AccountsBase, CallsFit, Stage
        <3>2. a = calls[c].account
            BY <1>9, <2>1, <3>1, CallStages
        <3>. QED
            BY <1>1, <1>2, <1>9, <2>1, <3>2 DEF Origins, Stage, Target
    <2>2. CASE calls[c].stage = "idle"
        <3>1. PICK b \in Accounts : BeginRename(c, b)
            BY <1>9, <2>2, CallSteps DEF Same, Ended, Over, BeginDerive, ChooseIndex,
               AddDerived, BeginImport, EnterImport, CheckDuplicates, JoinWallet, ReadRows,
               WriteRows, SaveFails, BeginRemove, At
        <3>2. a = b
            BY <1>9, <3>1, CallMoves DEF Moves, AccountsBase
        <3>3. current # 0 /\ b \in In(wallets[current]) \cup In(rowsStored)
            BY <3>1 DEF BeginRename
        <3>4. Written(b)
            BY <1>1, <1>6, <1>7, <3>3 DEF Origins, Written
        <3>. QED
            BY <1>2, <3>2, <3>4
    <2>. QED
        BY <2>1, <2>2
<1>10. ASSUME NEW a \in In(rowsStored')
       PROVE  Written(a)'
    <2>1. CASE a \in In(rowsStored)
        BY <1>1, <1>2, <2>1 DEF Origins
    <2>2. ASSUME NEW d \in Calls, WriteRows(d), Kind[d] # "remove", a = Target(d)
          PROVE  Written(a)'
        <3>1. CASE Kind[d] \in {"derive", "import"}
            BY <2>2, <3>1, WrittenByCall
        <3>2. CASE Kind[d] = "rename"
            <4>1. calls[d].stage = "writing"
                BY <2>2 DEF WriteRows, At
            <4>2. Written(a)
                BY <1>1, <2>2, <3>2, <4>1 DEF Origins, Stage
            <4>. QED
                BY <1>2, <4>2
        <3>. QED
            BY <2>2, <3>1, <3>2 DEF AccountsAssumption
    <2>3. DeleteRows => In(rowsStored') \subseteq In(rowsStored)
        BY <1>1, StoredMoves, DropFacts DEF AccountsBase, AccountTypes
    <2>. QED
        BY <1>1, <1>3, <1>10, <2>1, <2>2, <2>3, StoredStays
<1>. QED
    BY <1>4, <1>5, <1>8, <1>9, <1>10 DEF Origins, Stage, Target

\* What an opening has read stays what is stored, or the opening counts as crossed.
LEMMA ReadingKept ==
    ASSUME AccountsAssumption, AccountsBase, ReadIsStored, AccountsNext,
           "reopened" \notin trouble'
    PROVE  ReadIsStored'
<1>1. SUFFICES ASSUME opener' # {}
               PROVE  /\ opener' = {rowsStored'}
                      /\ \A c \in Calls :
                             \/ calls'[c].stage \in Over
                             \/ Kind[c] = "import" /\ calls'[c].stage # "stored"
    BY DEF ReadIsStored, Stage
<1>2. CASE ReadWallet
    <2>1. \A c \in Calls : calls[c].stage \in Over
        BY <1>2 DEF ReadWallet, Adding, UnderWay, AccountsAssumption
    <2>. QED
        BY <1>2, <2>1 DEF ReadWallet
<1>3. CASE opener' = opener
    <2>1. /\ current = 0 /\ ~Suspended /\ ~creating /\ opener = {rowsStored}
          /\ \A c \in Calls : calls[c].stage \in Over
                 \/ (Kind[c] = "import" /\ calls[c].stage # "stored")
        BY <1>1, <1>3 DEF AccountsBase, PlacesFit, ReadIsStored, Stage
    <2>2. \A c \in Calls : ~WriteRows(c)
        BY <2>1 DEF WriteRows, Adding
    <2>3. rowsStored' = rowsStored
        BY <2>1, <2>2, Frames DEF SaveFirstAccount, DeleteRows, Suspended
    <2>4. ASSUME NEW c \in Calls
          PROVE  \/ calls'[c].stage \in Over
                 \/ Kind[c] = "import" /\ calls'[c].stage # "stored"
        <3>1. CASE calls[c].stage \in Over /\ Same(c)
            BY <3>1 DEF Same
        <3>2. CASE Kind[c] = "import" /\ calls[c].stage \notin Over
            BY <2>1, <2>2, <3>2, CallStages DEF Over
        <3>3. CASE ~Same(c) /\ calls[c].stage \in Over
            <4>1. BeginImport(c)
                BY <2>1, <3>3, CallSteps DEF Ended, Over, BeginDerive, ChooseIndex,
                   AddDerived, EnterImport, CheckDuplicates, JoinWallet, ReadRows,
                   WriteRows, SaveFails, BeginRemove, BeginRename, At
            <4>2. calls'[c].stage = "decrypting"
                BY <4>1, CallMoves DEF Moves, AccountsBase
            <4>. QED
                BY <4>1, <4>2 DEF BeginImport
        <3>. QED
            BY <2>1, <3>1, <3>2, <3>3
    <2>. QED
        BY <1>3, <2>1, <2>3, <2>4
<1>. QED
    BY <1>1, <1>2, <1>3, Frames DEF PublishWallet, Crash

\* Where accounts come from, and what an opening has read, together.
LEMMA SteadyKept ==
    ASSUME AccountsAssumption, AccountsBase, SteadyInv, AccountsNext
    PROVE  SteadyInv'
<1>1. FailuresNoted'
    BY FailuresKept DEF SteadyInv
<1>2. ASSUME Steady' PROVE Origins' /\ ReadIsStored'
    BY <1>2, OriginsKept, ReadingKept, SteadyBefore DEF SteadyInv
<1>. QED
    BY <1>1, <1>2 DEF SteadyInv

-----------------------------------------------------------------------------
(* The wallet keeps an account                                             *)

\* A removal takes an account from the open wallet, and leaves another one.
LEMMA RemoveMoves ==
    ASSUME AccountsAssumption, AccountsBase, NEW c \in Calls, NEW a \in Accounts,
           BeginRemove(c, a)
    PROVE  /\ Len(wallets') = Len(wallets) /\ Len(wallets) # 0 /\ Last \in RowSets
           /\ current # 0 /\ a \in In(Last) /\ Last' = Drop(Last, {a})
           /\ In(Last') = In(Last) \ {a} /\ In(Last') # {}
<1>1. Len(wallets) \in Nat /\ \A m \in 1 .. Len(wallets) : wallets[m] \in RowSets
    BY WalletsFacts DEF AccountsBase, AccountTypes
<1>2. current # 0 /\ a \in In(wallets[current]) /\ Cardinality(In(wallets[current])) > 1
    BY DEF BeginRemove
<1>3. current = Len(wallets) /\ wallets[current] = Last /\ Last \in RowSets
    BY <1>1, <1>2 DEF AccountsBase, AccountTypes, Last
<1>4. Rewritten(current, Drop(wallets[current], {a}))
    BY WalletMoves
<1>5. Len(wallets') = Len(wallets) /\ Last' = Drop(Last, {a})
    BY <1>3, <1>4 DEF Rewritten, Last
<1>6. In(Last') = In(Last) \ {a}
    BY <1>3, <1>5, DropFacts
<1>7. In(Last) # {a}
    <2>1. Cardinality({a}) = 1
        BY FS_Singleton
    <2>2. SUFFICES ASSUME In(Last) = {a} PROVE FALSE
        OBVIOUS
    <2>3. Cardinality(In(Last)) > 1
        BY <1>2, <1>3
    <2>4. Cardinality(In(Last)) = 1
        BY <2>1, <2>2
    <2>. QED
        BY <2>3, <2>4
<1>. QED
    BY <1>2, <1>3, <1>5, <1>6, <1>7

\* The last wallet object after a step.
LEMMA LastMoves ==
    ASSUME AccountsAssumption, AccountsBase, AccountsNext
    PROVE  \/ Len(wallets') = Len(wallets) /\ Last' = Last
           \/ SaveFirstAccount /\ Len(wallets') = 1 /\ Last' = Put(NoRows, First, Given)
           \/ PublishWallet /\ Len(wallets') = Len(wallets) + 1 /\ Last' \in opener
           \/ /\ Len(wallets') = Len(wallets) /\ Len(wallets) # 0 /\ Last \in RowSets
              /\ \/ \E c \in Calls : /\ AddDerived(c) /\ calls[c].wallet = Len(wallets)
                                     /\ Last' = Put(Last, Target(c), Given)
                 \/ \E c \in Calls : /\ JoinWallet(c) /\ current # 0
                                     /\ Last' = Put(Last, Target(c), Given)
                 \/ \E c \in Calls, a \in Accounts :
                       /\ current # 0 /\ a \in In(Last)
                       /\ \/ BeginRemove(c, a) /\ Last' = Drop(Last, {a})
                          \/ BeginRename(c, a) /\ Last' = Put(Last, a, c)
<1>1. Len(wallets) \in Nat /\ \A m \in 1 .. Len(wallets) : wallets[m] \in RowSets
    BY WalletsFacts DEF AccountsBase, AccountTypes
<1>2. current # 0 => current = Len(wallets) /\ wallets[current] = Last /\ Last \in RowSets
                       /\ Len(wallets) # 0
    BY <1>1 DEF AccountsBase, AccountTypes, Last
<1>3. SaveFirstAccount => Len(wallets') = 1 /\ Last' = Put(NoRows, First, Given)
    BY WalletMoves DEF Last
<1>4. PublishWallet => Len(wallets') = Len(wallets) + 1 /\ Last' \in opener
    BY WalletMoves DEF Last
<1>5. wallets' = wallets => Len(wallets') = Len(wallets) /\ Last' = Last
    BY DEF Last
<1>6. ASSUME NEW k, NEW rows, Rewritten(k, rows)
      PROVE  /\ Len(wallets') = Len(wallets) /\ Len(wallets) # 0 /\ Last \in RowSets
             /\ k = Len(wallets) => Last' = rows
             /\ k # Len(wallets) => Last' = Last
    BY <1>1, <1>6 DEF Rewritten, Last
<1>7. ASSUME NEW c \in Calls, AddDerived(c)
      PROVE  /\ Len(wallets') = Len(wallets) /\ Len(wallets) # 0 /\ Last \in RowSets
             /\ \/ Last' = Last
                \/ calls[c].wallet = Len(wallets) /\ Last' = Put(Last, Target(c), Given)
    <2>1. Rewritten(calls[c].wallet, Put(wallets[calls[c].wallet], Target(c), Given))
        BY <1>7, WalletMoves
    <2>. QED
        BY <1>6, <2>1 DEF Last
<1>8. ASSUME NEW c \in Calls, JoinWallet(c), current # 0
      PROVE  Len(wallets') = Len(wallets) /\ Last' = Put(Last, Target(c), Given)
    <2>1. Rewritten(current, Put(wallets[current], Target(c), Given))
        BY <1>8, WalletMoves
    <2>. QED
        BY <1>2, <1>6, <1>8, <2>1
<1>9. ASSUME NEW c \in Calls, NEW a \in Accounts, BeginRemove(c, a)
      PROVE  /\ Len(wallets') = Len(wallets) /\ Last' = Drop(Last, {a})
             /\ current # 0 /\ a \in In(Last)
    BY <1>9, RemoveMoves
<1>10. ASSUME NEW c \in Calls, NEW a \in Accounts, BeginRename(c, a), a \in In(wallets[current])
       PROVE  /\ Len(wallets') = Len(wallets) /\ Last' = Put(Last, a, c)
              /\ current # 0 /\ a \in In(Last)
    <2>1. Rewritten(current, Put(wallets[current], a, c)) /\ current # 0
        BY <1>10, WalletMoves DEF BeginRename
    <2>. QED
        BY <1>2, <1>6, <1>10, <2>1
<1>11. ASSUME NEW c \in Calls, AddDerived(c) \/ JoinWallet(c)
       PROVE  \/ Len(wallets') = Len(wallets) /\ Last' = Last
              \/ /\ Len(wallets') = Len(wallets) /\ Len(wallets) # 0 /\ Last \in RowSets
                 /\ \/ /\ AddDerived(c) /\ calls[c].wallet = Len(wallets)
                       /\ Last' = Put(Last, Target(c), Given)
                    \/ JoinWallet(c) /\ current # 0 /\ Last' = Put(Last, Target(c), Given)
    <2>1. CASE AddDerived(c)
        BY <1>7, <2>1
    <2>2. CASE JoinWallet(c) /\ current = 0
        BY <1>5, <2>2, WalletMoves
    <2>3. CASE JoinWallet(c) /\ current # 0
        BY <1>2, <1>8, <2>3
    <2>. QED
        BY <1>11, <2>1, <2>2, <2>3
<1>12. ASSUME NEW c \in Calls, NEW a \in Accounts, BeginRemove(c, a) \/ BeginRename(c, a)
       PROVE  \/ Len(wallets') = Len(wallets) /\ Last' = Last
              \/ /\ Len(wallets') = Len(wallets) /\ Len(wallets) # 0 /\ Last \in RowSets
                 /\ current # 0 /\ a \in In(Last)
                 /\ \/ BeginRemove(c, a) /\ Last' = Drop(Last, {a})
                    \/ BeginRename(c, a) /\ Last' = Put(Last, a, c)
    <2>1. CASE BeginRemove(c, a)
        BY <1>2, <1>9, <2>1
    <2>2. CASE BeginRename(c, a) /\ a \in In(wallets[current])
        BY <1>2, <1>10, <2>2
    <2>3. CASE BeginRename(c, a) /\ a \notin In(wallets[current])
        BY <1>5, <2>3, WalletMoves
    <2>. QED
        BY <1>12, <2>1, <2>2, <2>3
<1>. QED
    BY <1>3, <1>4, <1>5, <1>11, <1>12, Frames

\* A removal of an account under way has just begun, or was before.
LEMMA RemovingSteps ==
    ASSUME AccountsAssumption, AccountsBase, AccountsNext,
           NEW c \in Calls, Kind[c] = "remove", calls'[c].stage \in InWriting
    PROVE  \/ \E b \in Accounts : BeginRemove(c, b) /\ calls'[c].account = b
           \/ calls[c].stage \in InWriting /\ calls'[c].account = Target(c)
<1>1. ASSUME NEW b \in Accounts, BeginRemove(c, b)
      PROVE  calls'[c].account = b
    BY <1>1, CallMoves DEF Moves, AccountsBase
<1>2. CASE \A b \in Accounts : ~BeginRemove(c, b)
    <2>1. calls[c].stage \in {"idle", "saving", "writing", "done", "failed"}
        BY DEF AccountsBase, CallsFit, Stage
    <2>2. calls[c].stage # "done"
        BY CallStages DEF Same, InWriting
    <2>3. calls[c].stage \notin {"idle", "failed"}
        <3>1. SUFFICES ASSUME calls[c].stage \in {"idle", "failed"} PROVE FALSE
            OBVIOUS
        <3>2. ~Same(c)
            BY <3>1 DEF Same, InWriting
        <3>. QED
            BY <1>2, <3>1, <3>2, CallSteps DEF Ended, Over, BeginDerive, ChooseIndex,
               AddDerived, BeginImport, EnterImport, CheckDuplicates, JoinWallet, ReadRows,
               WriteRows, SaveFails, BeginRename, At
    <2>4. calls'[c].account = Target(c)
        BY <2>1, <2>3, CallStages DEF Target
    <2>. QED
        BY <2>1, <2>2, <2>3, <2>4 DEF InWriting
<1>. QED
    BY <1>1, <1>2

\* A step keeps an account in the last wallet object, and storage behind it.
LEMMA LastKept ==
    ASSUME AccountsAssumption, AccountsBase, ReportsHold, SteadyInv, SmoothInv, AccountsNext,
           Steady', "torn" \notin trouble'
    PROVE  LastIsStored'
<1>1. /\ Origins /\ ReadIsStored /\ LastIsStored
      /\ \A c \in Calls : Kind[c] = "derive" => calls'[c].stage # "failed"
      /\ "lost" \notin trouble' /\ "torn" \notin trouble /\ "lost" \notin trouble
    BY SteadyBefore, TroubleGrows DEF SteadyInv, SmoothInv, Without
<1>2. Given \in {Given} \cup Calls
        /\ \A c \in Calls : Target(c) \in Accounts /\ c \in {Given} \cup Calls
    BY DEF AccountsBase, AccountTypes, CallRecords, Target
\* What is being removed is none of those that get to memory just now.
<1>3. ASSUME NEW c \in Calls, AddDerived(c) \/ JoinWallet(c), NEW d \in Calls,
             Kind[d] = "remove", calls[d].stage # "idle"
      PROVE  Target(d) # Target(c)
    <2>1. Made(Target(d))
        BY <1>1, <1>3 DEF Origins, Stage
    <2>2. Target(c)[1] = c
        BY <1>3 DEF AddDerived, JoinWallet, At, AccountsBase, CallsFit, Stage
    <2>3. ~Made(Target(c))
        BY <1>3, <2>2 DEF AddDerived, JoinWallet, At, Made, Stage
    <2>. QED
        BY <2>1, <2>3
<1>4. ASSUME signerStored', ~creating', removal'.stage # "rowsDeleted"
      PROVE  /\ Len(wallets') # 0 /\ In(Last') # {}
             /\ \A a \in In(Last') :
                    \/ a \in In(rowsStored')
                    \/ \E c \in Calls : /\ Kind[c] = "derive" /\ calls'[c].stage \in InWriting
                                        /\ calls'[c].account = a
    <2>1. CASE SaveFirstAccount
        <3>1. First \in Accounts /\ rowsStored \in RowSets
            BY DEF First, Accounts, AccountsAssumption, AccountsBase, AccountTypes
        <3>2. In(Last') = {First} /\ Len(wallets') = 1
            BY <1>2, <2>1, <3>1, WalletMoves, PutFacts, NoRowsFacts DEF Last
        <3>3. rowsStored' = Put(rowsStored, First, Given)
            BY <2>1, StoredMoves
        <3>4. First \in In(rowsStored')
            BY <1>2, <3>1, <3>3, PutFacts
        <3>. QED
            BY <3>2, <3>4
    <2>2. CASE ~SaveFirstAccount
        <3>1. signerStored
            <4>1. signerStored \in BOOLEAN /\ creating \in BOOLEAN
                BY DEF AccountsBase, AccountTypes
            <4>2. ~SaveSigner /\ ~DeleteSigner
                BY <1>4, <4>1 DEF SaveSigner, DeleteSigner
            <4>. QED
                BY <1>4, <4>1, <4>2, Frames
        <3>2. ~creating
            BY <1>1, <1>4, <2>2, <3>1, Frames DEF CreationFails, Crash, Adding
        <3>3. removal.stage # "rowsDeleted"
            <4>1. SUFFICES ASSUME removal.stage = "rowsDeleted" PROVE FALSE
                OBVIOUS
            <4>2. DeleteSigner \/ RemovalFails \/ Crash
                BY <1>4, <4>1, Frames DEF BeginRemoval, Drain, DeleteRows, Suspended
            <4>. QED
                BY <1>1, <1>4, <4>1, <4>2 DEF DeleteSigner, RemovalFails, Crash, Adding
        <3>4. /\ Len(wallets) # 0 /\ In(Last) # {}
              /\ \A a \in In(Last) :
                     \/ a \in In(rowsStored)
                     \/ \E c \in Calls : /\ Kind[c] = "derive" /\ calls[c].stage \in InWriting
                                         /\ calls[c].account = a
              /\ \A c \in Calls : Kind[c] = "remove" /\ calls[c].stage \in InWriting
                     => Target(c) \notin In(Last)
            BY <1>1, <3>1, <3>2, <3>3 DEF LastIsStored, Stage, Target
        <3>. DEFINE Covered(a) ==
                \/ a \in In(rowsStored')
                \/ \E c \in Calls : /\ Kind[c] = "derive" /\ calls'[c].stage \in InWriting
                                    /\ calls'[c].account = a
        <3>5. ASSUME NEW a \in In(Last) PROVE Covered(a)
            <4>1. CASE a \in In(rowsStored)
                <5>1. ~DeleteRows
                    BY <1>4, RemovalMoves
                <5>2. \A d \in Calls : WriteRows(d) /\ Kind[d] = "remove" => Target(d) # a
                    BY <3>4 DEF WriteRows, At, InWriting
                <5>. QED
                    BY <1>1, <2>2, <4>1, <5>1, <5>2, StoredStays
            <4>2. ASSUME NEW c \in Calls, Kind[c] = "derive", calls[c].stage \in InWriting,
                         calls[c].account = a
                  PROVE  Covered(a)
                <5>1. calls'[c].stage \in {"saving", "writing", "done"} /\ calls'[c].account = a
                    BY <1>1, <4>2, CallsForward, CallStages DEF InWriting
                <5>2. CASE calls'[c].stage = "done"
                    <6>1. WriteRows(c)
                        BY <4>2, <5>2, CallStages DEF InWriting
                    <6>2. a \in In(rowsStored')
                        BY <1>1, <4>2, <6>1, StoredByCall DEF Target
                    <6>. QED
                        BY <6>2
                <5>. QED
                    BY <4>2, <5>1, <5>2 DEF InWriting
            <4>. QED
                BY <3>4, <4>1, <4>2
        <3>6. CASE Len(wallets') = Len(wallets) /\ Last' = Last
            BY <3>4, <3>5, <3>6
        <3>7. CASE PublishWallet /\ Last' \in opener
            <4>1. opener # {} /\ rowsStored' = rowsStored
                BY <3>7 DEF PublishWallet
            <4>2. Last' = rowsStored /\ \A c \in Calls :
                      Kind[c] = "derive" => calls[c].stage \notin InWriting
                BY <1>1, <3>7, <4>1 DEF ReadIsStored, Stage, Over, InWriting
            <4>3. In(rowsStored) # {}
                BY <3>4, <4>2
            <4>4. Len(wallets') # 0
                BY <3>7, WalletMoves, WalletsFacts DEF AccountsBase, AccountTypes
            <4>. QED
                BY <4>1, <4>2, <4>3, <4>4
        <3>8. ASSUME NEW c \in Calls, AddDerived(c), Len(wallets') = Len(wallets),
                     Last \in RowSets, Last' = Put(Last, Target(c), Given)
              PROVE  Len(wallets') # 0 /\ In(Last') # {} /\ \A a \in In(Last') : Covered(a)
            <4>1. In(Last') = In(Last) \cup {Target(c)}
                BY <1>2, <3>8, PutFacts
            <4>2. /\ Kind[c] = "derive" /\ calls'[c].stage = "saving"
                  /\ calls'[c].account = Target(c)
                BY <3>8, CallMoves DEF AddDerived, Moves, AccountsBase
            <4>3. Covered(Target(c))
                BY <4>2 DEF InWriting
            <4>. HIDE DEF Covered
            <4>. QED
                BY <3>4, <3>5, <3>8, <4>1, <4>3
        <3>9. ASSUME NEW c \in Calls, JoinWallet(c), Len(wallets') = Len(wallets),
                     Last \in RowSets, Last' = Put(Last, Target(c), Given)
              PROVE  Len(wallets') # 0 /\ In(Last') # {} /\ \A a \in In(Last') : Covered(a)
            <4>1. In(Last') = In(Last) \cup {Target(c)}
                BY <1>2, <3>9, PutFacts
            <4>2. Kind[c] = "import" /\ calls[c].stage = "stored" /\ rowsStored' = rowsStored
                BY <3>9 DEF JoinWallet, At
            <4>3. Target(c) \in In(rowsStored) \cup AskedToGo
                BY <1>1, <3>1, <3>3, <4>2 DEF ReportsHold, Without, Stage
            <4>4. Target(c) \notin AskedToGo
                BY <1>3, <3>9 DEF AskedToGo, At, Target
            <4>5. Covered(Target(c))
                BY <4>2, <4>3, <4>4
            <4>. HIDE DEF Covered
            <4>. QED
                BY <3>4, <3>5, <3>9, <4>1, <4>5
        <3>10. ASSUME NEW c \in Calls, NEW b \in Accounts, BeginRemove(c, b)
               PROVE  Len(wallets') # 0 /\ In(Last') # {} /\ \A a \in In(Last') : Covered(a)
            <4>1. Len(wallets') # 0 /\ In(Last') # {} /\ In(Last') = In(Last) \ {b}
                BY <3>4, <3>10, RemoveMoves
            <4>. HIDE DEF Covered
            <4>. QED
                BY <3>5, <4>1
        <3>11. ASSUME NEW c \in Calls, NEW b \in Accounts, b \in In(Last),
                      Len(wallets') = Len(wallets),
                      Last \in RowSets, Last' = Put(Last, b, c)
               PROVE  Len(wallets') # 0 /\ In(Last') # {} /\ \A a \in In(Last') : Covered(a)
            <4>1. In(Last') = In(Last) \cup {b}
                BY <1>2, <3>11, PutFacts
            <4>. HIDE DEF Covered
            <4>. QED
                BY <3>4, <3>5, <3>11, <4>1
        <3>. QED
            BY <2>2, <3>6, <3>7, <3>8, <3>9, <3>10, <3>11, LastMoves
    <2>. QED
        BY <2>1, <2>2
<1>5. ASSUME Len(wallets') # 0, NEW c \in Calls, Kind[c] = "remove",
             calls'[c].stage \in InWriting
      PROVE  calls'[c].account \notin In(Last')
    <2>1. ASSUME NEW b \in Accounts, BeginRemove(c, b)
          PROVE  calls'[c].account \notin In(Last')
        <3>1. calls'[c].account = b
            BY <2>1, CallMoves DEF Moves, AccountsBase
        <3>. QED
            BY <2>1, <3>1, RemoveMoves
    <2>2. CASE \A b \in Accounts : ~BeginRemove(c, b)
        <3>1. calls[c].stage \in InWriting
            BY <1>5, <2>2, RemovingSteps
        <3>2. calls'[c].account = Target(c)
            BY <3>1, CallStages DEF InWriting, Target
        <3>3. Len(wallets) # 0 => Target(c) \notin In(Last)
            BY <1>1, <1>5, <3>1 DEF LastIsStored, Stage
        <3>4. ~SaveFirstAccount
            BY <1>5, <3>1 DEF SaveFirstAccount, AccountsBase, PlacesFit, Stage, InWriting
        <3>5. ~PublishWallet
            BY <1>1, <1>5, <3>1 DEF PublishWallet, ReadIsStored, Stage, Over, InWriting
        <3>6. CASE Len(wallets') = Len(wallets) /\ Last' = Last
            BY <1>5, <3>2, <3>3, <3>6
        <3>7. ASSUME NEW d \in Calls, AddDerived(d) \/ JoinWallet(d), Len(wallets) # 0,
                     Last \in RowSets, Last' = Put(Last, Target(d), Given)
              PROVE  Target(c) \notin In(Last')
            <4>1. In(Last') = In(Last) \cup {Target(d)}
                BY <1>2, <3>7, PutFacts
            <4>2. Target(c) # Target(d)
                BY <1>3, <1>5, <3>1, <3>7 DEF InWriting
            <4>. QED
                BY <3>3, <3>7, <4>1, <4>2
        <3>8. ASSUME NEW d \in Calls, NEW b \in Accounts, BeginRemove(d, b)
              PROVE  Target(c) \notin In(Last')
            BY <3>3, <3>8, RemoveMoves
        <3>9. ASSUME NEW d \in Calls, NEW b \in Accounts, b \in In(Last), Len(wallets) # 0,
                     Last \in RowSets, Last' = Put(Last, b, d)
              PROVE  Target(c) \notin In(Last')
            <4>1. In(Last') = In(Last) \cup {b}
                BY <1>2, <3>9, PutFacts
            <4>. QED
                BY <3>3, <3>9, <4>1
        <3>. QED
            BY <3>2, <3>4, <3>5, <3>6, <3>7, <3>8, <3>9, LastMoves
    <2>. QED
        BY <2>1, <2>2
<1>. QED
    BY <1>4, <1>5 DEF LastIsStored, Stage, Target

\* The same, as a part of the invariant.
LEMMA SmoothKept ==
    ASSUME AccountsAssumption, AccountsBase, ReportsHold, SteadyInv, SmoothInv, AccountsNext
    PROVE  SmoothInv'
BY LastKept DEF SmoothInv, Without

-----------------------------------------------------------------------------
(* Calls that do not meet, and indexes                                     *)

\* A call that is under way was so before, or has begun.
LEMMA BeginsOrGoesOn ==
    ASSUME AccountsAssumption, AccountsBase, AccountsNext, NEW d \in Calls,
           calls'[d].stage \notin Over
    PROVE  \/ calls[d].stage \notin Over
           \/ BeginDerive(d) \/ BeginImport(d)
           \/ \E a \in Accounts : BeginRemove(d, a) \/ BeginRename(d, a)
<1>1. SUFFICES ASSUME calls[d].stage \in Over
               PROVE  \/ BeginDerive(d) \/ BeginImport(d)
                      \/ \E a \in Accounts : BeginRemove(d, a) \/ BeginRename(d, a)
    OBVIOUS
<1>2. ~Same(d)
    BY <1>1 DEF Same
<1>. QED
    BY <1>1, <1>2, CallSteps DEF Ended, Over, ChooseIndex, AddDerived, EnterImport,
       CheckDuplicates, JoinWallet, ReadRows, WriteRows, SaveFails, At

\* While a call begins the others do nothing.
LEMMA BeginsAlone ==
    ASSUME AccountsAssumption, AccountsBase, NEW c \in Calls,
           \/ BeginDerive(c) \/ BeginImport(c)
           \/ \E a \in Accounts : BeginRemove(c, a) \/ BeginRename(c, a)
    PROVE  \A d \in Calls : d # c => calls'[d] = calls[d]
BY CallMoves DEF Moves, AccountsBase

\* What a step that keeps calls apart may start from.
LEMMA ApartBefore ==
    ASSUME AccountsNext, Apart', ApartInv, SteadyInv
    PROVE  /\ Clean' /\ CallsApart /\ IndexesApart /\ ReadIsStored
           /\ "mixed" \notin trouble' /\ "contended" \notin trouble'
           /\ "failed" \notin trouble' /\ "reopened" \notin trouble'
           /\ "lost" \notin trouble' /\ "crashed" \notin trouble'
<1>1. Clean' /\ "mixed" \notin trouble' /\ "contended" \notin trouble'
    BY DEF Apart, Without
<1>2. Apart
    BY <1>1, CleanBefore, TroubleGrows DEF Apart, Without
<1>. QED
    BY <1>1, <1>2, CleanBefore, CleanIsSteady DEF ApartInv, SteadyInv

\* What is removed in the end has gone from the table.
LEMMA StayingMoves ==
    ASSUME AccountsAssumption, AccountsBase, AccountsNext, CallsApart,
           "lost" \notin trouble', "failed" \notin trouble', "crashed" \notin trouble',
           NEW a \in Staying'
    PROVE  \/ a \in Staying
           \/ SaveFirstAccount /\ a = First
           \/ \E c \in Calls : /\ WriteRows(c) /\ Kind[c] \in {"derive", "import"}
                               /\ a = Target(c)
<1>1. a \in In(rowsStored') /\ \A c \in Calls :
          Kind[c] = "remove" /\ calls'[c].stage \in InWriting => calls'[c].account # a
    BY DEF Staying, Going, Stage, Target
<1>2. CASE a \in In(rowsStored)
    <2>1. SUFFICES ASSUME NEW c \in Calls, Kind[c] = "remove", calls[c].stage \in InWriting,
                          a = Target(c)
                   PROVE  FALSE
        BY <1>2 DEF Staying, Going, Stage
    <2>2. calls'[c].account = a
        BY <2>1, CallStages DEF InWriting, Target
    <2>3. calls'[c].stage \notin InWriting
        BY <1>1, <2>1, <2>2
    <2>4. WriteRows(c)
        <3>1. ~Same(c)
            BY <2>1, <2>3 DEF Same
        <3>2. ReadRows(c) => calls'[c].stage = "writing"
            BY <2>1, CallMoves DEF Moves, AccountsBase
        <3>. QED
            BY <2>1, <2>3, <3>1, <3>2, CallSteps DEF Ended, InWriting, BeginDerive,
               ChooseIndex, AddDerived, BeginImport, EnterImport, CheckDuplicates,
               JoinWallet, SaveFails, Adding, BeginRename, BeginRemove, CanStart, At
    <2>. QED
        BY <1>1, <2>1, <2>4, StoredByCall
<1>3. CASE a \notin In(rowsStored)
    <2>1. ASSUME NEW c \in Calls, WriteRows(c), Kind[c] # "remove", a = Target(c)
          PROVE  Kind[c] \in {"derive", "import"}
        <3>1. Kind[c] = "rename" => c \in UnderWay({"rename"}) /\ Stage(c) = "writing"
            BY <2>1 DEF WriteRows, At, UnderWay, Over, Stage
        <3>. QED
            BY <1>3, <2>1, <3>1 DEF CallsApart, AccountsAssumption
    <2>2. DeleteRows => In(rowsStored') \subseteq In(rowsStored)
        BY StoredMoves, DropFacts DEF AccountsBase, AccountTypes
    <2>. QED
        BY <1>1, <1>3, <2>1, <2>2, StoredStays
<1>. QED
    BY <1>2, <1>3

Doing(kind, c) == Kind[c] = kind /\ calls[c].stage \notin Over

\* CallsApart, call by call.
LEMMA OneByOne ==
    ASSUME CallsApart
    PROVE  /\ \A c, d \in Calls : Doing("derive", c) /\ Doing("derive", d) => c = d
           /\ \A c, d \in Calls : Doing("derive", c) => ~Doing("import", d)
           /\ \A c \in Calls : Doing("derive", c) => calls[c].wallet = Len(wallets)
           /\ \A c, d \in Calls :
                  /\ Doing("import", c) /\ calls[c].stage \notin {"decrypting", "checking"}
                  /\ Doing("import", d) /\ calls[d].stage \notin {"decrypting", "checking"}
                  => c = d
           /\ \A c \in Calls : Doing("rename", c) =>
                  /\ ~Suspended /\ Target(c) \notin Going
                  /\ calls[c].stage = "writing" => Target(c) \in In(rowsStored)
<1>1. \A k : \A c \in Calls : c \in UnderWay({k}) <=> Doing(k, c)
    BY DEF UnderWay, Doing
<1>2. \A c, d \in Calls : Doing("derive", c) /\ Doing("derive", d) => c = d
    BY <1>1 DEF CallsApart
<1>3. ASSUME NEW c \in Calls, NEW d \in Calls, Doing("derive", c), Doing("import", d)
      PROVE  FALSE
    <2>1. c \in UnderWay({"derive"}) /\ d \in UnderWay({"import"})
        BY <1>1, <1>3
    <2>. QED
        BY <2>1 DEF CallsApart
<1>4. \A c \in Calls : Doing("derive", c) => calls[c].wallet = Len(wallets)
    BY <1>1 DEF CallsApart
<1>5. ASSUME NEW c \in Calls, NEW d \in Calls, Doing("import", c), Doing("import", d),
             calls[c].stage \notin {"decrypting", "checking"},
             calls[d].stage \notin {"decrypting", "checking"}
      PROVE  c = d
    <2>1. c \in UnderWay({"import"}) /\ d \in UnderWay({"import"})
        BY <1>1, <1>5
    <2>2. {calls[c].stage, calls[d].stage} \cap {"decrypting", "checking"} = {}
        BY <1>5
    <2>. QED
        BY <2>1, <2>2 DEF CallsApart, Stage
<1>6. ASSUME NEW c \in Calls, Doing("rename", c)
      PROVE  /\ ~Suspended /\ Target(c) \notin Going
             /\ calls[c].stage = "writing" => Target(c) \in In(rowsStored)
    <2>1. c \in UnderWay({"rename"})
        BY <1>1, <1>6
    <2>. QED
        BY <2>1 DEF CallsApart, Stage
<1>. QED
    BY <1>2, <1>3, <1>4, <1>5, <1>6

\* Guards and keys keep the calls apart.
LEMMA CallsApartKept ==
    ASSUME AccountsAssumption, AccountsBase, SteadyInv, ApartInv, AccountsNext, Apart'
    PROVE  CallsApart'
<1>0. /\ CallsApart /\ ReadIsStored /\ "mixed" \notin trouble' /\ "contended" \notin trouble'
      /\ "failed" \notin trouble' /\ "reopened" \notin trouble'
      /\ "lost" \notin trouble' /\ "crashed" \notin trouble'
    BY ApartBefore
\* The calls that are under way now, in the terms of before.
<1>. DEFINE Now(k, c) == Kind[c] = k /\ calls[c].stage \notin Over
            Then(k, c) == Kind[c] = k /\ calls'[c].stage \notin Over
<1>1. /\ \A k : \A c \in Calls : c \in UnderWay({k})' <=> Then(k, c)
      /\ \A k : \A c \in Calls : c \in UnderWay({k}) <=> Now(k, c)
    BY DEF UnderWay
<1>12. /\ \A c, d \in Calls : Now("derive", c) /\ Now("derive", d) => c = d
       /\ \A c, d \in Calls : Now("derive", c) => ~Now("import", d)
       /\ \A c \in Calls : Now("derive", c) => calls[c].wallet = Len(wallets)
       /\ \A c, d \in Calls :
              /\ Now("import", c) /\ calls[c].stage \notin {"decrypting", "checking"}
              /\ Now("import", d) /\ calls[d].stage \notin {"decrypting", "checking"}
              => c = d
       /\ \A c \in Calls : Now("rename", c) =>
              /\ ~Suspended /\ Target(c) \notin Going
              /\ calls[c].stage = "writing" => Target(c) \in In(rowsStored)
    BY <1>0, OneByOne DEF Doing
<1>2. \A K : UnderWay(K) = {} <=> \A c \in Calls : Kind[c] \in K => calls[c].stage \in Over
    BY DEF UnderWay
<1>3. /\ \A c \in Calls : Then("derive", c) => Now("derive", c) \/ BeginDerive(c)
      /\ \A c \in Calls : Then("import", c) => Now("import", c) \/ BeginImport(c)
      /\ \A c \in Calls : Then("rename", c) =>
             Now("rename", c) \/ \E a \in Accounts : BeginRename(c, a)
    BY BeginsOrGoesOn DEF BeginDerive, BeginImport, BeginRename, BeginRemove
\* Creation
<1>4. ASSUME creating'
      PROVE  In(rowsStored') = {} /\ \A c \in Calls : calls'[c].stage = "idle"
    <2>1. creating /\ ~SaveFirstAccount /\ ~Crash
        BY <1>4, Frames DEF SaveFirstAccount, CreationFails, Crash
    <2>2. /\ In(rowsStored) = {} /\ current = 0 /\ ~Suspended
          /\ \A c \in Calls : calls[c].stage = "idle"
        BY <1>0, <2>1 DEF CallsApart, AccountsBase, PlacesFit, Stage
    <2>3. \A c \in Calls : ~BeginImport(c)
        BY <1>0, <2>1 DEF BeginImport, Adding
    <2>4. \A c \in Calls : Same(c)
        BY <2>1, <2>2, <2>3, CallSteps DEF BeginDerive, ChooseIndex, AddDerived, EnterImport,
           CheckDuplicates, JoinWallet, ReadRows, WriteRows, SaveFails, BeginRename,
           BeginRemove, At
    <2>5. In(rowsStored') = {}
        BY <1>0, <2>1, <2>2, StoredStays DEF DeleteRows, Suspended, WriteRows, At
    <2>. QED
        BY <2>2, <2>4, <2>5 DEF Same
\* One derivation, and no import with it
<1>5. ASSUME NEW c \in Calls, NEW d \in Calls, Then("derive", c), Then("derive", d)
      PROVE  c = d
    <2>1. CASE Now("derive", c) /\ Now("derive", d)
        BY <1>12, <2>1
    <2>2. ASSUME NEW e \in Calls, NEW f \in Calls, BeginDerive(e), Then("derive", f), e # f
          PROVE  FALSE
        <3>1. Now("derive", f)
            BY <2>2, BeginsAlone
        <3>. QED
            BY <1>2, <2>2, <3>1 DEF BeginDerive
    <2>. QED
        BY <1>3, <1>5, <2>1, <2>2
<1>6. ASSUME NEW c \in Calls, NEW d \in Calls, Then("derive", c), Then("import", d)
      PROVE  FALSE
    <2>1. CASE Now("derive", c) /\ Now("import", d)
        BY <1>12, <2>1
    <2>2. CASE BeginDerive(c)
        <3>1. Now("import", d)
            BY <1>6, <2>2, BeginsAlone DEF BeginDerive
        <3>. QED
            BY <1>0, <1>2, <2>2, <3>1 DEF BeginDerive, Adding
    <2>3. CASE BeginImport(d)
        <3>1. Now("derive", c)
            BY <1>6, <2>3, BeginsAlone DEF BeginImport
        <3>. QED
            BY <1>0, <1>2, <2>3, <3>1 DEF BeginImport, Adding
    <2>. QED
        BY <1>3, <1>6, <2>1, <2>2, <2>3
\* The derivation works on the last wallet object
<1>7. ASSUME NEW c \in Calls, Then("derive", c)
      PROVE  calls'[c].wallet = Len(wallets')
    <2>1. CASE Now("derive", c)
        <3>1. calls'[c].wallet = Len(wallets)
            BY <1>12, <2>1, CallStages DEF Over
        <3>2. ~SaveFirstAccount
            BY <2>1 DEF SaveFirstAccount, AccountsBase, PlacesFit, Stage, Over
        <3>3. ~PublishWallet
            BY <1>0, <2>1 DEF PublishWallet, ReadIsStored, Stage
        <3>. QED
            BY <3>1, <3>2, <3>3, WalletsCount
    <2>2. CASE BeginDerive(c)
        <3>1. calls'[c].wallet = current /\ current # 0 /\ wallets' = wallets
            BY <2>2, CallMoves DEF BeginDerive, Moves, AccountsBase
        <3>. QED
            BY <3>1 DEF AccountsBase, AccountTypes
    <2>. QED
        BY <1>3, <1>7, <2>1, <2>2
\* One import past the check
<1>8. ASSUME NEW c \in Calls, NEW d \in Calls, Then("import", c), Then("import", d),
             {calls'[c].stage, calls'[d].stage} \cap {"decrypting", "checking"} = {}
      PROVE  c = d
    <2>. DEFINE Past(e) == Now("import", e) /\ calls[e].stage \notin {"decrypting", "checking"}
    <2>1. ASSUME NEW e \in Calls, Then("import", e),
                 calls'[e].stage \notin {"decrypting", "checking"}
          PROVE  Past(e) \/ CheckDuplicates(e)
        <3>1. CASE Same(e)
            BY <2>1, <3>1 DEF Same
        <3>2. ~BeginImport(e)
            BY <2>1, CallMoves DEF Moves, AccountsBase
        <3>3. Now("import", e)
            BY <1>3, <2>1, <3>2
        <3>4. calls[e].stage = "decrypting" => EnterImport(e) \/ Same(e)
            BY <1>0, <3>3, CallSteps DEF Ended, BeginDerive, ChooseIndex, AddDerived, BeginImport,
               CheckDuplicates, JoinWallet, ReadRows, WriteRows, SaveFails, BeginRename,
               BeginRemove, CanStart, At
        <3>5. ~EnterImport(e)
            BY <2>1, CallMoves DEF Moves, AccountsBase
        <3>6. calls[e].stage = "checking" => CheckDuplicates(e) \/ Same(e)
            BY <1>0, <3>3, CallSteps DEF Ended, BeginDerive, ChooseIndex, AddDerived, BeginImport,
               EnterImport, JoinWallet, ReadRows, WriteRows, SaveFails, Adding, BeginRename,
               BeginRemove, CanStart, At
        <3>. QED
            BY <3>1, <3>3, <3>4, <3>5, <3>6
    <2>2. CASE Past(c) /\ Past(d)
        BY <1>12, <2>2
    <2>3. ASSUME NEW e \in Calls, NEW f \in Calls, CheckDuplicates(e), e # f,
                 Then("import", f), calls'[f].stage \notin {"decrypting", "checking"}
          PROVE  FALSE
        <3>1. calls'[f] = calls[f]
            BY <2>3, CallMoves DEF Moves, AccountsBase
        <3>2. f \in UnderWay({"import"}) \ {e}
            BY <1>1, <2>3, <3>1
        <3>. QED
            BY <2>3, <3>1, <3>2 DEF CheckDuplicates
    <2>. QED
        BY <1>8, <2>1, <2>2, <2>3
\* Renames, and what is removed under them
<1>9. ASSUME NEW c \in Calls, Then("rename", c)
      PROVE  ~Suspended'
    <2>1. CASE Now("rename", c)
        <3>1. ~Suspended
            BY <1>12, <2>1
        <3>2. ~BeginRemoval
            BY <1>0, <1>2, <2>1 DEF BeginRemoval, Adding
        <3>3. removal' = removal \/ Crash
            BY <3>1, <3>2, Frames DEF Drain, DeleteRows, DeleteSigner, RemovalFails, Suspended
        <3>. QED
            BY <3>1, <3>3, RemovalMoves DEF Suspended
    <2>2. ASSUME NEW a \in Accounts, BeginRename(c, a)
          PROVE  ~Suspended'
        BY <2>2 DEF BeginRename, AccountsBase, PlacesFit, Suspended
    <2>. QED
        BY <1>3, <1>9, <2>1, <2>2
<1>10. ASSUME NEW c \in Calls, Then("rename", c), NEW d \in Calls,
              Kind[d] = "remove", calls'[d].stage \in InWriting
       PROVE  calls'[d].account # calls'[c].account
    <2>1. CASE Now("rename", c)
        <3>1. calls'[c].account = Target(c)
            BY <2>1, CallStages DEF AccountsBase, CallsFit, Stage, Over, Target
        <3>2. Target(c) \notin Going
            BY <1>12, <2>1
        <3>3. CASE calls[d].stage \in InWriting /\ calls'[d].account = Target(d)
            BY <1>10, <3>1, <3>2, <3>3 DEF Going, Stage
        <3>4. ASSUME NEW b \in Accounts, BeginRemove(d, b), b = Target(c)
              PROVE  FALSE
            <4>1. c \in On(b, {"rename", "derive"})
                BY <2>1, <3>4 DEF On, UnderWay, Target
            <4>. QED
                BY <1>0, <3>4, <4>1 DEF BeginRemove, Adding
        <3>. QED
            BY <1>10, <3>1, <3>3, <3>4, RemovingSteps
    <2>2. ASSUME NEW a \in Accounts, BeginRename(c, a)
          PROVE  calls'[d].account # calls'[c].account
        <3>1. calls'[c].account = a /\ calls'[d] = calls[d]
            BY <1>10, <2>2, CallMoves DEF Moves, AccountsBase
        <3>2. calls[d].account = a => d \in On(a, {"rename", "remove", "derive", "import"})
            BY <1>10, <3>1 DEF On, UnderWay, Over, InWriting
        <3>. QED
            BY <1>0, <2>2, <3>1, <3>2 DEF BeginRename, Adding
    <2>. QED
        BY <1>3, <1>10, <2>1, <2>2
<1>11. ASSUME NEW c \in Calls, Then("rename", c), calls'[c].stage = "writing"
       PROVE  calls'[c].account \in In(rowsStored')
    <2>1. Now("rename", c)
        <3>1. \A a \in Accounts : ~BeginRename(c, a)
            BY <1>11, CallMoves DEF Moves, AccountsBase
        <3>. QED
            BY <1>3, <1>11, <3>1
    <2>2. calls'[c].account = Target(c) /\ Target(c) \notin Going /\ ~Suspended
        BY <1>12, <2>1, CallStages DEF AccountsBase, CallsFit, Stage, Over, Target
    <2>3. ~DeleteRows
        BY <2>2 DEF DeleteRows, Suspended
    <2>4. \A d \in Calls : WriteRows(d) /\ Kind[d] = "remove" => Target(d) \in Going
        BY DEF WriteRows, At, Going, Stage, InWriting
    <2>5. CASE calls[c].stage = "writing"
        <3>1. Target(c) \in In(rowsStored)
            BY <1>12, <2>1, <2>5
        <3>. QED
            BY <1>0, <2>2, <2>3, <2>4, <3>1, StoredStays
    <2>6. CASE calls[c].stage # "writing"
        <3>1. ~Same(c)
            BY <1>11, <2>6 DEF Same
        <3>4. calls[c].stage = "saving"
            BY <2>1, <2>6 DEF AccountsBase, CallsFit, Stage, Over
        <3>5. ~Ended(c)
            BY <1>11 DEF Ended
        <3>6. ~SaveFails(c)
            BY <1>0 DEF SaveFails, Adding
        <3>2. ReadRows(c)
            BY <2>1, <3>1, <3>4, <3>5, <3>6, CallSteps DEF BeginDerive, ChooseIndex,
               AddDerived, BeginImport, EnterImport, CheckDuplicates, JoinWallet,
               WriteRows, BeginRename, BeginRemove, CanStart, At
        <3>3. Target(c) \in In(rowsStored) /\ rowsStored' = rowsStored
            <4>1. Kind[c] = "rename"
                BY <2>1
            <4>2. "failed" \notin trouble'
                BY <1>0
            <4>. QED
                BY <3>2, <4>1, <4>2 DEF ReadRows, Adding, Target
        <3>. QED
            BY <2>2, <3>3
    <2>. QED
        BY <2>5, <2>6
<1>13. /\ \A c, d \in UnderWay({"derive"})' : c = d
       /\ \A c \in UnderWay({"derive"})' : calls'[c].wallet = Len(wallets')
    <2>1. \A c \in UnderWay({"derive"})' : c \in Calls /\ Then("derive", c)
        BY <1>1 DEF UnderWay
    <2>. QED
        BY <1>5, <1>7, <2>1
<1>14. UnderWay({"derive"})' # {} => UnderWay({"import"})' = {}
    <2>1. /\ \A c \in UnderWay({"derive"})' : c \in Calls /\ Then("derive", c)
          /\ \A c \in UnderWay({"import"})' : c \in Calls /\ Then("import", c)
        BY <1>1 DEF UnderWay
    <2>. QED
        BY <1>6, <2>1
<1>15. \A c, d \in UnderWay({"import"})' :
           {calls'[c].stage, calls'[d].stage} \cap {"decrypting", "checking"} = {} => c = d
    <2>1. \A c \in UnderWay({"import"})' : c \in Calls /\ Then("import", c)
        BY <1>1 DEF UnderWay
    <2>. QED
        BY <1>8, <2>1
<1>16. /\ UnderWay({"rename"})' # {} => ~Suspended'
       /\ \A c \in UnderWay({"rename"})' :
              /\ calls'[c].account \notin Going'
              /\ calls'[c].stage = "writing" => calls'[c].account \in In(rowsStored')
    <2>1. \A c \in UnderWay({"rename"})' : c \in Calls /\ Then("rename", c)
        BY <1>1 DEF UnderWay
    <2>2. ASSUME NEW c \in Calls, Then("rename", c)
          PROVE  calls'[c].account \notin Going'
        <3>1. \A b \in Going' : \E d \in Calls : /\ Kind[d] = "remove"
                    /\ calls'[d].stage \in InWriting /\ b = calls'[d].account
            BY DEF Going, Stage, Target
        <3>. QED
            BY <1>10, <2>2, <3>1
    <2>. QED
        BY <1>9, <1>11, <2>1, <2>2
<1>. HIDE DEF Now, Then
<1>. QED
    BY <1>4, <1>13, <1>14, <1>15, <1>16 DEF CallsApart, Stage, Target

\* A write as the calls and the wallet see it.
LEMMA Writer ==
    ASSUME AccountsAssumption, AccountsBase, NEW c \in Calls, WriteRows(c)
    PROVE  /\ calls[c].stage = "writing"
           /\ calls'[c].stage = IF Kind[c] = "import" THEN "stored" ELSE "done"
           /\ calls'[c].account = Target(c)
           /\ \A d \in Calls : d # c => calls'[d] = calls[d]
           /\ wallets' = wallets /\ current' = current
<1>1. Moves(c, IF Kind[c] = "import" THEN "stored" ELSE "done", calls[c].wallet, Target(c))
    BY CallMoves DEF AccountsBase
<1>. QED
    BY <1>1 DEF Moves, WriteRows, At

\* The first account is stored before there is any call.
LEMMA FirstOfAll ==
    ASSUME CallsApart, SaveFirstAccount
    PROVE  /\ calls' = calls /\ In(rowsStored) = {}
           /\ \A c \in Calls : calls[c].stage = "idle"
BY DEF CallsApart, SaveFirstAccount, Stage

\* The steps on which a derivation gets as far as its index and the memory.
LEMMA DerivingSteps ==
    ASSUME AccountsAssumption, AccountsBase, AccountsNext, NEW c \in Calls, Kind[c] = "derive",
           calls'[c].stage \in {"deriving", "saving", "writing"}
    PROVE  \/ ChooseIndex(c)
           \/ /\ calls[c].stage = "deriving" /\ AddDerived(c)
              /\ calls'[c].account = Target(c)
           \/ /\ calls[c].stage \in {"deriving", "saving", "writing"}
              /\ calls'[c].account = Target(c)
              /\ calls'[c].stage \in InWriting => calls[c].stage \in InWriting
<1>1. calls[c].stage \in
          {"idle", "decrypting", "deriving", "saving", "writing", "done", "failed"}
    BY DEF AccountsBase, AccountTypes, CallsFit, CallRecords, Stages, Stage
<1>2. ~Ended(c) /\ ~SaveFails(c)
    <2>1. SaveFails(c) => calls'[c].stage = "failed"
        BY CallMoves DEF Moves, AccountsBase
    <2>. QED
        BY <2>1 DEF Ended
<1>3. calls[c].stage # "done"
    BY CallStages DEF Same
<1>4. calls[c].stage \notin {"idle", "failed"}
    <2>1. SUFFICES ASSUME calls[c].stage \in {"idle", "failed"} PROVE FALSE
        OBVIOUS
    <2>2. ~Same(c)
        BY <2>1 DEF Same
    <2>3. ~BeginDerive(c)
        BY CallMoves DEF Moves, AccountsBase
    <2>. QED
        BY <1>2, <2>1, <2>2, <2>3, CallSteps DEF ChooseIndex, AddDerived, BeginImport,
           EnterImport, CheckDuplicates, JoinWallet, ReadRows, WriteRows, BeginRename,
           BeginRemove, At
<1>5. CASE calls[c].stage = "decrypting"
    <2>1. ~Same(c)
        BY <1>5 DEF Same
    <2>. QED
        BY <1>2, <1>5, <2>1, CallSteps DEF BeginDerive, AddDerived, BeginImport,
           EnterImport, CheckDuplicates, JoinWallet, ReadRows, WriteRows, BeginRename,
           BeginRemove, CanStart, At
<1>6. CASE calls[c].stage \in {"deriving", "saving", "writing"}
    <2>1. calls'[c].account = Target(c)
        BY <1>6, CallStages DEF Target
    <2>2. CASE calls[c].stage = "deriving" /\ calls'[c].stage \in InWriting
        <3>1. ~Same(c)
            BY <2>2 DEF Same, InWriting
        <3>. QED
            BY <1>2, <2>1, <2>2, <3>1, CallSteps DEF BeginDerive, ChooseIndex, BeginImport,
               EnterImport, CheckDuplicates, JoinWallet, ReadRows, WriteRows, BeginRename,
               BeginRemove, CanStart, At
    <2>. QED
        BY <1>6, <2>1, <2>2 DEF InWriting
<1>. QED
    BY <1>1, <1>3, <1>4, <1>5, <1>6

\* The same of an import and its check.
LEMMA ImportingSteps ==
    ASSUME AccountsAssumption, AccountsBase, AccountsNext, NEW c \in Calls, Kind[c] = "import",
           calls'[c].stage \in InWriting
    PROVE  /\ calls'[c].account = Target(c)
           /\ CheckDuplicates(c) \/ calls[c].stage \in InWriting
<1>1. calls[c].stage \in {"idle", "decrypting", "checking", "saving", "writing", "stored",
                          "done", "failed"}
    BY DEF AccountsBase, AccountTypes, CallsFit, CallRecords, Stages, Stage
<1>2. ~Ended(c) /\ ~SaveFails(c) /\ ~BeginImport(c) /\ ~EnterImport(c) /\ ~JoinWallet(c)
    BY CallMoves DEF Moves, AccountsBase, Ended, InWriting
<1>3. calls[c].stage \notin {"idle", "decrypting", "stored", "done", "failed"}
    <2>1. SUFFICES ASSUME calls[c].stage \in {"idle", "decrypting", "stored", "done", "failed"}
                   PROVE FALSE
        OBVIOUS
    <2>2. ~Same(c)
        BY <2>1 DEF Same, InWriting
    <2>. QED
        BY <1>2, <2>1, <2>2, CallSteps DEF BeginDerive, ChooseIndex, AddDerived,
           CheckDuplicates, ReadRows, WriteRows, BeginRename, BeginRemove, At
<1>4. CASE calls[c].stage = "checking"
    <2>1. ~Same(c)
        BY <1>4 DEF Same, InWriting
    <2>2. CheckDuplicates(c)
        BY <1>2, <1>4, <2>1, CallSteps DEF BeginDerive, ChooseIndex, AddDerived,
           ReadRows, WriteRows, BeginRename, BeginRemove, CanStart, At
    <2>. QED
        BY <2>2, <1>4, CallStages DEF Target
<1>. QED
    BY <1>1, <1>3, <1>4, CallStages DEF Target, InWriting

\* The memory of a wallet loses an account only to its removal.
LEMMA MemoryKeeps ==
    ASSUME AccountsAssumption, AccountsBase, AccountsNext, NEW a \in In(Last),
           ~SaveFirstAccount, ~PublishWallet, \A d \in Calls : ~BeginRemove(d, a)
    PROVE  a \in In(Last')
<1>1. \A d \in Calls : Target(d) \in Accounts
    BY DEF AccountsBase, AccountTypes, Target, CallRecords
<1>2. Given \in {Given} \cup Calls
    OBVIOUS
<1>3. ASSUME NEW b \in Accounts, NEW name \in {Given} \cup Calls, Last \in RowSets,
             Last' = Put(Last, b, name)
      PROVE  a \in In(Last')
    <2>1. In(Put(Last, b, name)) = In(Last) \cup {b}
        BY <1>3, PutFacts
    <2>. QED
        BY <1>3, <2>1
<1>4. ASSUME NEW b \in Accounts, a # b, Last \in RowSets, Last' = Drop(Last, {b})
      PROVE  a \in In(Last')
    <2>1. In(Drop(Last, {b})) = In(Last) \ {b}
        BY <1>4, DropFacts
    <2>. QED
        BY <1>4, <2>1
<1>5. CASE Last' = Last
    BY <1>5
<1>6. CASE Last \in RowSets /\ \E c \in Calls : Last' = Put(Last, Target(c), Given)
    BY <1>1, <1>2, <1>3, <1>6
<1>7. CASE /\ Last \in RowSets
           /\ \E c \in Calls, b \in Accounts : BeginRename(c, b) /\ Last' = Put(Last, b, c)
    BY <1>3, <1>7
<1>8. CASE /\ Last \in RowSets
           /\ \E c \in Calls, b \in Accounts : BeginRemove(c, b) /\ Last' = Drop(Last, {b})
    BY <1>4, <1>8
<1>. QED
    BY <1>5, <1>6, <1>7, <1>8, LastMoves

\* And with them their indexes.
LEMMA IndexesApartKept ==
    ASSUME AccountsAssumption, AccountsBase, SteadyInv, ApartInv, AccountsNext, Apart'
    PROVE  IndexesApart'
<1>0. /\ CallsApart /\ IndexesApart /\ ReadIsStored /\ CallsApart'
      /\ "contended" \notin trouble' /\ "failed" \notin trouble' /\ "lost" \notin trouble'
      /\ "reopened" \notin trouble' /\ "crashed" \notin trouble'
    BY ApartBefore, CallsApartKept
<1>. DEFINE Now(k, c) == Kind[c] = k /\ calls[c].stage \notin Over
            Brings(c, a) == WriteRows(c) /\ Kind[c] \in {"derive", "import"} /\ a = Target(c)
<1>1. /\ \A c, d \in Calls : Now("derive", c) /\ Now("derive", d) => c = d
      /\ \A c, d \in Calls : Now("derive", c) => ~Now("import", d)
      /\ \A c \in Calls : Now("derive", c) => calls[c].wallet = Len(wallets)
      /\ \A c, d \in Calls :
             /\ Now("import", c) /\ calls[c].stage \notin {"decrypting", "checking"}
             /\ Now("import", d) /\ calls[d].stage \notin {"decrypting", "checking"}
             => c = d
      /\ \A c \in Calls : Now("rename", c) /\ calls[c].stage = "writing" =>
             Target(c) \in In(rowsStored)
    BY <1>0, OneByOne DEF Doing
<1>2. \A a \in Staying' :
          \/ a \in Staying
          \/ SaveFirstAccount /\ a = First
          \/ \E c \in Calls : Brings(c, a)
    BY <1>0, StayingMoves
\* What stays has indexes of its own
<1>3. ASSUME NEW a \in Staying', NEW b \in Staying', Index(a) = Index(b)
      PROVE  a = b
    <2>1. CASE a \in Staying /\ b \in Staying
        BY <1>0, <1>3, <2>1 DEF IndexesApart
    <2>2. CASE SaveFirstAccount
        <3>1. Staying = {} /\ \A c \in Calls : ~WriteRows(c)
            BY <1>0, <2>2, FirstOfAll DEF Staying, WriteRows, At
        <3>. QED
            BY <1>2, <2>2, <3>1
    <2>3. ASSUME NEW x \in Staying, NEW c \in Calls, WriteRows(c),
                 Kind[c] \in {"derive", "import"}
          PROVE  Index(x) # Index(Target(c))
        BY <1>0, <2>3, Writer DEF IndexesApart, Stage, InWriting, Staying
    <2>4. ASSUME NEW c \in Calls, NEW d \in Calls, WriteRows(c), WriteRows(d)
          PROVE  c = d
        <3>1. calls'[c].stage # "writing" /\ calls[d].stage = "writing"
            BY <2>4, Writer
        <3>. QED
            BY <2>4, <3>1, Writer
    <2>. QED
        BY <1>2, <1>3, <2>1, <2>2, <2>3, <2>4
\* The index of a derivation is no one else's
<1>4. ASSUME NEW c \in Calls, Kind[c] = "derive",
             calls'[c].stage \in {"deriving", "saving", "writing"}, NEW b \in Staying'
      PROVE  Index(b) # Index(calls'[c].account)
    <2>1. Now("derive", c)
        BY <1>4, DerivingSteps DEF ChooseIndex, At, Over
    <2>2. b \in Staying
        <3>1. ~SaveFirstAccount
            BY <1>0, <2>1, FirstOfAll DEF Over
        <3>2. ASSUME NEW d \in Calls, Brings(d, b) PROVE FALSE
            <4>1. Now("derive", d) \/ Now("import", d)
                BY <3>2, Writer DEF Over
            <4>2. d = c
                BY <1>1, <2>1, <4>1
            <4>. QED
                BY <1>4, <3>2, <4>2, Writer
        <3>. QED
            BY <1>2, <3>1, <3>2
    <2>3. CASE ChooseIndex(c)
        <3>. DEFINE i == DerivationIndex(wallets[calls[c].wallet])
        <3>1. /\ calls[c].wallet = Len(wallets) /\ Len(wallets) # 0
              /\ calls'[c].account = <<c, i>>
            <4>1. calls[c].wallet = Len(wallets)
                BY <1>1, <2>1
            <4>2. calls[c].wallet \in 1 .. Len(wallets)
                BY <1>4, <2>3 DEF AccountsBase, CallsFit, Stage, ChooseIndex, At
            <4>3. calls'[c].account = <<c, i>>
                BY <2>3, CallMoves DEF Moves, AccountsBase
            <4>. QED
                BY <4>1, <4>2, <4>3
        <3>2. Last \in RowSets /\ i = DerivationIndex(Last)
            BY <3>1, WalletsFacts DEF Last, AccountsBase, AccountTypes
        <3>3. b \in In(Last)
            <4>1. c \in UnderWay({"derive"})
                BY <2>1 DEF UnderWay
            <4>2. \A d \in Calls : ~(Kind[d] = "import" /\ Stage(d) = "stored")
                BY <1>1, <2>1 DEF Stage, Over
            <4>. QED
                BY <1>0, <2>2, <4>1, <4>2 DEF IndexesApart
        <3>4. Index(b) # DerivationIndex(Last)
            BY <3>2, <3>3, FreshIndex DEF AccountsAssumption
        <3>. QED
            BY <3>1, <3>2, <3>4 DEF Index
    <2>4. CASE calls[c].stage \in {"deriving", "saving", "writing"}
               /\ calls'[c].account = Target(c)
        BY <1>0, <1>4, <2>2, <2>4 DEF IndexesApart, Stage
    <2>. QED
        BY <1>4, <2>3, <2>4, DerivingSteps
\* The index of an import that passed the check is not stored
<1>5. ASSUME NEW c \in Calls, Kind[c] = "import", calls'[c].stage \in InWriting,
             NEW b \in In(rowsStored')
      PROVE  Index(b) # Index(calls'[c].account)
    <2>1. calls'[c].account = Target(c) /\ (CheckDuplicates(c) \/ calls[c].stage \in InWriting)
        BY <1>5, ImportingSteps
    <2>2. CASE CheckDuplicates(c)
        <3>1. rowsStored' = rowsStored
            BY <2>2 DEF CheckDuplicates
        <3>2. Target(c) = <<c, Wanted[c]>>
            BY <1>5, <2>2 DEF CheckDuplicates, At, AccountsBase, CallsFit, Stage
        <3>3. ~\E a \in In(rowsStored) : Index(a) = Wanted[c]
            BY <1>5, <2>2, CallMoves DEF Moves, AccountsBase, InWriting
        <3>. QED
            BY <2>1, <3>1, <3>2, <3>3 DEF Index
    <2>3. CASE calls[c].stage \in InWriting
        <3>1. Now("import", c)
            BY <1>5, <2>3 DEF InWriting, Over
        <3>2. ~SaveFirstAccount
            BY <1>0, <3>1, FirstOfAll DEF Over
        <3>3. ASSUME NEW d \in Calls, WriteRows(d), Kind[d] # "remove", b = Target(d)
              PROVE  b \in In(rowsStored)
            <4>1. calls[d].stage = "writing" /\ d # c
                BY <1>5, <3>3, Writer DEF InWriting
            <4>2. Kind[d] \in {"derive", "import", "rename"}
                BY <3>3 DEF AccountsAssumption
            <4>. QED
                BY <1>1, <2>3, <3>1, <3>3, <4>1, <4>2 DEF Over, InWriting
        <3>4. DeleteRows => In(rowsStored') \subseteq In(rowsStored)
            BY <1>0, StoredMoves, DropFacts DEF AccountsBase, AccountTypes
        <3>5. b \in In(rowsStored)
            BY <1>0, <3>2, <3>3, <3>4, StoredStays
        <3>. QED
            BY <1>0, <1>5, <2>1, <2>3, <3>5 DEF IndexesApart, Stage
    <2>. QED
        BY <2>1, <2>2, <2>3
\* Memory has what is being derived
<1>6. ASSUME NEW c \in Calls, Kind[c] = "derive", calls'[c].stage \in InWriting
      PROVE  calls'[c].account \in In(Last')
    <2>1. CASE calls[c].stage = "deriving" /\ AddDerived(c) /\ calls'[c].account = Target(c)
        <3>1. calls[c].wallet = Len(wallets)
            BY <1>1, <1>6, <2>1 DEF Over
        <3>2. Rewritten(Len(wallets), Put(wallets[Len(wallets)], Target(c), Given))
            BY <2>1, <3>1, WalletMoves
        <3>3. wallets[Len(wallets)] \in RowSets /\ Target(c) \in Accounts
            BY <3>2, WalletsFacts DEF Rewritten, AccountsBase, AccountTypes, Target, CallRecords
        <3>4. Target(c) \in In(Put(wallets[Len(wallets)], Target(c), Given))
            BY <3>3, PutFacts
        <3>. QED
            BY <2>1, <3>2, <3>4 DEF Rewritten, Last
    <2>2. CASE calls[c].stage \in InWriting /\ calls'[c].account = Target(c)
        <3>1. Target(c) \in In(Last) /\ Target(c) \in Accounts
            BY <1>0, <1>6, <2>2
               DEF IndexesApart, Stage, AccountsBase, AccountTypes, Target, CallRecords
        <3>2. ~SaveFirstAccount
            BY <1>0, <2>2, FirstOfAll DEF InWriting
        <3>3. ~PublishWallet
            BY <1>0, <1>6, <2>2 DEF PublishWallet, ReadIsStored, Stage, Over, InWriting
        <3>4. ASSUME NEW d \in Calls, BeginRemove(d, Target(c))
              PROVE  FALSE
            <4>1. On(Target(c), {"rename", "derive"}) = {}
                BY <1>0, <3>4 DEF BeginRemove, Adding
            <4>. QED
                BY <1>6, <2>2, <4>1 DEF On, UnderWay, Over, InWriting, Target
        <3>. QED
            BY <2>2, <3>1, <3>2, <3>3, <3>4, MemoryKeeps
    <2>3. ChooseIndex(c) => calls'[c].stage = "deriving"
        BY CallMoves DEF Moves, AccountsBase
    <2>. QED
        BY <1>6, <2>1, <2>2, <2>3, DerivingSteps DEF InWriting
\* Memory has what stays
<1>7. ASSUME current' # 0 \/ UnderWay({"derive"})' # {}, NEW a \in Staying'
      PROVE  \/ a \in In(Last')
             \/ /\ current' # 0
                /\ \E c \in Calls : /\ Kind[c] = "import" /\ calls'[c].stage = "stored"
                                    /\ calls'[c].account = a
    <2>. DEFINE Joining(c) == Kind[c] = "import" /\ calls[c].stage = "stored" /\ Target(c) = a
    <2>1. /\ \A rows \in RowSets, b \in Accounts, name \in {Given} \cup Calls :
                 In(Put(rows, b, name)) = In(rows) \cup {b}
          /\ \A rows \in RowSets, b \in Accounts : In(Drop(rows, {b})) = In(rows) \ {b}
          /\ \A d \in Calls : Target(d) \in Accounts
          /\ a \in In(rowsStored')
        BY PutFacts, DropFacts DEF AccountsBase, AccountTypes, Target, CallRecords, Staying
    <2>2. CASE SaveFirstAccount
        <3>1. Staying = {} /\ \A c \in Calls : ~WriteRows(c)
            BY <1>0, <2>2, FirstOfAll DEF Staying, WriteRows, At
        <3>2. a = First
            BY <1>2, <1>7, <3>1
        <3>3. Last' = Put(NoRows, First, Given)
            BY <2>2, WalletMoves DEF Last
        <3>4. First \in Accounts
            BY DEF First, Accounts, AccountsAssumption
        <3>. QED
            BY <2>1, <3>2, <3>3, <3>4, NoRowsFacts
    <2>3. CASE PublishWallet
        <3>1. rowsStored' = rowsStored /\ opener = {rowsStored}
            BY <1>0, <2>3 DEF PublishWallet, ReadIsStored
        <3>2. Last' = rowsStored
            BY <2>3, <3>1, WalletMoves DEF Last
        <3>. QED
            BY <2>1, <3>1, <3>2
    <2>4. CASE ~SaveFirstAccount /\ ~PublishWallet
        <3>1. current' = 0 \/ current' = current
            BY <2>4, Frames DEF CloseWallet, BeginRemoval, Crash
        <3>2. ASSUME NEW c \in Calls, c \in UnderWay({"derive"})'
              PROVE  Now("derive", c) \/ current # 0
            <4>1. Kind[c] = "derive" /\ calls'[c].stage \notin Over
                BY <3>2 DEF UnderWay
            <4>. QED
                BY <4>1, BeginsOrGoesOn DEF BeginDerive, BeginImport, BeginRename, BeginRemove
        <3>3. current # 0 \/ UnderWay({"derive"}) # {}
            <4>1. \A c \in Calls : Now("derive", c) => c \in UnderWay({"derive"})
                BY DEF UnderWay
            <4>2. UnderWay({"derive"})' \subseteq Calls
                BY DEF UnderWay
            <4>. QED
                BY <1>7, <3>1, <3>2, <4>1, <4>2
        \* an import that is stored has not joined the wallet yet
        <3>4. ASSUME NEW c \in Calls, Kind[c] = "import", calls'[c].stage = "stored"
              PROVE  current' # 0
            <4>1. c \in UnderWay({"import"})'
                BY <3>4 DEF UnderWay, Over
            <4>2. UnderWay({"derive"})' = {}
                BY <1>0, <4>1 DEF CallsApart
            <4>. QED
                BY <1>7, <4>2
        <3>5. ASSUME a \in Staying, a \in In(Last)
              PROVE  a \in In(Last')
            <4>1. ASSUME NEW d \in Calls, BeginRemove(d, a)
                  PROVE  FALSE
                <5>1. /\ Kind[d] = "remove" /\ calls'[d].stage = "saving"
                      /\ calls'[d].account = a
                    <6>1. a \in Accounts
                        BY <2>1, RowsFacts, TypesKept DEF AccountTypes
                    <6>. QED
                        BY <4>1, <6>1, CallMoves, ZenonT(30) DEF Moves, AccountsBase, BeginRemove
                <5>2. a \in Going'
                    BY <5>1 DEF Going, Stage, Target, InWriting
                <5>. QED
                    BY <1>7, <5>2 DEF Staying
            <4>. QED
                BY <2>4, <3>5, <4>1, MemoryKeeps
        <3>6. ASSUME NEW c \in Calls, Joining(c), current # 0
              PROVE  \/ a \in In(Last')
                     \/ calls'[c].stage = "stored" /\ calls'[c].account = a
            <4>1. CASE JoinWallet(c)
                <5>1. Rewritten(current, Put(wallets[current], Target(c), Given))
                    BY <3>6, <4>1, WalletMoves
                <5>2. current = Len(wallets)
                    BY <3>6 DEF AccountsBase, AccountTypes
                <5>3. wallets[current] \in RowSets /\ Given \in {Given} \cup Calls
                    BY <5>1, WalletsFacts DEF Rewritten, AccountsBase, AccountTypes
                <5>4. a \in In(Put(wallets[current], Target(c), Given))
                    BY <2>1, <3>6, <5>3
                <5>. QED
                    BY <5>1, <5>2, <5>4 DEF Rewritten, Last
            <4>2. CASE Same(c)
                BY <3>6, <4>2 DEF Same, Target
            <4>. QED
                BY <1>0, <3>6, <4>1, <4>2, CallSteps DEF Ended, BeginDerive, ChooseIndex,
                   AddDerived, BeginImport, EnterImport, CheckDuplicates, ReadRows, WriteRows,
                   SaveFails, BeginRename, BeginRemove, CanStart, At
        <3>7. ASSUME NEW c \in Calls, Brings(c, a)
              PROVE  \/ a \in In(Last')
                     \/ /\ Kind[c] = "import" /\ calls'[c].stage = "stored"
                        /\ calls'[c].account = a
            <4>1. CASE Kind[c] = "derive"
                <5>1. a \in In(Last)
                    BY <1>0, <3>7, <4>1, Writer DEF IndexesApart, Stage, InWriting
                <5>2. wallets' = wallets
                    BY <3>7, Writer
                <5>. QED
                    BY <5>1, <5>2 DEF Last
            <4>2. CASE Kind[c] = "import"
                BY <3>7, <4>2, Writer
            <4>. QED
                BY <3>7, <4>1, <4>2
        <3>8. ASSUME a \in Staying, a \notin In(Last)
              PROVE  current # 0 /\ \E c \in Calls : Joining(c)
            BY <1>0, <3>3, <3>8 DEF IndexesApart, Stage
        <3>. QED
            BY <1>2, <1>7, <2>4, <3>4, <3>5, <3>6, <3>7, <3>8
    <2>. QED
        BY <2>2, <2>3, <2>4
<1>. QED
    <2>1. \A a, b \in Staying' : Index(a) = Index(b) => a = b
        BY <1>3
    <2>2. \A c \in Calls :
              Kind[c] = "derive" /\ calls'[c].stage \in {"deriving", "saving", "writing"} =>
              \A b \in Staying' : Index(b) # Index(calls'[c].account)
        BY <1>4
    <2>3. \A c \in Calls : Kind[c] = "import" /\ calls'[c].stage \in InWriting =>
              \A b \in In(rowsStored') : Index(b) # Index(calls'[c].account)
        BY <1>5
    <2>4. \A c \in Calls : Kind[c] = "derive" /\ calls'[c].stage \in InWriting =>
              calls'[c].account \in In(Last')
        BY <1>6
    <2>. QED
        BY <1>7, <2>1, <2>2, <2>3, <2>4 DEF IndexesApart, Stage, Target

\* Calls and indexes, together.
LEMMA ApartKept ==
    ASSUME AccountsAssumption, AccountsBase, SteadyInv, ApartInv, AccountsNext
    PROVE  ApartInv'
BY CallsApartKept, IndexesApartKept DEF ApartInv

-----------------------------------------------------------------------------
(* Memory and storage                                                      *)

\* Steps that no account sees.
LEMMA InStepSame ==
    ASSUME InStep, Last' = Last, rowsStored' = rowsStored,
           \A d \in Calls :
               \/ calls'[d].stage = calls[d].stage /\ calls'[d].account = calls[d].account
               \/ calls[d].stage = "saving" /\ calls'[d].stage = "writing"
                  /\ calls'[d].account = calls[d].account
               \/ {calls[d].stage, calls'[d].stage} \cap {"saving", "writing", "stored"} = {}
    PROVE  InStep'
<1>1. Unsettled' = Unsettled
    BY DEF Unsettled, Stage
<1>2. ASSUME NEW d \in Unsettled
      PROVE  /\ calls'[d].account = calls[d].account
             /\ calls'[d].stage = "stored" => calls[d].stage = "stored"
    BY <1>2 DEF Unsettled, Stage
<1>3. \A c, d \in Unsettled : calls'[c].account = calls'[d].account => c = d
    BY <1>2 DEF InStep, Target
<1>4. ASSUME NEW a \in Accounts, \A c \in Unsettled : calls'[c].account # a
      PROVE  Agree(a)'
    <2>1. Agree(a)
        BY <1>2, <1>4 DEF InStep, Target
    <2>. QED
        BY <2>1 DEF Agree
<1>5. ASSUME NEW c \in Unsettled
      PROVE  Ahead(c)'
    <2>1. Ahead(c)
        BY <1>5 DEF InStep
    <2>. QED
        BY <1>2, <1>5, <2>1 DEF Ahead, Target, Stage
<1>. QED
    BY <1>1, <1>3, <1>4, <1>5 DEF InStep, Target

\* A step of one call on an account that no other call has to do with.
LEMMA InStepMoved ==
    ASSUME AccountsBase, InStep, NEW c \in Calls, NEW t \in Accounts,
           \A d \in Calls : d # c =>
               calls'[d] = calls[d] /\ (d \in Unsettled => Target(d) # t),
           \A b \in Accounts : b # t =>
               /\ b \in In(rowsStored') <=> b \in In(rowsStored)
               /\ b \in In(rowsStored) => rowsStored'[b] = rowsStored[b]
               /\ b \in In(Last') <=> b \in In(Last)
               /\ b \in In(Last) => Last'[b] = Last[b],
           c \in Unsettled => Target(c) = t,
           c \in Unsettled' => calls'[c].account = t /\ Ahead(c)',
           c \notin Unsettled' => Agree(t)'
    PROVE  InStep'
<1>1. \A d \in Calls : d # c =>
          /\ d \in Unsettled' <=> d \in Unsettled
          /\ calls'[d].account = Target(d)
    BY DEF Unsettled, Stage, Target
<1>2. Unsettled \subseteq Calls /\ Unsettled' \subseteq Calls
    BY DEF Unsettled
<1>3. ASSUME NEW d \in Unsettled', NEW e \in Unsettled', calls'[d].account = calls'[e].account
      PROVE  d = e
    BY <1>1, <1>2, <1>3 DEF InStep
<1>4. ASSUME NEW a \in Accounts, \A d \in Unsettled' : calls'[d].account # a
      PROVE  Agree(a)'
    <2>1. CASE a = t
        BY <1>4, <2>1
    <2>2. CASE a # t
        <3>1. \A d \in Unsettled : Target(d) # a
            BY <1>1, <1>2, <1>4, <2>2
        <3>2. Agree(a)
            BY <3>1 DEF InStep
        <3>. QED
            BY <2>2, <3>2 DEF Agree
    <2>. QED
        BY <2>1, <2>2
<1>5. ASSUME NEW d \in Unsettled'
      PROVE  Ahead(d)'
    <2>1. CASE d = c
        BY <1>5, <2>1
    <2>2. CASE d # c
        <3>1. d \in Unsettled /\ calls'[d] = calls[d] /\ Target(d) # t
            BY <1>1, <1>2, <1>5, <2>2
        <3>2. Ahead(d)
            BY <3>1 DEF InStep
        <3>3. Target(d) \in Accounts
            BY <1>2, <3>1 DEF AccountsBase, AccountTypes, CallRecords, Target
        <3>4. /\ Target(d) \in In(rowsStored') <=> Target(d) \in In(rowsStored)
              /\ Target(d) \in In(rowsStored) => rowsStored'[Target(d)] = rowsStored[Target(d)]
              /\ Target(d) \in In(Last') <=> Target(d) \in In(Last)
              /\ Target(d) \in In(Last) => Last'[Target(d)] = Last[Target(d)]
            BY <3>1, <3>3
        <3>5. calls'[d].account = Target(d) /\ calls'[d].stage = Stage(d)
            BY <3>1 DEF Target, Stage
        <3>6. Ahead(d)' <=>
                  /\ Kind[d] = "derive" => Target(d) \in In(Last') /\ Last'[Target(d)] = Given
                  /\ Kind[d] = "import" => Target(d) \notin In(Last')
                  /\ Kind[d] = "import" /\ Stage(d) = "stored" =>
                         Target(d) \in In(rowsStored') /\ rowsStored'[Target(d)] = Given
                  /\ Kind[d] = "rename" => Target(d) \in In(Last') /\ Last'[Target(d)] = d
                  /\ Kind[d] = "remove" => Target(d) \notin In(Last')
            BY <3>5 DEF Ahead, Target, Stage
        <3>. QED
            BY <3>2, <3>4, <3>6 DEF Ahead
    <2>. QED
        BY <2>1, <2>2
<1>. QED
    BY <1>3, <1>4, <1>5 DEF InStep, Target

\* What the steps of the calls make of the memory of the wallet.
LEMMA MemoryMoves ==
    ASSUME AccountsAssumption, AccountsBase
    PROVE  /\ \A c \in Calls :
                  \/ AddDerived(c) /\ calls[c].wallet = Len(wallets)
                  \/ JoinWallet(c) /\ current # 0
                  => Last \in RowSets /\ Last' = Put(Last, Target(c), Given)
           /\ \A c \in Calls, a \in Accounts :
                  BeginRename(c, a) /\ a \in In(wallets[current]) =>
                      current # 0 /\ Last \in RowSets /\ a \in In(Last) /\ Last' = Put(Last, a, c)
<1>1. ASSUME NEW n, NEW rows, n = Len(wallets), Rewritten(n, rows)
      PROVE  Last \in RowSets /\ Last' = rows
    BY <1>1, WalletsFacts DEF Rewritten, Last, AccountsBase, AccountTypes
<1>2. ASSUME NEW c \in Calls, AddDerived(c), calls[c].wallet = Len(wallets)
      PROVE  Last \in RowSets /\ Last' = Put(Last, Target(c), Given)
    <2>1. Rewritten(Len(wallets), Put(Last, Target(c), Given))
        BY <1>2, WalletMoves DEF Last
    <2>. QED
        BY <1>1, <2>1
<1>3. current # 0 => current = Len(wallets)
    BY DEF AccountsBase, AccountTypes
<1>4. ASSUME NEW c \in Calls, JoinWallet(c), current # 0
      PROVE  Last \in RowSets /\ Last' = Put(Last, Target(c), Given)
    <2>1. Rewritten(Len(wallets), Put(Last, Target(c), Given))
        BY <1>3, <1>4, WalletMoves DEF Last
    <2>. QED
        BY <1>1, <2>1
<1>5. ASSUME NEW c \in Calls, NEW a \in Accounts, BeginRename(c, a), a \in In(wallets[current])
      PROVE  current # 0 /\ Last \in RowSets /\ a \in In(Last) /\ Last' = Put(Last, a, c)
    <2>1. current # 0
        BY <1>5 DEF BeginRename
    <2>2. Rewritten(Len(wallets), Put(Last, a, c))
        BY <1>3, <1>5, <2>1, WalletMoves DEF Last
    <2>. QED
        BY <1>1, <1>3, <1>5, <2>1, <2>2 DEF Last
<1>. QED
    BY <1>2, <1>4, <1>5

\* With nothing gone wrong, all the layers hold before and after.
LEMMA SmoothlyApart ==
    ASSUME AccountsAssumption, AccountsInv, AccountsNext, trouble' = {}
    PROVE  /\ trouble = {} /\ Apart' /\ AccountsBase /\ SteadyInv /\ ApartInv
           /\ CallsApart /\ IndexesApart /\ CallsApart' /\ ReadIsStored /\ Origins
           /\ RemovalApart
           /\ current # 0 \/ removal.stage \in {"draining", "deleting"} => InStep
<1>1. trouble = {}
    BY TroubleGrows
<1>2. Apart' /\ Apart /\ Clean
    BY <1>1 DEF Apart, Clean, Without
<1>3. CallsApart'
    BY <1>2, ApartKept DEF AccountsInv, ApartInv
<1>. QED
    BY <1>1, <1>2, <1>3, CleanIsSteady DEF AccountsInv, ApartInv, SteadyInv, FollowInv

\* A removal of an account ends with its write.
LEMMA RemovingGoesOn ==
    ASSUME AccountsAssumption, AccountsBase, AccountsNext, trouble' = {},
           NEW c \in Calls, Kind[c] = "remove", Stage(c) \in InWriting
    PROVE  WriteRows(c) \/ (calls'[c].stage \in InWriting /\ calls'[c].account = Target(c))
<1>1. calls'[c].account = Target(c)
    BY CallStages DEF Stage, Target, InWriting
<1>2. ReadRows(c) => calls'[c].stage = "writing"
    BY CallMoves DEF Moves, AccountsBase
<1>. QED
    BY <1>1, <1>2, CallSteps DEF Same, Ended, InWriting, Stage, BeginDerive, ChooseIndex,
       AddDerived, BeginImport, EnterImport, CheckDuplicates, JoinWallet, SaveFails, Adding,
       BeginRename, BeginRemove, CanStart, At

Undisturbed(c, stage) ==
    \/ Stage(c) \in Over
    \/ Kind[c] = "remove"
    \/ Kind[c] = "import" /\ Stage(c) = "decrypting"
    \/ Kind[c] = "derive" /\ stage = "draining"

\* A removal has waited for what it must not meet.
LEMMA RemovalApartKept ==
    ASSUME AccountsAssumption, AccountsInv, AccountsNext, trouble' = {}
    PROVE  RemovalApart'
<1>0. /\ AccountsBase /\ CallsApart /\ RemovalApart /\ trouble = {}
      /\ current # 0 \/ removal.stage \in {"draining", "deleting"} => InStep
    BY SmoothlyApart
<1>1. /\ current # 0 => ~Suspended /\ signerStored
      /\ Suspended => signerStored /\ removal.wallet = Len(wallets)
      /\ creating => ~Suspended
    BY <1>0 DEF AccountsBase, PlacesFit
<1>2. ASSUME Suspended' \/ ~signerStored', NEW c \in Calls, calls'[c].stage \notin Over,
             Kind[c] # "remove"
      PROVE  \/ Kind[c] = "import" /\ calls'[c].stage = "decrypting"
             \/ Kind[c] = "derive" /\ removal'.stage = "draining"
    <2>1. CASE Suspended \/ ~signerStored
        <3>1. Undisturbed(c, removal.stage)
            BY <1>0, <2>1 DEF RemovalApart, Undisturbed
        <3>2. \/ calls[c].stage \notin Over
              \/ Kind[c] = "import" /\ calls'[c].stage = "decrypting"
            <4>1. ~BeginDerive(c) /\ \A a \in Accounts : ~BeginRename(c, a)
                BY <1>1, <2>1 DEF BeginDerive, BeginRename
            <4>2. BeginImport(c) => Kind[c] = "import" /\ calls'[c].stage = "decrypting"
                BY <1>0, CallMoves DEF Moves, AccountsBase, BeginImport
            <4>. QED
                BY <1>0, <1>2, <4>1, <4>2, BeginsOrGoesOn DEF BeginRemove
        <3>3. CASE Kind[c] = "import" /\ calls[c].stage = "decrypting"
            <4>1. ~EnterImport(c)
                BY <1>2, <2>1 DEF EnterImport, Adding
            <4>2. Same(c)
                BY <1>0, <1>2, <3>3, <4>1, CallSteps DEF Ended, BeginDerive, ChooseIndex,
                   AddDerived, BeginImport, CheckDuplicates, JoinWallet, ReadRows, WriteRows,
                   SaveFails, BeginRename, BeginRemove, CanStart, At
            <4>. QED
                BY <3>3, <4>2 DEF Same
        <3>4. CASE /\ Kind[c] = "derive" /\ removal.stage = "draining"
                   /\ calls[c].stage \notin Over
            <4>1. c \in Tracked
                BY <3>4 DEF Tracked, UnderWay
            <4>2. ~Drain
                BY <1>2, <4>1 DEF Drain, Adding
            <4>3. ~Crash
                BY <1>0, <1>2, <3>4, CrashMoves DEF AccountsBase, Over
            <4>4. removal' = removal
                BY <3>4, <4>2, <4>3, Frames DEF BeginRemoval, DeleteRows, DeleteSigner,
                   RemovalFails, Suspended
            <4>. QED
                BY <3>4, <4>4
        <3>. QED
            BY <1>2, <3>1, <3>2, <3>3, <3>4 DEF Undisturbed, Stage
    <2>2. CASE ~Suspended /\ signerStored
        <3>1. BeginRemoval
            BY <1>2, <2>2, Frames, <1>0, RemovalMoves DEF SaveSigner, DeleteSigner, Suspended,
               Drain, DeleteRows, RemovalFails
        <3>2. /\ removal'.stage = "draining" /\ calls' = calls
              /\ UnderWay({"rename", "import"}) = {}
            BY <1>0, <3>1, RemovalMoves DEF BeginRemoval, Adding
        <3>3. Kind[c] \notin {"rename", "import"}
            BY <1>2, <3>2 DEF UnderWay
        <3>4. Kind[c] = "derive"
            BY <1>2, <3>3 DEF AccountsAssumption
        <3>. QED
            BY <3>2, <3>4
    <2>. QED
        BY <2>1, <2>2
<1>3. ASSUME removal'.stage = "rowsDeleted" \/ ~signerStored', NEW a \in In(rowsStored')
      PROVE  a \in Going'
    <2>1. CASE DeleteRows
        <3>1. InStep /\ Suspended /\ removal.stage = "deleting" /\ removal.gone = In(Last)
            BY <1>0, <2>1 DEF DeleteRows, Suspended, RemovalApart
        <3>2. rowsStored' = Drop(rowsStored, In(Last)) /\ rowsStored \in RowSets
            BY <1>0, <2>1, <3>1, StoredMoves DEF AccountsBase, AccountTypes
        <3>3. a \in In(rowsStored) /\ a \notin In(Last) /\ a \in Accounts
            BY <1>3, <3>2, DropFacts, RowsFacts
        <3>4. PICK c \in Unsettled : Target(c) = a
            BY <3>1, <3>3 DEF InStep, Agree
        <3>5. Kind[c] = "remove" /\ Stage(c) \in InWriting
            <4>1. Undisturbed(c, "deleting")
                BY <1>0, <3>1, <3>4 DEF RemovalApart, Undisturbed, Unsettled
            <4>2. Stage(c) \in {"saving", "writing", "stored"} /\ c \in Calls
                BY <3>4 DEF Unsettled
            <4>3. Kind[c] = "remove"
                BY <4>1, <4>2 DEF Undisturbed, Over
            <4>4. Stage(c) # "stored"
                BY <1>0, <4>2, <4>3 DEF AccountsBase, CallsFit
            <4>. QED
                BY <4>2, <4>3, <4>4 DEF InWriting
        <3>6. calls' = calls
            BY <2>1 DEF DeleteRows
        <3>. QED
            BY <3>4, <3>5, <3>6 DEF Going, Stage, Target, Unsettled
    <2>2. CASE ~DeleteRows
        <3>1. removal.stage = "rowsDeleted" \/ ~signerStored
            BY <1>0, <1>3, <2>2, Frames, RemovalMoves DEF SaveSigner, DeleteSigner
        <3>2. In(rowsStored) \subseteq Going
            BY <1>0, <3>1 DEF RemovalApart
        <3>3. ~SaveFirstAccount
            BY <1>1, <3>1 DEF SaveFirstAccount, Suspended
        <3>4. ASSUME NEW d \in Calls, WriteRows(d), Kind[d] # "remove" PROVE FALSE
            <4>1. Undisturbed(d, removal.stage) /\ removal.stage # "draining"
                BY <1>0, <1>1, <3>1 DEF RemovalApart, Undisturbed, Suspended
            <4>. QED
                BY <3>4, <4>1 DEF Undisturbed, WriteRows, At, Stage, Over
        <3>5. a \in In(rowsStored)
            BY <1>0, <1>3, <2>2, <3>3, <3>4, StoredStays
        <3>6. PICK e \in Calls : Kind[e] = "remove" /\ Stage(e) \in InWriting /\ a = Target(e)
            BY <3>2, <3>5 DEF Going
        <3>7. ~WriteRows(e)
            BY <1>0, <1>3, <3>6, StoredByCall
        <3>. QED
            BY <1>0, <3>6, <3>7, RemovingGoesOn DEF Going, Stage, Target
    <2>. QED
        BY <2>1, <2>2
\* The object that is being removed changes no more.
<1>4. ASSUME removal'.stage = "deleting"
      PROVE  removal'.gone = In(Last')
    <2>1. CASE Drain
        <3>1. wallets' = wallets /\ removal.wallet = Len(wallets)
            BY <1>1, <2>1 DEF Drain, Suspended
        <3>2. removal \in Removals
            BY <1>0 DEF AccountsBase, AccountTypes
        <3>3. removal'.gone = In(wallets[removal.wallet])
            BY <2>1, <3>2 DEF Drain, BeginDeletion, Removals
        <3>. QED
            BY <3>1, <3>3 DEF Last
    <2>2. CASE ~Drain
        <3>1. removal' = removal
            BY <1>0, <1>4, <2>2, Frames, RemovalMoves
        <3>2. removal.gone = In(Last) /\ Suspended /\ removal.stage # "draining"
            BY <1>0, <1>4, <3>1 DEF RemovalApart, Suspended
        <3>3. ~SaveFirstAccount /\ ~PublishWallet /\ current = 0
            BY <1>0, <1>1, <3>2 DEF SaveFirstAccount, PublishWallet, AccountsBase, PlacesFit,
               AccountTypes
        <3>4. \A c \in Calls : ~AddDerived(c)
            BY <1>0, <3>2 DEF RemovalApart, AddDerived, At, Stage, Over
        <3>5. Last' = Last
            BY <1>0, <3>3, <3>4, LastMoves
        <3>. QED
            BY <3>1, <3>2, <3>5
    <2>. QED
        BY <2>1, <2>2
<1>. QED
    BY <1>2, <1>3, <1>4 DEF RemovalApart, Stage

\* The accounts of calls that are not there yet.
LEMMA NotMadeYet ==
    ASSUME AccountsAssumption, AccountsBase, Origins, NEW c \in Calls,
           \/ Kind[c] = "derive" /\ Stage(c) = "deriving"
           \/ Kind[c] = "import" /\ Stage(c) = "checking",
           Target(c)[1] = c
    PROVE  /\ Len(wallets) # 0 => Target(c) \notin In(Last)
           /\ \A d \in Calls : d # c /\ d \in Unsettled => Target(d) # Target(c)
<1>1. ~Made(Target(c)) /\ ~Written(Target(c))
    BY DEF Made, Written, Stage
<1>2. Len(wallets) # 0 => Target(c) \notin In(Last)
    <2>1. Len(wallets) \in Nat
        BY WalletsFacts DEF AccountsBase, AccountTypes
    <2>2. Len(wallets) # 0 => Len(wallets) \in 1 .. Len(wallets)
        BY <2>1
    <2>. QED
        BY <1>1, <2>2 DEF Origins, Last
<1>3. ASSUME NEW d \in Calls, d # c, d \in Unsettled, Target(d) = Target(c)
      PROVE  FALSE
    <2>1. Stage(d) \in {"saving", "writing", "stored"}
        BY <1>3 DEF Unsettled
    <2>2. Kind[d] \in {"derive", "import"} => Target(d)[1] = d
        BY <2>1 DEF AccountsBase, CallsFit
    <2>3. Kind[d] \notin {"remove", "rename"}
        BY <1>1, <1>3, <2>1 DEF Origins
    <2>4. Kind[d] \in {"derive", "import"}
        BY <1>3, <2>3 DEF AccountsAssumption
    <2>. QED
        BY <1>3, <2>2, <2>4
<1>. QED
    BY <1>2, <1>3

\* Memory stays ahead of storage by the calls that are under way.
LEMMA InStepKept ==
    ASSUME AccountsAssumption, AccountsInv, AccountsNext, trouble' = {},
           current' # 0 \/ removal'.stage \in {"draining", "deleting"}
    PROVE  InStep'
<1>0. /\ AccountsBase /\ CallsApart /\ RemovalApart /\ trouble = {} /\ Origins
      /\ IndexesApart /\ ReadIsStored
      /\ current # 0 \/ removal.stage \in {"draining", "deleting"} => InStep
    BY SmoothlyApart
<1>1. /\ current # 0 => ~Suspended /\ signerStored /\ current = Len(wallets)
      /\ Suspended => removal.wallet = Len(wallets) /\ Len(wallets) # 0
      /\ \A d \in Calls : Target(d) \in Accounts
      /\ rowsStored \in RowSets
    BY <1>0 DEF AccountsBase, AccountTypes, PlacesFit, Target, CallRecords
\* The beginning, and an opening
<1>2. CASE SaveFirstAccount
    <2>1. /\ calls' = calls /\ In(rowsStored) = {} /\ \A c \in Calls : calls[c].stage = "idle"
        BY <1>0, <1>2, FirstOfAll
    <2>2. /\ rowsStored' = Put(rowsStored, First, Given) /\ Last' = Put(NoRows, First, Given)
        BY <1>0, <1>2, StoredMoves, WalletMoves DEF Last
    <2>3. First \in Accounts /\ Given \in {Given} \cup Calls
        BY DEF First, Accounts, AccountsAssumption
    <2>4. /\ In(rowsStored') = {First} /\ rowsStored'[First] = Given
          /\ In(Last') = {First} /\ Last'[First] = Given
        BY <1>1, <2>1, <2>2, <2>3, PutFacts, NoRowsFacts
    <2>5. Unsettled' = {}
        BY <2>1 DEF Unsettled, Stage
    <2>6. \A a \in Accounts : Agree(a)'
        BY <2>4 DEF Agree
    <2>. QED
        BY <2>5, <2>6 DEF InStep
<1>3. CASE PublishWallet
    <2>1. rowsStored' = rowsStored /\ calls' = calls /\ opener = {rowsStored}
        BY <1>0, <1>3 DEF PublishWallet, ReadIsStored
    <2>2. Last' = rowsStored
        BY <1>0, <1>3, <2>1, WalletMoves DEF Last
    <2>3. \A c \in Unsettled : c \in Calls /\ Kind[c] = "import" /\ Stage(c) \in InWriting
        BY <1>0, <2>1 DEF ReadIsStored, Unsettled, Over, InWriting, Stage
    <2>4. \A c, d \in Unsettled : c = d
        BY <1>0, <2>3, OneByOne DEF Doing, InWriting, Stage, Over
    <2>5. ASSUME NEW c \in Unsettled
          PROVE  Ahead(c)'
        <3>1. Target(c) \notin In(rowsStored)
            BY <1>0, <2>3 DEF IndexesApart
        <3>. QED
            BY <2>1, <2>2, <2>3, <3>1 DEF Ahead, Target, Stage, InWriting
    <2>6. Unsettled' = Unsettled
        BY <2>1 DEF Unsettled, Stage
    <2>7. \A a \in Accounts : Agree(a)'
        BY <2>1, <2>2 DEF Agree
    <2>. QED
        BY <2>4, <2>5, <2>6, <2>7 DEF InStep, Target
\* Otherwise the wallet was there before
<1>4. SUFFICES ASSUME ~SaveFirstAccount, ~PublishWallet PROVE InStep'
    BY <1>2, <1>3
<1>5. InStep
    <2>1. current' # 0 => current # 0
        BY <1>4, Frames DEF CloseWallet, BeginRemoval, Crash
    <2>2. removal'.stage \in {"draining", "deleting"} =>
              current # 0 \/ removal.stage \in {"draining", "deleting"}
        BY <1>0, Frames, RemovalMoves DEF BeginRemoval, Drain
    <2>. QED
        BY <1>0, <2>1, <2>2
<1>6. current # 0 \/ Suspended
    <2>1. current' # 0 => current # 0
        BY <1>4, Frames DEF CloseWallet, BeginRemoval, Crash
    <2>2. removal'.stage \in {"draining", "deleting"} => current # 0 \/ Suspended
        BY <1>0, Frames, RemovalMoves DEF BeginRemoval, Drain, Suspended
    <2>. QED
        BY <2>1, <2>2
<1>7. Len(wallets) # 0
    BY <1>0, <1>1, <1>6, WalletsFacts DEF AccountsBase, AccountTypes
<1>8. ~Crash /\ ~DeleteRows
    <2>1. ~Crash
        BY <1>0, RemovalMoves DEF Crash
    <2>2. ~DeleteRows
        BY <1>0, <1>1, RemovalMoves DEF DeleteRows, Suspended
    <2>. QED
        BY <2>1, <2>2
\* A step of no call
<1>9. CASE calls' = calls
    <2>1. ASSUME NEW c \in Calls, WriteRows(c) \/ AddDerived(c) \/ JoinWallet(c)
                     \/ \E a \in Accounts : BeginRemove(c, a) \/ BeginRename(c, a)
          PROVE  FALSE
        <3>1. calls'[c].stage # calls[c].stage
            BY <1>0, <2>1, CallMoves
               DEF Moves, AccountsBase, WriteRows, AddDerived, JoinWallet, BeginRemove,
                   BeginRename, CanStart, At
        <3>. QED
            BY <1>9, <3>1
    <2>2. rowsStored' = rowsStored /\ wallets' = wallets
        BY <1>4, <1>8, <2>1, Frames
    <2>. QED
        BY <1>5, <1>9, <2>2, InStepSame DEF Last
\* Steps of a call that no account sees
<1>10. ASSUME NEW c \in Calls,
              \/ BeginDerive(c) \/ ChooseIndex(c) \/ BeginImport(c) \/ EnterImport(c)
              \/ ReadRows(c) \/ SaveFails(c)
       PROVE  InStep'
    <2>1. rowsStored' = rowsStored /\ wallets' = wallets
        BY <1>10 DEF BeginDerive, ChooseIndex, BeginImport, EnterImport, ReadRows, SaveFails
    <2>2. ~SaveFails(c)
        BY DEF SaveFails, Adding
    <2>3. \A d \in Calls : d # c => calls'[d] = calls[d]
        BY <1>0, <1>10, CallMoves DEF Moves, AccountsBase
    <2>4. CASE ReadRows(c)
        <3>1. calls'[c].stage = "writing" /\ calls'[c].account = calls[c].account
            BY <1>0, <2>4, CallMoves DEF Moves, AccountsBase, Target
        <3>2. calls[c].stage = "saving"
            BY <2>4 DEF ReadRows, At
        <3>. QED
            BY <1>5, <2>1, <2>3, <3>1, <3>2, InStepSame DEF Last
    <2>5. CASE BeginDerive(c) \/ ChooseIndex(c) \/ BeginImport(c) \/ EnterImport(c)
        <3>1. calls'[c].stage \in {"decrypting", "deriving", "checking"}
            BY <1>0, <2>5, CallMoves DEF Moves, AccountsBase
        <3>2. calls[c].stage \in {"idle", "decrypting"}
            BY <2>5 DEF BeginDerive, ChooseIndex, BeginImport, EnterImport, CanStart, At
        <3>3. {calls[c].stage, calls'[c].stage} \cap {"saving", "writing", "stored"} = {}
            BY <3>1, <3>2
        <3>. QED
            BY <1>5, <2>1, <2>3, <3>3, InStepSame DEF Last
    <2>. QED
        BY <1>10, <2>2, <2>4, <2>5
\* A derivation gets to memory
<1>11. ASSUME NEW c \in Calls, AddDerived(c), NEW t \in Accounts, t = Target(c)
       PROVE  InStep'
    <2>1. /\ Kind[c] = "derive" /\ Stage(c) = "deriving" /\ rowsStored' = rowsStored
          /\ Target(c)[1] = c
        BY <1>0, <1>11 DEF AddDerived, At, Stage, AccountsBase, CallsFit
    <2>2. calls[c].wallet = Len(wallets)
        BY <1>0, <2>1, OneByOne DEF Doing, Stage, Over
    <2>3. Last \in RowSets /\ Last' = Put(Last, t, Given)
        BY <1>0, <1>11, <2>2, MemoryMoves
    <2>4. /\ calls'[c].stage = "saving" /\ calls'[c].account = t
          /\ \A d \in Calls : d # c => calls'[d] = calls[d]
        BY <1>0, <1>11, CallMoves DEF Moves, AccountsBase
    <2>5. /\ \A d \in Calls : d # c /\ d \in Unsettled => Target(d) # t
        BY <1>0, <1>11, <2>1, NotMadeYet
    <2>6. /\ t \in In(Last') /\ Last'[t] = Given
          /\ \A b \in Accounts : b # t =>
                 /\ b \in In(Last') <=> b \in In(Last)
                 /\ b \in In(Last) => Last'[b] = Last[b]
        BY <2>3, PutFacts
    <2>7. c \notin Unsettled /\ c \in Unsettled' /\ Ahead(c)'
        BY <2>1, <2>4, <2>6 DEF Unsettled, Stage, Ahead, Target
    <2>. QED
        BY <1>0, <1>5, <2>1, <2>4, <2>5, <2>6, <2>7, InStepMoved
\* An import passes the check, or does not
<1>12. ASSUME NEW c \in Calls, CheckDuplicates(c), NEW t \in Accounts, t = Target(c)
       PROVE  InStep'
    <2>1. /\ Kind[c] = "import" /\ Stage(c) = "checking" /\ rowsStored' = rowsStored
          /\ Target(c)[1] = c /\ Last' = Last
        BY <1>0, <1>12 DEF CheckDuplicates, At, Stage, AccountsBase, CallsFit, Last
    <2>2. /\ calls'[c].stage \in {"saving", "failed"} /\ calls'[c].account = t
          /\ \A d \in Calls : d # c => calls'[d] = calls[d]
        BY <1>0, <1>12, CallMoves DEF Moves, AccountsBase
    <2>3. CASE calls'[c].stage = "failed"
        <3>1. {calls[c].stage, calls'[c].stage} \cap {"saving", "writing", "stored"} = {}
            BY <2>1, <2>3 DEF Stage
        <3>. QED
            BY <1>5, <2>1, <2>2, <3>1, InStepSame
    <2>4. CASE calls'[c].stage = "saving"
        <3>1. /\ \A d \in Calls : d # c /\ d \in Unsettled => Target(d) # t
              /\ t \notin In(Last)
            BY <1>0, <1>7, <1>12, <2>1, NotMadeYet
        <3>2. c \notin Unsettled /\ c \in Unsettled' /\ Ahead(c)'
            BY <2>1, <2>2, <2>4, <3>1 DEF Unsettled, Stage, Ahead, Target
        <3>. QED
            BY <1>0, <1>5, <2>1, <2>2, <3>1, <3>2, InStepMoved
    <2>. QED
        BY <2>2, <2>3, <2>4
\* An import joins the wallet
<1>13. ASSUME NEW c \in Calls, JoinWallet(c), NEW t \in Accounts, t = Target(c)
       PROVE  InStep'
    <2>1. /\ Kind[c] = "import" /\ Stage(c) = "stored" /\ rowsStored' = rowsStored
          /\ c \in Unsettled
        BY <1>13 DEF JoinWallet, At, Stage, Unsettled
    <2>2. current # 0
        BY <1>0, <1>6, <2>1 DEF RemovalApart, Over
    <2>3. Last \in RowSets /\ Last' = Put(Last, t, Given)
        BY <1>0, <1>13, <2>2, MemoryMoves
    <2>4. /\ calls'[c].stage = "done" /\ calls'[c].account = t
          /\ \A d \in Calls : d # c => calls'[d] = calls[d]
        BY <1>0, <1>13, CallMoves DEF Moves, AccountsBase
    <2>5. /\ \A d \in Calls : d # c /\ d \in Unsettled => Target(d) # t
          /\ t \in In(rowsStored) /\ rowsStored[t] = Given
        BY <1>5, <1>13, <2>1 DEF InStep, Ahead
    <2>6. /\ t \in In(Last') /\ Last'[t] = Given
          /\ \A b \in Accounts : b # t =>
                 /\ b \in In(Last') <=> b \in In(Last)
                 /\ b \in In(Last) => Last'[b] = Last[b]
        BY <2>3, PutFacts
    <2>7. c \notin Unsettled' /\ Agree(t)'
        BY <2>1, <2>4, <2>5, <2>6 DEF Unsettled, Stage, Agree
    <2>. QED
        BY <1>0, <1>5, <1>13, <2>1, <2>4, <2>5, <2>6, <2>7, InStepMoved
\* An account leaves memory
<1>14. ASSUME NEW c \in Calls, NEW a \in Accounts, BeginRemove(c, a)
       PROVE  InStep'
    <2>1. /\ Last \in RowSets /\ a \in In(Last) /\ Last' = Drop(Last, {a})
          /\ rowsStored' = rowsStored /\ Kind[c] = "remove" /\ Stage(c) = "idle"
          /\ On(a, {"rename", "derive"}) = {}
        BY <1>0, <1>14, RemoveMoves DEF BeginRemove, CanStart, At, Stage, Adding
    <2>2. /\ calls'[c].stage = "saving" /\ calls'[c].account = a
          /\ \A d \in Calls : d # c => calls'[d] = calls[d]
        BY <1>0, <1>14, CallMoves DEF Moves, AccountsBase
    <2>3. ASSUME NEW d \in Unsettled, Target(d) = a
          PROVE  FALSE
        <3>1. d \in Calls /\ Stage(d) \notin Over
            BY <2>3 DEF Unsettled, Over
        <3>2. Kind[d] \notin {"rename", "derive"}
            BY <2>1, <2>3, <3>1 DEF On, UnderWay, Stage, Target
        <3>3. Kind[d] \notin {"import", "remove"}
            BY <1>5, <2>1, <2>3 DEF InStep, Ahead
        <3>. QED
            BY <3>1, <3>2, <3>3 DEF AccountsAssumption
    <2>4. /\ a \notin In(Last')
          /\ \A b \in Accounts : b # a =>
                 /\ b \in In(Last') <=> b \in In(Last)
                 /\ b \in In(Last) => Last'[b] = Last[b]
        BY <2>1, DropFacts
    <2>5. c \notin Unsettled /\ c \in Unsettled' /\ Ahead(c)'
        BY <2>1, <2>2, <2>4 DEF Unsettled, Stage, Ahead, Target
    <2>6. \A d \in Calls : d # c => calls'[d] = calls[d] /\ (d \in Unsettled => Target(d) # a)
        BY <2>2, <2>3
    <2>7. \A b \in Accounts : b # a =>
              /\ b \in In(rowsStored') <=> b \in In(rowsStored)
              /\ b \in In(rowsStored) => rowsStored'[b] = rowsStored[b]
              /\ b \in In(Last') <=> b \in In(Last)
              /\ b \in In(Last) => Last'[b] = Last[b]
        BY <2>1, <2>4
    <2>. QED
        BY <1>0, <1>5, <2>2, <2>5, <2>6, <2>7, InStepMoved
\* An account gets another name in memory
<1>15. ASSUME NEW c \in Calls, NEW a \in Accounts, BeginRename(c, a)
       PROVE  InStep'
    <2>1. /\ rowsStored' = rowsStored /\ Kind[c] = "rename" /\ Stage(c) = "idle"
          /\ On(a, {"rename", "remove", "derive", "import"}) = {}
          /\ a \in In(wallets[current])
        BY <1>15 DEF BeginRename, CanStart, At, Stage, Adding
    <2>2. Last \in RowSets /\ Last' = Put(Last, a, c)
        BY <1>0, <1>15, <2>1, MemoryMoves
    <2>3. /\ calls'[c].stage = "saving" /\ calls'[c].account = a
          /\ \A d \in Calls : d # c => calls'[d] = calls[d]
        BY <1>0, <1>15, CallMoves DEF Moves, AccountsBase
    <2>4. ASSUME NEW d \in Unsettled, Target(d) = a
          PROVE  FALSE
        <3>1. d \in Calls /\ Stage(d) \notin Over
            BY <2>4 DEF Unsettled, Over
        <3>2. Kind[d] \in {"rename", "remove", "derive", "import"}
            BY <3>1 DEF AccountsAssumption
        <3>. QED
            BY <2>1, <2>4, <3>1, <3>2 DEF On, UnderWay, Stage, Target
    <2>5. /\ a \in In(Last') /\ Last'[a] = c
          /\ \A b \in Accounts : b # a =>
                 /\ b \in In(Last') <=> b \in In(Last)
                 /\ b \in In(Last) => Last'[b] = Last[b]
        BY <2>2, PutFacts
    <2>6. c \notin Unsettled /\ c \in Unsettled' /\ Ahead(c)'
        BY <2>1, <2>3, <2>5 DEF Unsettled, Stage, Ahead, Target
    <2>. QED
        BY <1>0, <1>5, <2>1, <2>3, <2>4, <2>5, <2>6, InStepMoved
\* Storage follows
<1>16. ASSUME NEW c \in Calls, WriteRows(c), NEW t \in Accounts, t = Target(c)
       PROVE  InStep'
    <2>1. /\ Stage(c) = "writing" /\ c \in Unsettled /\ Last' = Last
          /\ calls'[c].stage = IF Kind[c] = "import" THEN "stored" ELSE "done"
          /\ calls'[c].account = t
          /\ \A d \in Calls : d # c => calls'[d] = calls[d]
        BY <1>0, <1>16, Writer DEF Stage, Last, Unsettled
    <2>2. /\ \A d \in Calls : d # c /\ d \in Unsettled => Target(d) # t
          /\ Ahead(c)
        BY <1>5, <1>16, <2>1 DEF InStep
    <2>3. /\ Kind[c] = "remove" => rowsStored' = Drop(rowsStored, {t})
          /\ Kind[c] = "rename" => rowsStored' = Put(rowsStored, t, c)
          /\ Kind[c] \in {"derive", "import"} => rowsStored' = Put(rowsStored, t, Given)
        BY <1>0, <1>16, StoredByCall
    <2>4. CASE Kind[c] = "remove"
        <3>1. /\ t \notin In(rowsStored')
              /\ \A b \in Accounts : b # t =>
                     /\ b \in In(rowsStored') <=> b \in In(rowsStored)
                     /\ b \in In(rowsStored) => rowsStored'[b] = rowsStored[b]
            BY <1>1, <2>3, <2>4, DropFacts
        <3>2. c \notin Unsettled' /\ Agree(t)'
            BY <1>16, <2>1, <2>2, <2>4, <3>1 DEF Unsettled, Stage, Agree, Ahead
        <3>. QED
            BY <1>0, <1>5, <1>16, <2>1, <2>2, <3>1, <3>2, InStepMoved
    <2>5. CASE Kind[c] # "remove"
        <3>. DEFINE name == IF Kind[c] = "rename" THEN c ELSE Given
        <3>1. Kind[c] \in {"derive", "import", "rename"}
            BY <2>5 DEF AccountsAssumption
        <3>2. name \in {Given} \cup Calls /\ rowsStored' = Put(rowsStored, t, name)
            BY <2>3, <3>1
        <3>. HIDE DEF name
        <3>3. /\ t \in In(rowsStored') /\ rowsStored'[t] = name
              /\ \A b \in Accounts : b # t =>
                     /\ b \in In(rowsStored') <=> b \in In(rowsStored)
                     /\ b \in In(rowsStored) => rowsStored'[b] = rowsStored[b]
            BY <1>1, <3>2, PutFacts
        <3>4. CASE Kind[c] = "import"
            <4>1. c \in Unsettled' /\ Ahead(c)'
                BY <1>16, <2>1, <2>2, <3>3, <3>4 DEF Unsettled, Stage, Ahead, Target, name
            <4>. QED
                BY <1>0, <1>5, <1>16, <2>1, <2>2, <3>3, <4>1, InStepMoved
        <3>5. CASE Kind[c] \in {"derive", "rename"}
            <4>1. c \notin Unsettled' /\ Agree(t)'
                BY <1>16, <2>1, <2>2, <3>3, <3>5 DEF Unsettled, Stage, Agree, Ahead, name
            <4>. QED
                BY <1>0, <1>5, <1>16, <2>1, <2>2, <3>3, <4>1, InStepMoved
        <3>. QED
            BY <3>1, <3>4, <3>5
    <2>. QED
        BY <2>4, <2>5
<1>. QED
    <2>1. \A c \in Calls : \E t \in Accounts : t = Target(c)
        BY <1>1
    <2>. QED
        BY <1>8, <1>9, <1>10, <1>11, <1>12, <1>13, <1>14, <1>15, <1>16, <2>1, Frames

\* Memory and removals, together.
LEMMA FollowKept ==
    ASSUME AccountsAssumption, AccountsInv, AccountsNext
    PROVE  FollowInv'
BY InStepKept, RemovalApartKept DEF FollowInv

-----------------------------------------------------------------------------
(* The theorems                                                            *)

\* Every step keeps the invariant.
LEMMA AccountsStay ==
    ASSUME AccountsAssumption, AccountsInv, [AccountsNext]_accountVars
    PROVE  AccountsInv'
<1>1. CASE AccountsNext
    BY <1>1, BaseKept, ReportsKept, SteadyKept, SmoothKept, ApartKept, FollowKept
       DEF AccountsInv
<1>2. CASE UNCHANGED accountVars
    <2>. USE <1>2 DEF accountVars, Stage, Target, In, Without
    <2>1. AccountsBase'
        BY DEF AccountsInv, AccountsBase, AccountTypes, PlacesFit, CallsFit, Suspended
    <2>2. ReportsHold'
        BY DEF AccountsInv, ReportsHold, AskedToGo, At
    <2>3. SteadyInv'
        <3>1. \A x : Made(x)' <=> Made(x)
            BY DEF Made
        <3>2. \A x : Written(x)' <=> Written(x)
            BY <3>1 DEF Written
        <3>3. Origins' <=> Origins
            BY <3>1, <3>2 DEF Origins
        <3>4. ReadIsStored' <=> ReadIsStored
            BY DEF ReadIsStored
        <3>. QED
            BY <3>3, <3>4 DEF AccountsInv, SteadyInv, Steady, FailuresNoted
    <2>4. SmoothInv'
        BY DEF AccountsInv, SmoothInv, LastIsStored, Last, Steady
    <2>5. CallsApart' <=> CallsApart
        BY DEF CallsApart, UnderWay, Suspended, Going
    <2>6. IndexesApart' <=> IndexesApart
        BY DEF IndexesApart, UnderWay, Going, Staying, Last
    <2>7. ApartInv'
        BY <2>5, <2>6 DEF AccountsInv, ApartInv, Apart, Clean
    <2>8. InStep' <=> InStep
        BY DEF InStep, Unsettled, Agree, Ahead, Last
    <2>9. RemovalApart' <=> RemovalApart
        BY DEF RemovalApart, Suspended, Going, Last
    <2>10. FollowInv'
        BY <2>8, <2>9 DEF AccountsInv, FollowInv
    <2>. QED
        BY <2>1, <2>2, <2>3, <2>4, <2>7, <2>10 DEF AccountsInv
<1>. QED
    BY <1>1, <1>2

\* The accounts of a wallet, in memory and stored, always fit the calls that are
\* under way and the trouble there was: the invariant that the theorems below
\* are read off.
THEOREM AccountsInvariance == AccountsSpec => []AccountsInv
<1>. USE AccountsAssumption
<1>1. AccountsInit => AccountsInv
    BY AccountsBegin
<1>2. AccountsInv /\ [AccountsNext]_accountVars => AccountsInv'
    BY AccountsStay
<1>. QED
    BY <1>1, <1>2, PTL DEF AccountsSpec

\* A call that is over, as AtRest sees it.
LEMMA NoneUnderWay ==
    ASSUME AccountsBase, AtRest
    PROVE  /\ \A c \in Calls : Stage(c) \in Over
           /\ Going = {} /\ Unsettled = {}
           /\ ~creating /\ removal.stage = "none"
<1>1. \A c \in Calls : Stage(c) \in Over
    BY AccountsAssumption DEF AtRest, UnderWay, Stage, AccountsAssumption
<1>. QED
    BY <1>1 DEF AtRest, Going, Unsettled, Over, InWriting, Suspended

\* An account that deriveAccount or importKeyfileAccounts returned to its caller
\* is stored until it, or its wallet, is asked to go: through failures of other
\* calls, closings, openings and crashes, unless NodeStorage lost a write.
THEOREM ReportsAreStored == AccountsSpec => []ReportedIsStored
<1>. USE AccountsAssumption
<1>1. AccountsInv => ReportedIsStored
    <2>. SUFFICES ASSUME AccountsInv, signerStored, ~Suspended, Without({"lost", "torn"}),
                         NEW a \in Reported \ AskedToGo
                  PROVE  a \in In(rowsStored)
        BY DEF ReportedIsStored
    <2>1. removal.stage # "rowsDeleted"
        BY DEF Suspended
    <2>2. PICK c \in Calls : /\ Kind[c] \in {"derive", "import"} /\ Stage(c) = "done"
                             /\ a = Target(c)
        BY DEF Reported, At, Stage, Target
    <2>. QED
        BY <2>1, <2>2 DEF AccountsInv, ReportsHold
<1>. QED
    BY <1>1, AccountsInvariance, PTL

\* Derivations, imports and removals that do not mix, fail or cross an opening
\* leave no two stored accounts with one key.
THEOREM StoredKeysDiffer == AccountsSpec => []NoTwins
<1>. USE AccountsAssumption
<1>1. AccountsInv => NoTwins
    <2>. SUFFICES ASSUME AccountsInv, AtRest,
                         Without({"failed", "reopened", "lost", "mixed", "contended", "crashed"})
                  PROVE  \A a, b \in In(rowsStored) : Index(a) = Index(b) => a = b
        BY DEF NoTwins
    <2>1. Going = {}
        BY NoneUnderWay DEF AccountsInv
    <2>2. Apart
        BY DEF Apart, Clean, Without
    <2>. QED
        BY <2>1, <2>2 DEF AccountsInv, ApartInv, IndexesApart, Staying
<1>. QED
    BY <1>1, AccountsInvariance, PTL

\* removeAccount refuses the last account of the memory, and with it storage
\* keeps one, although it never looks there: unless a derivation failed or was
\* cut off by a crash, the wallet was reopened under a running call, a write of
\* NodeStorage undid another, or a creation or removal was cut short.
THEOREM AnAccountIsKept == AccountsSpec => []KeepsAnAccount
<1>. USE AccountsAssumption
<1>1. AccountsInv => KeepsAnAccount
    <2>. SUFFICES ASSUME AccountsInv, AtRest, signerStored, Without({"reopened", "lost", "torn"}),
                         \A c \in Calls : Kind[c] = "derive" => Stage(c) # "failed"
                  PROVE  In(rowsStored) # {}
        BY DEF KeepsAnAccount, At, Stage
    <2>1. /\ \A c \in Calls : Stage(c) \in Over
          /\ ~creating /\ removal.stage = "none"
        BY NoneUnderWay DEF AccountsInv
    <2>2. Steady /\ Without({"torn"})
        BY DEF Steady, Without
    <2>3. In(Last) # {} /\ \A a \in In(Last) :
              a \in In(rowsStored) \/ \E c \in Calls : Stage(c) \in InWriting
        BY <2>1, <2>2 DEF AccountsInv, SmoothInv, LastIsStored
    <2>. QED
        BY <2>1, <2>3 DEF Over, InWriting
<1>. QED
    BY <1>1, AccountsInvariance, PTL

\* When every call is over and nothing went wrong, the table has what the open
\* wallet has, names included, and of a removed wallet it has nothing.
THEOREM TableFollowsMemory == AccountsSpec => []StorageFollowsWallet
<1>. USE AccountsAssumption
<1>1. AccountsInv => StorageFollowsWallet
    <2>. SUFFICES ASSUME AccountsInv, AtRest, trouble = {}
                  PROVE  /\ current # 0 => rowsStored = wallets[current]
                         /\ ~signerStored => rowsStored = NoRows
        BY DEF StorageFollowsWallet
    <2>1. Going = {} /\ Unsettled = {} /\ rowsStored \in RowSets
        BY NoneUnderWay DEF AccountsInv, AccountsBase, AccountTypes
    <2>2. ASSUME current # 0
          PROVE  rowsStored = wallets[current]
        <3>1. /\ current = Len(wallets) /\ Len(wallets) \in Nat
              /\ \A n \in 1 .. Len(wallets) : wallets[n] \in RowSets
            BY <2>2, WalletsFacts DEF AccountsInv, AccountsBase, AccountTypes
        <3>2. Last = wallets[current] /\ Last \in RowSets
            BY <2>2, <3>1 DEF Last
        <3>3. \A a \in Accounts : Agree(a)
            BY <2>1, <2>2 DEF AccountsInv, FollowInv, InStep
        <3>4. In(rowsStored) \subseteq Accounts /\ In(Last) \subseteq Accounts
            BY <2>1, <3>2, RowsFacts
        <3>5. /\ In(rowsStored) = In(Last)
              /\ \A a \in In(rowsStored) : rowsStored[a] = Last[a]
            BY <3>3, <3>4 DEF Agree
        <3>6. /\ rowsStored = [a \in In(rowsStored) |-> rowsStored[a]]
              /\ Last = [a \in In(Last) |-> Last[a]]
            BY <2>1, <3>2, RowsFacts
        <3>7. [a \in In(rowsStored) |-> rowsStored[a]] = [a \in In(Last) |-> Last[a]]
            BY <3>5
        <3>. QED
            BY <3>2, <3>6, <3>7
    <2>3. ASSUME ~signerStored
          PROVE  rowsStored = NoRows
        <3>1. In(rowsStored) = {}
            BY <2>1, <2>3 DEF AccountsInv, FollowInv, RemovalApart
        <3>2. rowsStored = [a \in In(rowsStored) |-> rowsStored[a]]
            BY <2>1, RowsFacts
        <3>. QED
            BY <3>1, <3>2 DEF NoRows
    <2>. QED
        BY <2>2, <2>3
<1>. QED
    BY <1>1, AccountsInvariance, PTL
-----------------------------------------------------------------------------
(* The table that is implemented                                           *)

\* Flags stay set; while none is, there has been no trouble.
LEMMA FlagsKept ==
    ASSUME AccountsNext
    PROVE  /\ AccountsTable!Onward
           /\ AccountsTable!Orderly => trouble' = {} /\ trouble = {}
           /\ "lost" \in trouble \/ "lost" \notin trouble
<1>1. trouble \subseteq trouble'
    BY TroubleGrows
<1>. QED
    BY <1>1 DEF AccountsTable!Onward, AccountsTable!Orderly

\* How a call comes to be over for the table.
LEMMA SpentMoves ==
    ASSUME AccountsAssumption, AccountsBase, AccountsNext, NEW d \in Calls
    PROVE  /\ d \in Spent => d \in Spent'
           /\ d \in Spent' \ Spent =>
                  \/ WriteRows(d)
                  \/ CheckDuplicates(d) /\ \E a \in In(rowsStored) : Index(a) = Wanted[d]
                  \/ trouble' \ {"lost"} # {}
<1>. DEFINE Through(s) == s \in {"stored", "done", "failed"}
            Claims ==
                /\ Through(calls[d].stage) => Through(calls'[d].stage)
                /\ Through(calls'[d].stage) /\ ~Through(calls[d].stage) =>
                       \/ WriteRows(d)
                       \/ CheckDuplicates(d) /\ \E a \in In(rowsStored) : Index(a) = Wanted[d]
                       \/ trouble' \ {"lost"} # {}
<1>. SUFFICES Claims
    BY DEF Spent
<1>1. CASE Same(d)
    BY <1>1 DEF Same
<1>2. CASE Crash /\ Ended(d)
    BY <1>2 DEF Ended, Over
<1>3. CASE BeginDerive(d) \/ BeginImport(d)
    BY <1>3, CallMoves DEF Moves, BeginDerive, BeginImport, CanStart, At, AccountsBase
<1>4. CASE ChooseIndex(d) \/ AddDerived(d) \/ EnterImport(d)
    BY <1>4, CallMoves DEF Moves, ChooseIndex, AddDerived, EnterImport, At, AccountsBase
<1>5. CASE CheckDuplicates(d)
    BY <1>5, CallMoves DEF Moves, CheckDuplicates, At, AccountsBase
<1>6. CASE JoinWallet(d)
    BY <1>6, CallMoves DEF Moves, JoinWallet, At, AccountsBase
<1>7. CASE ReadRows(d)
    <2>1. CASE Kind[d] = "rename" /\ calls[d].account \notin In(rowsStored)
        <3>1. "failed" \in trouble' /\ calls[d].stage = "saving"
            BY <1>7, <2>1 DEF ReadRows, Adding, At
        <3>. QED
            BY <3>1
    <2>2. CASE ~(Kind[d] = "rename" /\ calls[d].account \notin In(rowsStored))
        <3>1. /\ calls[d].stage = "saving"
              /\ calls' = [calls EXCEPT ![d].stage = "writing", ![d].view = rowsStored]
            BY <1>7, <2>2 DEF ReadRows, At
        <3>. QED
            BY <3>1 DEF AccountsBase, AccountTypes, CallRecords
    <2>. QED
        BY <2>1, <2>2
<1>8. CASE WriteRows(d)
    BY <1>8, Writer
<1>9. CASE SaveFails(d)
    BY <1>9 DEF SaveFails, Adding
<1>10. ASSUME NEW a \in Accounts, BeginRemove(d, a) \/ BeginRename(d, a)
       PROVE  Claims
    BY <1>10, CallMoves DEF Moves, BeginRemove, BeginRename, CanStart, At, AccountsBase
<1>. QED
    BY <1>1, <1>2, <1>3, <1>4, <1>5, <1>6, <1>7, <1>8, <1>9, <1>10, CallSteps

\* An account is asked to go when its removal begins, and at no other time.
LEMMA AskedMoves ==
    ASSUME AccountsAssumption, AccountsBase, AccountsNext,
           \A c \in Calls, a \in Accounts : ~BeginRemove(c, a)
    PROVE  AskedToGo' = AskedToGo
<1>1. ASSUME NEW d \in Calls, Kind[d] = "remove", calls'[d].stage # "idle"
      PROVE  calls[d].stage # "idle" /\ calls'[d].account = calls[d].account
    <2>1. calls[d].stage # "idle"
        <3>. SUFFICES ASSUME calls[d].stage = "idle" PROVE FALSE
            OBVIOUS
        <3>1. ~Same(d) /\ ~Ended(d)
            BY <1>1 DEF Same, Ended, Over
        <3>. QED
            BY <1>1, <3>1, CallSteps
               DEF BeginDerive, ChooseIndex, AddDerived, BeginImport, EnterImport,
                   CheckDuplicates, JoinWallet, ReadRows, WriteRows, SaveFails, BeginRename, At
    <2>2. calls[d].stage # "decrypting"
        BY <1>1, <2>1 DEF AccountsBase, CallsFit, Stage
    <2>. QED
        BY <2>1, <2>2, CallStages
<1>2. AskedToGo' \subseteq AskedToGo
    BY <1>1 DEF AskedToGo, At
<1>. QED
    BY <1>2, AskedStays

\* The write of a call is its one effect on the table, unless it is lost.
LEMMA WriteIsEffect ==
    ASSUME AccountsAssumption, AccountsInv, AccountsNext, NEW c \in Calls, WriteRows(c)
    PROVE  AccountsTable!Next
<1>. DEFINE a == Target(c)
<1>1. AccountsBase /\ AccountsTable!Onward
    BY FlagsKept DEF AccountsInv
<1>2. /\ calls[c].stage = "writing" /\ Stage(c) = "writing"
      /\ calls'[c].stage \in {"stored", "done"}
      /\ \A d \in Calls : d # c => calls'[d] = calls[d]
    BY <1>1, Writer DEF Stage
<1>3. c \notin Spent /\ Spent' = Spent \cup {c}
    BY <1>2 DEF Spent
<1>4. AskedToGo' = AskedToGo
    <2>1. ASSUME NEW d \in Calls, NEW b \in Accounts, BeginRemove(d, b)
          PROVE  FALSE
        <3>1. calls[d].stage = "idle"
            BY <2>1 DEF BeginRemove, CanStart, At
        <3>2. Moves(d, "saving", calls[d].wallet, b)
            BY <1>1, <2>1, CallMoves DEF AccountsBase
        <3>3. calls'[d].stage = "saving"
            BY <3>2 DEF Moves
        <3>. QED
            BY <1>2, <3>1, <3>3
    <2>. QED
        BY <1>1, <2>1, AskedMoves
<1>5. a \in Accounts /\ rowsStored \in RowSets
    BY <1>1 DEF AccountsBase, AccountTypes, CallRecords, Target
<1>6. ASSUME "lost" \in trouble'
      PROVE  AccountsTable!Lose({c})
    <2>1. rowsStored' \in RowSets
        BY <1>1, StoredMoves
    <2>2. AccountsTable!IsTable(rowsStored')
        BY <2>1, RowsFacts DEF AccountsTable!IsTable, In
    <2>. QED
        BY <1>1, <1>3, <1>4, <1>6, <2>2 DEF AccountsTable!Lose
<1>7. ASSUME "lost" \notin trouble', Kind[c] \in {"derive", "import"}
      PROVE  AccountsTable!Store(c, a)
    <2>1. rowsStored' = AccountsTable!With(a, Given)
        BY <1>1, <1>7, StoredByCall DEF Put, AccountsTable!With
    <2>2. a[1] = c /\ (Kind[c] = "import" => a = <<c, Wanted[c]>>)
        BY <1>1, <1>2, <1>7 DEF AccountsBase, CallsFit
    <2>3. ASSUME AccountsTable!Orderly
          PROVE  \A b \in AccountsTable!Staying :
                     AccountsTable!IndexOf(b) # AccountsTable!IndexOf(a)
        <3>1. trouble = {}
            BY <2>3, FlagsKept
        <3>2. IndexesApart
            BY <3>1 DEF AccountsInv, ApartInv, Apart, Clean, Without
        <3>3. AccountsTable!Staying \subseteq Staying
            BY DEF AccountsTable!Staying, Staying, Going, AskedToGo, In, At, Stage, Target,
                   InWriting
        <3>4. Staying \subseteq In(rowsStored)
            BY DEF Staying
        <3>. QED
            BY <1>2, <1>7, <3>2, <3>3, <3>4
               DEF IndexesApart, InWriting, AccountsTable!IndexOf, Index
    <2>. QED
        BY <1>1, <1>3, <1>4, <1>7, <2>1, <2>2, <2>3
           DEF AccountsTable!Store, AccountsTable!Spend, AccountsTable!IndexOf
<1>8. ASSUME "lost" \notin trouble', Kind[c] = "rename"
      PROVE  AccountsTable!Rename(c, a)
    <2>1. rowsStored' = AccountsTable!With(a, c)
        BY <1>1, <1>8, StoredByCall DEF Put, AccountsTable!With
    <2>2. ASSUME AccountsTable!Orderly
          PROVE  a \in DOMAIN rowsStored
        <3>1. trouble = {}
            BY <2>2, FlagsKept
        <3>2. CallsApart
            BY <3>1 DEF AccountsInv, ApartInv, Apart, Clean, Without
        <3>3. c \in UnderWay({"rename"})
            BY <1>2, <1>8 DEF UnderWay, Over
        <3>. QED
            BY <1>2, <3>2, <3>3 DEF CallsApart, In
    <2>. QED
        BY <1>1, <1>3, <1>4, <1>8, <2>1, <2>2
           DEF AccountsTable!Rename, AccountsTable!Spend
<1>9. ASSUME "lost" \notin trouble', Kind[c] = "remove"
      PROVE  AccountsTable!Remove(c, a)
    <2>1. rowsStored' = AccountsTable!Less({a})
        BY <1>1, <1>9, StoredByCall DEF Drop, Restrict, AccountsTable!Less
    <2>2. a \in AskedToGo
        BY <1>2, <1>9 DEF AskedToGo, At, Target
    <2>. QED
        BY <1>1, <1>3, <1>4, <1>9, <2>1, <2>2
           DEF AccountsTable!Remove, AccountsTable!Spend
<1>10. Kind[c] \in {"derive", "import", "rename", "remove"}
    BY DEF AccountsAssumption
<1>. QED
    BY <1>5, <1>6, <1>7, <1>8, <1>9, <1>10 DEF AccountsTable!Next

\* Deleting what the wallet object has wipes the table, unless calls went on.
LEMMA DeletionIsWipe ==
    ASSUME AccountsAssumption, AccountsInv, AccountsNext, DeleteRows
    PROVE  AccountsTable!Next
<1>1. AccountsBase /\ AccountsTable!Onward
    BY FlagsKept DEF AccountsInv
<1>2. calls' = calls /\ removal'.stage = "rowsDeleted"
    BY <1>1 DEF DeleteRows, AccountsBase, AccountTypes, Removals
<1>3. Spent' = Spent /\ AskedToGo' = AskedToGo
    BY <1>2 DEF Spent, AskedToGo, At
<1>4. CASE "lost" \in trouble'
    <2>1. rowsStored' \in RowSets
        BY <1>1, StoredMoves
    <2>2. AccountsTable!IsTable(rowsStored')
        BY <2>1, RowsFacts DEF AccountsTable!IsTable, In
    <2>3. AccountsTable!Lose({})
        BY <1>1, <1>3, <1>4, <2>2 DEF AccountsTable!Lose
    <2>. QED
        BY <2>3 DEF AccountsTable!Next
<1>5. CASE "lost" \notin trouble'
    <2>. DEFINE gone == DOMAIN rowsStored \cap removal.gone
    <2>1. rowsStored' = AccountsTable!Less(gone)
        <3>1. rowsStored' = Drop(rowsStored, removal.gone)
            BY <1>1, <1>5, StoredMoves
        <3>2. DOMAIN rowsStored \ removal.gone = DOMAIN rowsStored \ gone
            OBVIOUS
        <3>. QED
            BY <3>1, <3>2 DEF Drop, Restrict, AccountsTable!Less
    <2>2. ASSUME AccountsTable!Orderly
          PROVE  AccountsTable!Staying \subseteq gone
        <3>1. trouble' = {}
            BY <2>2, FlagsKept
        <3>2. RemovalApart'
            BY <3>1, FollowKept DEF FollowInv
        <3>3. In(rowsStored)' \subseteq Going'
            BY <1>2, <3>2 DEF RemovalApart
        <3>4. Going' \subseteq AskedToGo
            BY <1>2 DEF Going, AskedToGo, At, Stage, Target, InWriting
        <3>5. DOMAIN rowsStored' = DOMAIN rowsStored \ gone
            BY <2>1 DEF AccountsTable!Less
        <3>. QED
            BY <3>3, <3>4, <3>5 DEF AccountsTable!Staying, In
    <2>3. AccountsTable!Wipe(gone)
        BY <1>1, <1>3, <2>1, <2>2 DEF AccountsTable!Wipe
    <2>. QED
        BY <2>3 DEF AccountsTable!Next
<1>. QED
    BY <1>4, <1>5

\* Every step of the accounts is one of the table, or nothing it shows.
LEMMA AccountsStep ==
    ASSUME AccountsAssumption, AccountsInv, AccountsNext
    PROVE  AccountsTable!Next
<1>1. AccountsBase /\ AccountsTable!Onward
    BY FlagsKept DEF AccountsInv
<1>2. CASE \E c \in Calls : WriteRows(c)
    BY <1>2, WriteIsEffect
<1>3. CASE DeleteRows
    BY <1>3, DeletionIsWipe
<1>4. CASE SaveFirstAccount
    <2>1. calls' = calls /\ creating
        BY <1>4 DEF SaveFirstAccount
    <2>2. Spent' = Spent /\ AskedToGo' = AskedToGo
        BY <2>1 DEF Spent, AskedToGo, At
    <2>3. rowsStored' = AccountsTable!With(First, Given)
        BY <1>4 DEF SaveFirstAccount, Put, AccountsTable!With
    <2>4. ASSUME AccountsTable!Orderly
          PROVE  rowsStored = AccountsTable!Empty
        <3>1. trouble = {}
            BY <2>4, FlagsKept
        <3>2. In(rowsStored) = {}
            BY <2>1, <3>1 DEF AccountsInv, ApartInv, Apart, Clean, Without, CallsApart
        <3>3. rowsStored = [a \in In(rowsStored) |-> rowsStored[a]]
            BY <1>1, RowsFacts DEF AccountsBase, AccountTypes
        <3>. QED
            BY <3>2, <3>3 DEF AccountsTable!Empty
    <2>5. AccountsTable!Create
        BY <1>1, <2>2, <2>3, <2>4 DEF AccountsTable!Create
    <2>. QED
        BY <2>5 DEF AccountsTable!Next
<1>5. ASSUME NEW c \in Calls, NEW a \in Accounts, BeginRemove(c, a)
      PROVE  AccountsTable!Next
    <2>1. /\ Kind[c] = "remove" /\ calls[c].stage = "idle"
          /\ calls'[c].stage = "saving" /\ calls'[c].account = a
          /\ \A d \in Calls : d # c => calls'[d] = calls[d]
          /\ rowsStored' = rowsStored
        BY <1>1, <1>5, CallMoves DEF BeginRemove, CanStart, At, Moves, AccountsBase
    <2>2. c \notin Spent /\ Spent' = Spent
        BY <2>1 DEF Spent
    <2>3. AskedToGo' = AskedToGo \cup {a}
        BY <2>1 DEF AskedToGo, At
    <2>4. AccountsTable!Ask(c, a)
        BY <1>1, <2>1, <2>2, <2>3 DEF AccountsTable!Ask
    <2>. QED
        BY <2>4 DEF AccountsTable!Next
<1>6. ASSUME rowsStored' = rowsStored, ~\E c \in Calls : WriteRows(c),
             \A c \in Calls, a \in Accounts : ~BeginRemove(c, a)
      PROVE  AccountsTable!Next
    <2>1. AskedToGo' = AskedToGo
        BY <1>1, <1>6, AskedMoves
    <2>2. Spent \subseteq Spent' /\ Spent' \subseteq Calls
        BY <1>1, SpentMoves DEF Spent
    <2>3. CASE trouble' \ {"lost"} # {}
        <3>. DEFINE cs == Spent' \ Spent
        <3>1. cs \in SUBSET Calls /\ cs \cap Spent = {} /\ Spent' = Spent \cup cs
            BY <2>2
        <3>2. AccountsTable!Fail(cs)
            BY <1>1, <1>6, <2>1, <2>3, <3>1 DEF AccountsTable!Fail
        <3>. QED
            BY <3>1, <3>2 DEF AccountsTable!Next
    <2>4. ASSUME trouble' \ {"lost"} = {}, NEW c \in Spent' \ Spent
          PROVE  AccountsTable!Next
        <3>1. /\ c \in Calls /\ CheckDuplicates(c)
              /\ \E a \in In(rowsStored) : Index(a) = Wanted[c]
            BY <1>1, <1>6, <2>2, <2>4, SpentMoves
        <3>2. /\ Kind[c] = "import"
              /\ \A d \in Calls : d # c => calls'[d] = calls[d]
            BY <1>1, <3>1, CallMoves DEF CheckDuplicates, Moves, AccountsBase
        <3>3. Spent' = Spent \cup {c}
            BY <2>2, <2>4, <3>2 DEF Spent
        <3>4. AccountsTable!Refuse(c)
            BY <1>1, <1>6, <2>1, <2>4, <3>1, <3>2, <3>3
               DEF AccountsTable!Refuse, AccountsTable!Spend, AccountsTable!IndexOf, Index, In
        <3>. QED
            BY <3>1, <3>4 DEF AccountsTable!Next
    <2>5. CASE Spent' \subseteq Spent
        <3>1. AccountsTable!Stray
            BY <1>1, <1>6, <2>1, <2>2, <2>5 DEF AccountsTable!Stray
        <3>. QED
            BY <3>1 DEF AccountsTable!Next
    <2>. QED
        BY <2>3, <2>4, <2>5
<1>. QED
    BY <1>2, <1>3, <1>4, <1>5, <1>6, Frames

\* The accounts table implements a table on which calls take effect one by one,
\* once each, although they wait between reading and writing, fail, cross, and
\* outlive their wallet objects and the client.
THEOREM AccountsRefineTable == AccountsSpec => ImplementsAccountTable
<1>. USE AccountsAssumption
<1>1. AccountsInit => AccountsTable!Init
    <2>. SUFFICES ASSUME AccountsInit PROVE AccountsTable!Init
        OBVIOUS
    <2>1. \A c \in Calls : calls[c].stage = "idle"
        BY DEF AccountsInit, IdleCall
    <2>2. Spent = {} /\ AskedToGo = {}
        BY <2>1 DEF Spent, AskedToGo, At
    <2>. QED
        BY <2>2 DEF AccountsInit, NoRows, AccountsTable!Init, AccountsTable!Empty
<1>2. AccountsInv /\ [AccountsNext]_accountVars => [AccountsTable!Next]_AccountsTable!vars
    <2>1. AccountsInv /\ AccountsNext => AccountsTable!Next
        BY AccountsStep
    <2>2. UNCHANGED accountVars => UNCHANGED AccountsTable!vars
        BY DEF accountVars, AccountsTable!vars, Spent, AskedToGo, At
    <2>. QED
        BY <2>1, <2>2
<1>. QED
    BY <1>1, <1>2, AccountsInvariance, PTL DEF AccountsSpec, ImplementsAccountTable

\* Every step of the table keeps what it promises.
LEMMA AccountsTableKeeps ==
    ASSUME AccountsAssumption, AccountsTable!Kept, [AccountsTable!Next]_AccountsTable!vars
    PROVE  AccountsTable!Kept'
<1>. DEFINE KeptIn(table, through, leaving) ==
         /\ \A a, b \in DOMAIN table \ leaving : a[2] = b[2] => a = b
         /\ \A a \in DOMAIN table : a = First \/ a[1] \in through
<1>1. ASSUME AccountsTable!Orderly, AccountsTable!Onward
      PROVE  KeptIn(rowsStored, Spent, AskedToGo)
    BY <1>1 DEF AccountsTable!Kept, AccountsTable!Orderly, AccountsTable!Onward,
                AccountsTable!Staying, AccountsTable!IndexOf
<1>2. ASSUME AccountsTable!Orderly => KeptIn(rowsStored', Spent', AskedToGo')
      PROVE  AccountsTable!Kept'
    BY <1>2 DEF AccountsTable!Kept, AccountsTable!Orderly,
                AccountsTable!Staying, AccountsTable!IndexOf
<1>3. CASE AccountsTable!Create
    <2>. SUFFICES ASSUME AccountsTable!Orderly
                  PROVE  KeptIn(rowsStored', Spent', AskedToGo')
        BY <1>2
    <2>1. DOMAIN rowsStored' = {First}
        BY <1>3 DEF AccountsTable!Create, AccountsTable!With, AccountsTable!Empty
    <2>. QED
        BY <2>1
<1>4. ASSUME NEW c \in Calls, NEW a \in Accounts, AccountsTable!Store(c, a)
      PROVE  AccountsTable!Kept'
    <2>. SUFFICES ASSUME AccountsTable!Orderly
                  PROVE  KeptIn(rowsStored', Spent', AskedToGo')
        BY <1>2
    <2>1. /\ DOMAIN rowsStored' = DOMAIN rowsStored \cup {a} /\ AskedToGo' = AskedToGo
          /\ Spent' = Spent \cup {c} /\ a[1] = c
          /\ \A b \in DOMAIN rowsStored \ AskedToGo : b[2] # a[2]
          /\ AccountsTable!Onward
        BY <1>4 DEF AccountsTable!Store, AccountsTable!With, AccountsTable!Spend,
                    AccountsTable!Staying, AccountsTable!IndexOf
    <2>2. KeptIn(rowsStored, Spent, AskedToGo)
        BY <1>1, <2>1
    <2>. QED
        BY <2>1, <2>2
<1>5. ASSUME AccountsTable!Orderly => DOMAIN rowsStored' \subseteq DOMAIN rowsStored,
             AskedToGo \subseteq AskedToGo', Spent \subseteq Spent', AccountsTable!Onward
      PROVE  AccountsTable!Kept'
    BY <1>1, <1>2, <1>5
<1>6. ASSUME NEW c \in Calls, NEW a \in Accounts,
             AccountsTable!Rename(c, a) \/ AccountsTable!Ask(c, a) \/ AccountsTable!Remove(c, a)
      PROVE  AccountsTable!Kept'
    <2>1. CASE AccountsTable!Rename(c, a)
        BY <1>5, <2>1 DEF AccountsTable!Rename, AccountsTable!With, AccountsTable!Spend
    <2>2. CASE AccountsTable!Ask(c, a) \/ AccountsTable!Remove(c, a)
        BY <1>5, <2>2 DEF AccountsTable!Ask, AccountsTable!Remove, AccountsTable!Less,
                          AccountsTable!Spend
    <2>. QED
        BY <1>6, <2>1, <2>2
<1>7. ASSUME NEW c \in Calls, AccountsTable!Refuse(c)
      PROVE  AccountsTable!Kept'
    BY <1>5, <1>7 DEF AccountsTable!Refuse, AccountsTable!Spend
<1>8. ASSUME NEW cs \in SUBSET Calls, AccountsTable!Fail(cs) \/ AccountsTable!Lose(cs)
      PROVE  AccountsTable!Kept'
    <2>1. ~AccountsTable!Orderly
        BY <1>8 DEF AccountsTable!Fail, AccountsTable!Lose, AccountsTable!Orderly
    <2>. QED
        BY <1>2, <2>1
<1>9. ASSUME NEW gone, AccountsTable!Wipe(gone)
      PROVE  AccountsTable!Kept'
    BY <1>5, <1>9 DEF AccountsTable!Wipe, AccountsTable!Less
<1>10. CASE AccountsTable!Stray
    BY <1>5, <1>10 DEF AccountsTable!Stray
<1>11. CASE UNCHANGED AccountsTable!vars
    BY <1>5, <1>11 DEF AccountsTable!vars, AccountsTable!Onward
<1>. QED
    BY <1>3, <1>4, <1>6, <1>7, <1>8, <1>9, <1>10, <1>11 DEF AccountsTable!Next

\* So at every moment, as long as no call fails or crosses another, the stored
\* accounts that stay have keys of their own, and none is there before the call
\* that makes it is through.
THEOREM AccountTableIsKept == AccountsSpec => []AccountsTable!Kept
<1>. USE AccountsAssumption
<1>1. AccountsTable!Init => AccountsTable!Kept
    BY DEF AccountsTable!Init, AccountsTable!Kept, AccountsTable!Empty, AccountsTable!Staying
<1>2. AccountsTable!Kept /\ [AccountsTable!Next]_AccountsTable!vars => AccountsTable!Kept'
    BY AccountsTableKeeps
<1>. QED
    BY <1>1, <1>2, AccountsRefineTable, PTL DEF ImplementsAccountTable

-----------------------------------------------------------------------------
(* The bounds of a run                                                     *)

\* The service, the history, what openWallet has read, and the wallet objects
\* that the removal and the calls hold.
AccountBounds ==
    /\ backend \in Backends
    /\ trouble \subseteq Troubles
    /\ opener = {} \/ \E rows : opener = {rows}
    /\ Len(wallets) <= MaxWallets
    /\ opener # {} => Len(wallets) < MaxWallets
    /\ removal.wallet <= Len(wallets)
    /\ \A c \in Calls : calls[c].wallet <= Len(wallets)

\* A call works on the object it has, or takes the one that is open.
LEMMA ObjectOfCall ==
    ASSUME AccountsAssumption, AccountsBase, AccountsNext, NEW c \in Calls
    PROVE  calls'[c].wallet \in {calls[c].wallet, current}
<1>1. ASSUME NEW s, NEW w, NEW a, Moves(c, s, w, a) PROVE calls'[c].wallet = w
    BY <1>1 DEF Moves
<1>2. CASE BeginDerive(c)
    BY <1>1, <1>2, CallMoves DEF AccountsBase
<1>3. CASE ChooseIndex(c)
    <2>1. Moves(c, "deriving", calls[c].wallet,
                <<c, DerivationIndex(wallets[calls[c].wallet])>>)
        BY <1>3, CallMoves DEF AccountsBase
    <2>. QED
        BY <1>1, <2>1
<1>4. CASE AddDerived(c) \/ BeginImport(c) \/ EnterImport(c) \/ JoinWallet(c)
    BY <1>1, <1>4, CallMoves DEF AccountsBase
<1>5. CASE CheckDuplicates(c)
    BY <1>1, <1>5, CallMoves DEF AccountsBase
<1>6. CASE ReadRows(c)
    BY <1>1, <1>6, CallMoves DEF AccountsBase
<1>7. CASE WriteRows(c)
    BY <1>1, <1>7, CallMoves DEF AccountsBase
<1>8. CASE SaveFails(c)
    BY <1>1, <1>8, CallMoves DEF AccountsBase
<1>9. CASE \E a \in Accounts : BeginRemove(c, a) \/ BeginRename(c, a)
    BY <1>1, <1>9, CallMoves DEF AccountsBase
<1>. QED
    BY <1>2, <1>3, <1>4, <1>5, <1>6, <1>7, <1>8, <1>9, CallSteps DEF Same, Ended

\* Trouble is of the kinds there are.
LEMMA TroublesTyped ==
    ASSUME trouble \subseteq Troubles, AccountsNext
    PROVE  trouble' \subseteq Troubles
<1>. USE DEF Troubles, Adding
<1>1. CASE \/ SaveSigner \/ SaveFirstAccount \/ CreationFails \/ CloseWallet \/ ReadWallet
           \/ PublishWallet
    BY <1>1 DEF SaveSigner, SaveFirstAccount, CreationFails, CloseWallet, ReadWallet,
                PublishWallet
<1>2. CASE \/ BeginRemoval \/ Drain \/ DeleteRows \/ DeleteSigner \/ RemovalFails \/ Crash
    BY <1>2 DEF BeginRemoval, Drain, DeleteRows, DeleteSigner, RemovalFails, Crash
<1>3. ASSUME NEW c \in Calls,
             \/ BeginDerive(c) \/ ChooseIndex(c) \/ AddDerived(c)
             \/ BeginImport(c) \/ EnterImport(c)
      PROVE  trouble' \subseteq Troubles
    BY <1>3 DEF BeginDerive, ChooseIndex, AddDerived, BeginImport, EnterImport
<1>4. ASSUME NEW c \in Calls,
             \/ CheckDuplicates(c) \/ JoinWallet(c)
             \/ ReadRows(c) \/ WriteRows(c) \/ SaveFails(c)
      PROVE  trouble' \subseteq Troubles
    BY <1>4 DEF CheckDuplicates, JoinWallet, ReadRows, WriteRows, SaveFails
<1>5. ASSUME NEW c \in Calls, NEW a \in Accounts, BeginRemove(c, a) \/ BeginRename(c, a)
      PROVE  trouble' \subseteq Troubles
    BY <1>5 DEF BeginRemove, BeginRename
<1>. HIDE DEF Troubles, Adding
<1>. QED
    BY <1>1, <1>2, <1>3, <1>4, <1>5 DEF AccountsNext

\* A behaviour has one table service.
LEMMA BackendStays ==
    ASSUME AccountsNext
    PROVE  backend' = backend
BY DEF AccountsNext, SaveSigner, SaveFirstAccount, CreationFails, CloseWallet, ReadWallet,
       PublishWallet, BeginRemoval, Drain, DeleteRows, DeleteSigner, RemovalFails, Crash,
       BeginDerive, ChooseIndex, AddDerived, BeginImport, EnterImport, CheckDuplicates,
       JoinWallet, ReadRows, WriteRows, SaveFails, BeginRemove, BeginRename

\* Wallet objects stay within the bound of the guards, ...
LEMMA AccountBoundsKept ==
    ASSUME AccountsAssumption, AccountsBase, AccountBounds, AccountsNext
    PROVE  AccountBounds'
<1>1. /\ MaxWallets \in Nat \ {0} /\ Len(wallets) \in Nat /\ Len(wallets') \in Nat
      /\ removal \in Removals /\ removal.wallet \in Nat /\ current \in {0, Len(wallets)}
    BY TypesKept, WalletsFacts DEF AccountsBase, AccountTypes, Removals, AccountsAssumption
<1>2. /\ Len(wallets') = Len(wallets) \/ SaveFirstAccount \/ PublishWallet
      /\ SaveFirstAccount => Len(wallets) = 0 /\ Len(wallets') = 1 /\ opener = {}
      /\ PublishWallet => Len(wallets') = Len(wallets) + 1 /\ opener # {}
    <2>1. SaveFirstAccount => Len(wallets) = 0 /\ opener = {}
        BY DEF SaveFirstAccount, AccountsBase, PlacesFit
    <2>2. SaveFirstAccount => Len(wallets') = 1
        BY WalletMoves
    <2>3. PublishWallet => Len(wallets') = Len(wallets) + 1
        BY WalletMoves
    <2>4. PublishWallet => opener # {}
        BY DEF PublishWallet
    <2>. QED
        BY <2>1, <2>2, <2>3, <2>4, WalletsCount
<1>3. Len(wallets) <= Len(wallets')
    BY <1>1, <1>2
<1>4. Len(wallets') <= MaxWallets
    <2>1. Len(wallets) <= MaxWallets /\ (opener # {} => Len(wallets) < MaxWallets)
        BY DEF AccountBounds
    <2>2. CASE Len(wallets') = Len(wallets)
        BY <2>1, <2>2
    <2>3. CASE SaveFirstAccount
        <3>1. MaxWallets \in Nat \ {0} /\ Len(wallets') = 1
            BY <1>1, <1>2, <2>3
        <3>. QED
            BY <3>1
    <2>4. CASE PublishWallet
        BY <1>1, <1>2, <2>1, <2>4
    <2>. QED
        BY <1>2, <2>2, <2>3, <2>4
<1>5. opener' = {} \/ \E rows : opener' = {rows}
    BY Frames DEF AccountBounds, ReadWallet, PublishWallet, Crash
<1>6. opener' # {} => Len(wallets') < MaxWallets
    <2>1. CASE ReadWallet
        BY <2>1 DEF ReadWallet
    <2>2. CASE opener' = opener
        <3>1. SaveFirstAccount => opener' = {}
            BY <1>2, <2>2
        <3>2. PublishWallet => opener' = {}
            BY DEF PublishWallet
        <3>. QED
            BY <1>2, <2>2, <3>1, <3>2 DEF AccountBounds
    <2>3. CASE PublishWallet \/ Crash
        BY <2>3 DEF PublishWallet, Crash
    <2>. QED
        BY <2>1, <2>2, <2>3, Frames
<1>7. removal'.wallet <= Len(wallets')
    <2>1. CASE removal' = removal
        BY <1>1, <1>3, <2>1 DEF AccountBounds
    <2>2. CASE BeginRemoval
        BY <1>1, <1>3, <2>2, RemovalMoves
    <2>3. CASE Drain \/ DeleteRows
        BY <1>1, <1>3, <2>3, RemovalMoves DEF AccountBounds
    <2>4. CASE DeleteSigner \/ RemovalFails \/ Crash
        <3>1. removal' = NoRemoval
            BY <2>4 DEF DeleteSigner, RemovalFails, Crash
        <3>. QED
            BY <1>1, <3>1 DEF NoRemoval
    <2>. QED
        BY <2>1, <2>2, <2>3, <2>4, Frames
<1>8. ASSUME NEW c \in Calls PROVE calls'[c].wallet <= Len(wallets')
    <2>1. calls'[c].wallet \in {calls[c].wallet, current}
        BY ObjectOfCall
    <2>2. calls[c].wallet \in Nat /\ calls[c].wallet <= Len(wallets)
        BY DEF AccountsBase, AccountTypes, CallRecords, AccountBounds
    <2>. QED
        BY <1>1, <1>3, <2>1, <2>2
<1>. QED
    BY <1>4, <1>5, <1>6, <1>7, <1>8, TroublesTyped, BackendStays DEF AccountBounds

\* ... as they are before the wallet is created.
LEMMA AccountBoundsBegin ==
    ASSUME AccountsAssumption, AccountsInit
    PROVE  AccountBounds
<1>1. Len(wallets) = 0 /\ MaxWallets \in Nat
    BY EmptySeq DEF AccountsInit, AccountsAssumption
<1>2. removal.wallet = 0 /\ \A c \in Calls : calls[c].wallet = 0
    BY DEF AccountsInit, NoRemoval, IdleCall
<1>. QED
    BY <1>1, <1>2 DEF AccountsInit, AccountBounds

\* The rows of memory and of the table, the objects the calls hold and the
\* history are what the types say, within the bounds of a run.
THEOREM AccountsTyped == AccountsSpec => []AccountsTypeOK
<1>. USE AccountsAssumption
<1>1. AccountsInit => AccountBounds
    BY AccountBoundsBegin
<1>2. ASSUME AccountsInv, AccountBounds, [AccountsNext]_accountVars PROVE AccountBounds'
    <2>1. CASE AccountsNext
        BY <1>2, <2>1, AccountBoundsKept DEF AccountsInv
    <2>2. CASE UNCHANGED accountVars
        BY <1>2, <2>2 DEF accountVars, AccountBounds
    <2>. QED
        BY <1>2, <2>1, <2>2
<1>3. ASSUME AccountsInv, AccountBounds PROVE AccountsTypeOK
    <2>1. AccountTypes /\ AccountBounds
        BY <1>3 DEF AccountsInv, AccountsBase
    <2>2. \A rows \in RowSets : IsRows(rows)
        BY RowsFacts DEF IsRows, In
    <2>3. Len(wallets) \in Nat /\ \A n \in 1 .. Len(wallets) : wallets[n] \in RowSets
        BY <2>1, WalletsFacts DEF AccountTypes
    <2>4. Cardinality(opener) <= 1
        <3>1. CASE opener = {}
            BY <3>1, FS_EmptySet
        <3>2. ASSUME NEW rows, opener = {rows} PROVE Cardinality(opener) <= 1
            <4>1. Cardinality({rows}) = 1
                BY FS_Singleton
            <4>. QED
                BY <3>2, <4>1
        <3>. QED
            BY <2>1, <3>1, <3>2 DEF AccountBounds
    <2>5. /\ removal.stage \in {"none", "draining", "deleting", "rowsDeleted"}
          /\ removal.wallet \in 0 .. Len(wallets) /\ IsRows(removal.view)
          /\ removal.gone \subseteq Accounts
        BY <2>1, <2>2, <2>3 DEF AccountTypes, AccountBounds, Removals
    <2>6. /\ DOMAIN calls = Calls
          /\ \A c \in Calls : /\ calls[c].stage \in Stages
                              /\ calls[c].wallet \in 0 .. Len(wallets)
                              /\ calls[c].account \in Accounts
                              /\ IsRows(calls[c].view)
        BY <2>1, <2>2, <2>3 DEF AccountTypes, AccountBounds, CallRecords
    <2>. QED
        BY <2>1, <2>2, <2>3, <2>4, <2>5, <2>6
           DEF AccountsTypeOK, AccountTypes, AccountBounds
<1>. QED
    BY <1>1, <1>2, <1>3, AccountsInvariance, PTL DEF AccountsSpec

-----------------------------------------------------------------------------
(* The three parts at once                                                 *)

\* What is explored one part at a time is a behaviour of each of the parts:
\* what is proved of them holds of it.
THEOREM StorageComposed == MCSpec => MigrationSpec /\ AccountsSpec /\ KeyfilesSpec
<1>1. MCInit => MigrationInit /\ AccountsInit /\ KeyfilesInit
    BY DEF MCInit
<1>2. [MCNext]_<<focus, migrationVars, accountVars, keyfileVars>> =>
          /\ [MigrationNext]_migrationVars
          /\ [AccountsNext]_accountVars
          /\ [KeyfilesNext]_keyfileVars
    BY DEF MCNext
<1>. QED
    BY <1>1, <1>2, PTL DEF MCSpec, MigrationSpec, AccountsSpec, KeyfilesSpec

\* The tables, the accounts and the signers have the values of their types.
THEOREM StorageTyped == MCSpec => []StorageTypeOK
<1>1. MigrationInv => MigrationTypeOK
    BY DEF MigrationInv
<1>2. MigrationTypeOK /\ AccountsTypeOK /\ KeyfilesTypeOK => StorageTypeOK
    BY DEF StorageTypeOK
<1>. QED
    BY <1>1, <1>2, StorageComposed, MigrationInvariance, AccountsTyped, KeyfilesTyped, PTL
==============================================================================
