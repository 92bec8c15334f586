--------------------------- MODULE StorageMigration ---------------------------
(***************************************************************************)
(* Starting the SDK on stored data: the schema record is read before any   *)
(* table is touched, missing tables are created, and pending migrations    *)
(* run one after the other, each with a backup in memory and a rollback.   *)
(* Every await may fail, the process may end at any of them, and the next  *)
(* start may be one of another build of the SDK, older or newer.           *)
(*                                                                         *)
(* The migrations themselves are the developer's: migration v brings the   *)
(* tables of Layout[v - 1] to Layout[v] one at a time, and may fail        *)
(* between two of them.  A resumable one copes with a table in any shape.  *)
(***************************************************************************)
EXTENDS Integers

CONSTANTS
    Tables,
    MaxVersion,   \* bound: the newest schema version there is
    Layout,       \* Layout[v]: the tables of schema version v
    Builds,       \* builds of the SDK
    BuildVersion, \* BuildVersion[b]: its CURRENT_STORAGE_VERSION
    Declared,     \* Declared[b]: the versions its migrations declare
    Resumable,    \* versions whose migration is declared resumable
    Migratable,   \* Migratable[b]: the tables its backups copy
    Nothing       \* no build, no table

Versions == 1..MaxVersion   \* BASELINE_STORAGE_VERSION is 1

\* The tables migration v works on.
Touched(v) == Layout[v - 1] \cup Layout[v]

\* Whoever adds a migration has its tables among MIGRATABLE_TABLES, which
\* nothing in the code checks.
ASSUME MigrationAssumption ==
    /\ MaxVersion \in Nat \ {0}
    /\ Layout \in [Versions -> SUBSET Tables]
    /\ BuildVersion \in [Builds -> Versions]
    /\ Declared \in [Builds -> SUBSET Nat]
    /\ Resumable \subseteq Nat
    /\ Migratable \in [Builds -> SUBSET Tables]
    /\ \A b \in Builds : \A v \in Declared[b] \cap Versions :
          v > 1 => Touched(v) \subseteq Migratable[b]
    /\ Nothing \notin Tables \cup Builds

Absent == -1   \* the table does not exist
Empty == 0     \* the table exists and has no rows

VARIABLES
    shape,    \* shape[t]: the version the rows of table t follow, Absent, Empty
    schema,   \* the schema record; pending 0 stands for null
    upgrade,  \* where the start of the SDK is
    build,    \* the build that is starting or in use
    backup,   \* the shapes when runMigrationStep took its backup: the names of
              \* all tables, the records of those in Migratable[build]
    todo,     \* tables the current loop has still to visit
    clearing, \* the table restoreTable has cleared and not refilled
    failures, \* the rollback has failed for some table
    verdict,  \* how the last start ended, as its caller was told
    resumed,  \* history: the backup was taken of what an interrupted run left
    tainted   \* history: a rollback was cut short by a crash, failed without
              \* that being recorded, or began from such a backup

history == <<resumed, tainted>>
migrationVars ==
    <<shape, schema, upgrade, build, backup, todo, clearing, failures, verdict, history>>

Reverting == {"dropping", "restoring"}
UpgradePhases ==
    {"idle", "opening", "running", "backedUp", "migrating", "ready"} \cup Reverting
Verdicts == {"none", "ready", "refused", "failed", "intact", "damaged"}

MigrationTypeOK ==
    /\ shape \in [Tables -> Versions \cup {Absent, Empty}]
    /\ schema \in [version : Versions, pending : Nat, failed : BOOLEAN]
    /\ upgrade \in UpgradePhases
    /\ build \in Builds \cup {Nothing}
    /\ backup \in [Tables -> Versions \cup {Absent, Empty}]
    /\ todo \in SUBSET Tables
    /\ clearing \in Tables \cup {Nothing}
    /\ failures \in BOOLEAN
    /\ verdict \in Verdicts
    /\ resumed \in BOOLEAN
    /\ tainted \in BOOLEAN
    /\ upgrade = "idle" => build = Nothing /\ ~failures
    /\ upgrade # "idle" => build \in Builds
    /\ clearing # Nothing => upgrade = "restoring"

\* Data of the baseline version, with no schema record or one that says so.
MigrationInit ==
    /\ shape = [t \in Tables |-> IF t \in Layout[1] THEN 1 ELSE Absent]
    /\ schema = [version |-> 1, pending |-> 0, failed |-> FALSE]
    /\ upgrade = "idle"
    /\ build = Nothing
    /\ backup = shape
    /\ todo = {}
    /\ clearing = Nothing
    /\ failures = FALSE
    /\ verdict = "none"
    /\ resumed = FALSE
    /\ tainted = FALSE

Present(t) == shape[t] # Absent
Current == BuildVersion[build]

-----------------------------------------------------------------------------
(* Starting *)

ChainValid(b) == Declared[b] \subseteq 2..BuildVersion[b]
ChainComplete(b) == schema.version + 1 .. BuildVersion[b] \subseteq Declared[b]

\* Mutant: only the mark of the interrupted migration is looked at.
InterruptionIgnoringFailure(b) ==
    schema.pending = 0 \/ schema.pending \in Declared[b] \cap Resumable

InterruptionResumable(b) ==
    \/ schema.pending = 0
    \/ ~schema.failed /\ schema.pending \in Declared[b] \cap Resumable

Compatible(b) ==
    /\ schema.version <= BuildVersion[b]
    /\ ChainValid(b)
    /\ ChainComplete(b)
    /\ InterruptionResumable(b)

\* Mutant: the failures of a rollback are kept for the next one.
EndKeepingFailures(how) ==
    /\ upgrade' = IF how = "ready" THEN "ready" ELSE "idle"
    /\ build' = IF how = "ready" THEN build ELSE Nothing
    /\ backup' = shape
    /\ todo' = {}
    /\ clearing' = Nothing
    /\ UNCHANGED failures
    /\ verdict' = how

\* The start is over; nothing of it stays in memory.
End(how) ==
    /\ upgrade' = IF how = "ready" THEN "ready" ELSE "idle"
    /\ build' = IF how = "ready" THEN build ELSE Nothing
    /\ backup' = shape
    /\ todo' = {}
    /\ clearing' = Nothing
    /\ failures' = FALSE
    /\ verdict' = how

Start(b) ==
    /\ upgrade = "idle"
    /\ IF Compatible(b)
       THEN /\ upgrade' = "opening"
            /\ build' = b
            /\ todo' = {t \in Layout[BuildVersion[b]] : ~Present(t)}
            /\ verdict' = "none"
            /\ UNCHANGED <<shape, schema, backup, clearing, failures, history>>
       ELSE /\ End("refused")
            /\ UNCHANGED <<shape, schema, history>>

\* A repository initializes itself and creates its table.
OpenTable(t) ==
    /\ upgrade = "opening"
    /\ t \in todo
    /\ shape' = [shape EXCEPT ![t] = Empty]
    /\ todo' = todo \ {t}
    /\ UNCHANGED <<schema, upgrade, build, backup, clearing, failures, verdict, history>>

TablesOpened ==
    /\ upgrade = "opening"
    /\ todo = {}
    /\ upgrade' = "running"
    /\ UNCHANGED <<shape, schema, build, backup, todo, clearing, failures, verdict, history>>

-----------------------------------------------------------------------------
(* Migrating *)

\* The tables there is a copy of.
Copied == {t \in Migratable[build] : backup[t] # Absent}

Pending == {v \in Declared[build] : v > schema.version}
NextMigration == CHOOSE v \in Pending : \A u \in Pending : v <= u

BackUp ==
    /\ upgrade = "running"
    /\ Pending # {}
    /\ backup' = shape
    /\ upgrade' = "backedUp"
    /\ resumed' = (schema.pending # 0)
    /\ UNCHANGED <<shape, schema, build, todo, clearing, failures, verdict, tainted>>

MarkPendingMigration ==
    /\ upgrade = "backedUp"
    /\ schema' = [schema EXCEPT !.pending = NextMigration]
    /\ upgrade' = "migrating"
    /\ todo' = Touched(NextMigration)
    /\ UNCHANGED <<shape, build, backup, clearing, failures, verdict, history>>

MigrateTable(t) ==
    /\ upgrade = "migrating"
    /\ t \in todo
    /\ todo' = todo \ {t}
    /\ shape' = [shape EXCEPT ![t] =
                    IF t \notin Layout[NextMigration] THEN Absent
                    ELSE IF @ \in {Absent, Empty} THEN Empty
                    ELSE NextMigration]
    /\ UNCHANGED <<schema, upgrade, build, backup, clearing, failures, verdict, history>>

SaveVersion ==
    /\ upgrade = "migrating"
    /\ todo = {}
    /\ schema' = [schema EXCEPT !.version = NextMigration, !.pending = 0]
    /\ upgrade' = "running"
    /\ UNCHANGED <<shape, build, backup, todo, clearing, failures, verdict, history>>

\* run stamps the version even when no migration ran.
StampVersion ==
    /\ upgrade = "running"
    /\ Pending = {}
    /\ schema' = [schema EXCEPT !.version = Current, !.pending = 0]
    /\ End("ready")
    /\ UNCHANGED <<shape, history>>

\* Storage fails before a step has changed anything: within a migration, its
\* backup and its mark included, that is told as a migration that failed.
StartFails ==
    /\ upgrade \in {"opening", "running", "backedUp"}
    /\ End(IF upgrade = "backedUp" \/ (upgrade = "running" /\ Pending # {})
           THEN "intact" ELSE "failed")
    /\ UNCHANGED <<shape, schema, history>>

-----------------------------------------------------------------------------
(* Rolling back *)

\* The migration, or saving its version, fails.  If the names of the tables
\* cannot be read, the tables it created stay and the rollback has failed.
MigrationFails ==
    /\ upgrade = "migrating"
    /\ \/ /\ upgrade' = "dropping"
          /\ todo' = {t \in Tables : Present(t) /\ backup[t] = Absent}
          /\ UNCHANGED failures
       \/ /\ upgrade' = "restoring"
          /\ todo' = Copied
          /\ failures' = TRUE
    /\ tainted' = (tainted \/ resumed)
    /\ UNCHANGED <<shape, schema, build, backup, clearing, verdict, resumed>>

DropCreatedTable(t) ==
    /\ upgrade = "dropping"
    /\ t \in todo
    /\ todo' = todo \ {t}
    /\ \/ shape' = [shape EXCEPT ![t] = Absent] /\ UNCHANGED failures
       \/ failures' = TRUE /\ UNCHANGED shape
    /\ UNCHANGED <<schema, upgrade, build, backup, clearing, verdict, history>>

CreatedTablesDropped ==
    /\ upgrade = "dropping"
    /\ todo = {}
    /\ upgrade' = "restoring"
    /\ todo' = Copied
    /\ UNCHANGED <<shape, schema, build, backup, clearing, failures, verdict, history>>

\* restoreTable: a missing table is created, and the table is cleared ...
ClearTable(t) ==
    /\ upgrade = "restoring"
    /\ clearing = Nothing
    /\ t \in todo
    /\ shape' = [shape EXCEPT ![t] = Empty]
    /\ clearing' = t
    /\ UNCHANGED <<schema, upgrade, build, backup, todo, failures, verdict, history>>

\* ... and its records are inserted again.
RefillTable ==
    /\ clearing # Nothing
    /\ shape' = [shape EXCEPT ![clearing] = backup[clearing]]
    /\ todo' = todo \ {clearing}
    /\ clearing' = Nothing
    /\ UNCHANGED <<schema, upgrade, build, backup, failures, verdict, history>>

\* Mutant: a failure to restore one table is not kept.
RestoreFailsUnnoticed(t) ==
    /\ upgrade = "restoring"
    /\ t \in todo
    /\ clearing \in {t, Nothing}
    /\ todo' = todo \ {t}
    /\ clearing' = Nothing
    /\ UNCHANGED <<shape, schema, upgrade, build, backup, failures, verdict, history>>

RestoreFails(t) ==
    /\ upgrade = "restoring"
    /\ t \in todo
    /\ clearing \in {t, Nothing}
    /\ failures' = TRUE
    /\ todo' = todo \ {t}
    /\ clearing' = Nothing
    /\ UNCHANGED <<shape, schema, upgrade, build, backup, verdict, history>>

RolledBack == upgrade = "restoring" /\ todo = {} /\ clearing = Nothing

\* Clearing the mark may fail as well; the caller hears the same.
ClearPendingMigration ==
    /\ RolledBack
    /\ ~failures
    /\ schema' \in {[schema EXCEPT !.pending = 0], schema}
    /\ End("intact")
    /\ UNCHANGED <<shape, history>>

MarkRollbackFailure ==
    /\ RolledBack
    /\ failures
    /\ schema' = [schema EXCEPT !.failed = TRUE]
    /\ End("damaged")
    /\ UNCHANGED <<shape, history>>

\* The mark cannot be written: applyMigration wraps the error as it does the
\* error of a migration that was rolled back.
MarkingFailureFails ==
    /\ RolledBack
    /\ failures
    /\ tainted' = TRUE
    /\ End("intact")
    /\ UNCHANGED <<shape, schema, resumed>>

-----------------------------------------------------------------------------
\* The process ends; while the client is in use, this ends its session.
Stop ==
    /\ upgrade # "idle"
    /\ tainted' = (tainted \/ upgrade \in Reverting)
    /\ End("none")
    /\ UNCHANGED <<shape, schema, resumed>>

MigrationNext ==
    \/ \E b \in Builds : Start(b)
    \/ TablesOpened \/ BackUp \/ MarkPendingMigration \/ SaveVersion
    \/ StampVersion \/ StartFails \/ MigrationFails \/ CreatedTablesDropped
    \/ RefillTable \/ ClearPendingMigration \/ MarkRollbackFailure
    \/ MarkingFailureFails \/ Stop
    \/ \E t \in Tables :
          OpenTable(t) \/ MigrateTable(t) \/ DropCreatedTable(t) \/ ClearTable(t)
             \/ RestoreFails(t)

MigrationSpec == MigrationInit /\ [][MigrationNext]_migrationVars

-----------------------------------------------------------------------------
(* Properties *)

\* Rows a user has had since the baseline and no migration has dropped.
Keeping == {t \in Tables : \A v \in 1..schema.version : t \in Layout[v]}
RowsLost == {t \in Keeping : shape[t] \in {Absent, Empty}}

\* Every table follows the version, and those it does not have hold nothing.
Follows(v) ==
    \A t \in Tables :
        shape[t] \in (IF t \in Layout[v] THEN {v, Empty} ELSE {Absent, Empty})

\* The schema record is right whenever it marks no migration: what the build
\* of that version finds is its own layout.  This is what makes it sound to
\* decide from the record alone, before a table is opened, and what the
\* rollback promises to "the previous SDK build".  A rollback that restores what
\* an interrupted run had left breaks it (see IntactMeansIntact).
VersionTellsData == schema.pending = 0 /\ ~tainted => Follows(schema.version)

\* However starts, failures, crashes, upgrades and downgrades of the SDK
\* follow each other, a client that starts has all its rows, unless a rollback
\* went wrong as tainted says.
RowsSurvive == upgrade = "ready" /\ ~tainted => RowsLost = {}

\* A rollback that failed and said so is final: no build touches the tables or
\* the record again, and no client starts.
DamageIsSticky ==
    [][schema.failed => UNCHANGED <<shape, schema>> /\ upgrade' # "ready"]_migrationVars

\* StorageMigrationFailedError and its isStorageIntact: the caller is told that
\* the migration was rolled back only when it was (docs/DOMAINS.md:1642).
IntactMeansIntact == verdict = "intact" => Follows(schema.version) /\ RowsLost = {}
===============================================================================
