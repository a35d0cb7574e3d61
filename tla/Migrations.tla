------------------------------ MODULE Migrations ------------------------------
(***************************************************************************)
(* Schema migration at start-up (db/migration_runner.py).  The scheduler   *)
(* and the API each run it when they start, possibly from different        *)
(* releases.  One transaction inspects and advances the schema, with a     *)
(* savepoint per migration; a migration that fails is undone, and what     *)
(* came before it is committed.  A migration that rebuilds a table needs   *)
(* foreign-key enforcement switched off, which can only be done before the *)
(* transaction begins: it is decided from what was applied then.           *)
(***************************************************************************)
EXTENDS Integers

CONSTANTS Processes,
          Newest,       \* the newest migration each process has on disk
          Rebuilds,     \* migrations with REQUIRES_FOREIGN_KEYS_OFF
          Legacy,       \* the tables of v0.3.0 are there, without their record
          MaxStarts     \* bound: starts of a process

ASSUME MigrationAssumption ==
    /\ Newest \in [Processes -> Nat \ {0}]
    /\ Legacy \in BOOLEAN

VARIABLES schema,       \* committed: [applied, orphans, broken]
          writer,       \* who holds the write transaction
          process       \* [at, fkOff, draft, starts] of each process

migrationVars == <<schema, writer, process>>

NoWriter == "nobody"
ASSUME NoWriterAssumption == NoWriter \notin Processes

OnDisk(p) == 1 .. Newest[p]
Baseline == 1

MigrationInit ==
    /\ schema = [applied |-> {}, orphans |-> FALSE, broken |-> FALSE]
    /\ writer = NoWriter
    /\ process = [p \in Processes |-> [at |-> "stopped", fkOff |-> FALSE,
                                       draft |-> schema, starts |-> 0]]

Ends(p, how) == /\ process' = [process EXCEPT ![p].at = how, ![p].fkOff = FALSE, ![p].draft = schema']
                /\ writer' = IF writer = p THEN NoWriter ELSE writer
RollBack(p) == UNCHANGED schema /\ Ends(p, "failed")
Commit(p, how) == schema' = process[p].draft /\ Ends(p, how)

----------------------------------------------------------------------------
(* A look at the applied migrations, outside the transaction.              *)
Preflight(p) ==
    /\ process[p].at \in {"stopped", "failed", "migrated"} /\ process[p].starts < MaxStarts
    /\ process' = [process EXCEPT ![p].at = "waiting", ![p].starts = @ + 1,
                     ![p].fkOff = (OnDisk(p) \ schema.applied) \cap Rebuilds # {}]
    /\ UNCHANGED <<schema, writer>>

(* What is found is checked against the files on disk; a database of the   *)
(* baseline release is recorded as being there.                            *)
Found == IF schema.applied = {} /\ Legacy
         THEN [schema EXCEPT !.applied = {Baseline}] ELSE schema

KnownOnDisk(p) == Found.applied \subseteq OnDisk(p)

BeginMigration(p) ==
    /\ process[p].at = "waiting" /\ writer = NoWriter
    /\ IF KnownOnDisk(p)
       THEN /\ process' = [process EXCEPT ![p].at = "migrating", ![p].draft = Found]
            /\ writer' = p
            /\ UNCHANGED schema
       ELSE RollBack(p)

(* The write lock is not had within the timeout.                           *)
BusyTimeout(p) ==
    /\ process[p].at = "waiting" /\ writer # NoWriter
    /\ RollBack(p)

Waiting(p) == OnDisk(p) \ process[p].draft.applied
IsNext(p, v) == v \in Waiting(p) /\ \A w \in Waiting(p) : v <= w

(* A rebuild with enforcement off may leave rows that refer to nothing;    *)
(* with enforcement on, dropping the old table takes the rows that refer   *)
(* to it along.                                                            *)
Migrated(p, v, orphaned) ==
    [applied |-> process[p].draft.applied \cup {v},
     orphans |-> process[p].draft.orphans \/ (orphaned /\ v \in Rebuilds /\ process[p].fkOff),
     broken  |-> process[p].draft.broken \/ (v \in Rebuilds /\ ~process[p].fkOff)]

MigrateOne(p) ==
    /\ process[p].at = "migrating"
    /\ \E v \in Waiting(p), orphaned \in BOOLEAN :
          /\ IsNext(p, v)
          /\ process' = [process EXCEPT ![p].draft = Migrated(p, v, orphaned)]
    /\ UNCHANGED <<schema, writer>>

Violations(p) == process[p].fkOff /\ process[p].draft.orphans

(* Mutant of MustDiscard: only the successful end checks the references.   *)
DiscardNever(p) == FALSE

(* The check of a run that fails after earlier migrations succeeded.       *)
MustDiscard(p) == Violations(p)

MigrationFails(p) ==
    /\ process[p].at = "migrating" /\ Waiting(p) # {}
    /\ IF MustDiscard(p) THEN RollBack(p) ELSE Commit(p, "failed")

EndMigration(p) ==
    /\ process[p].at = "migrating" /\ Waiting(p) = {}
    /\ IF Violations(p) THEN RollBack(p) ELSE Commit(p, "migrated")

(* The process dies: an open transaction is rolled back.                   *)
ProcessDies(p) ==
    /\ process[p].at \in {"waiting", "migrating"}
    /\ UNCHANGED schema /\ Ends(p, "stopped")

MigrationNext ==
    \E p \in Processes :
       \/ Preflight(p) \/ BeginMigration(p) \/ BusyTimeout(p) \/ MigrateOne(p)
       \/ MigrationFails(p) \/ EndMigration(p) \/ ProcessDies(p)

MigrationSpec == MigrationInit /\ [][MigrationNext]_migrationVars

----------------------------------------------------------------------------
(* What is committed is a database without dangling references, no rebuild *)
(* of which ran with enforcement on, migrated up to some version without   *)
(* a gap, whoever failed or died where, however stale the decision to      *)
(* switch enforcement off was.                                             *)
SchemaSound ==
    /\ ~schema.orphans /\ ~schema.broken
    /\ \A v \in schema.applied : 1 .. v \subseteq schema.applied
=============================================================================
