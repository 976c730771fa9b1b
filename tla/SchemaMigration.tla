-------------------------- MODULE SchemaMigration --------------------------
(***************************************************************************)
(* Processes that open one state database: workers that migrate it at      *)
(* startup, workers that only verify it (OUVRIER_STATE_MIGRATE=off) and    *)
(* `ouvrier state migrate`.  Postgres migrates in one transaction under an *)
(* advisory lock; SQLite runs idempotent statements one by one, looks for  *)
(* each missing column before it adds it, and stamps the version last.     *)
(***************************************************************************)
EXTENDS FiniteSets, Naturals

CONSTANTS Processes,
          BinaryOf,   \* the schema version the binary of a process knows
          MaxCrashes

VARIABLES backend,    \* "sqlite" or "postgres"
          version,    \* PRAGMA user_version, or the last recorded migration
          columns,    \* the versions whose additions the tables have
          lock,       \* who holds the advisory lock
          proc,       \* where each process is
          crashes

schemaVars == <<backend, version, columns, lock, proc, crashes>>

NoOne == "none"

SchemaConstants ==
  BinaryOf \in [Processes -> Nat \ {0}] /\ MaxCrashes \in Nat /\ NoOne \notin Processes

Modes == {"auto", "off", "command"}

\* The process has done nothing yet; `at` is the next version it looks at.
Fresh(mode) == [mode |-> mode, pc |-> "open", at |-> 1, found |-> 0]

SchemaInit ==
  /\ backend \in {"sqlite", "postgres"}
  /\ version \in 0..1 /\ columns = 1..version
  /\ lock = NoOne
  /\ proc \in [Processes -> {Fresh(m) : m \in Modes}]
  /\ crashes = 0

Goes(p, pc) == proc' = [proc EXCEPT ![p].pc = pc]

\* The database is opened and, unless the mode is "off", migrated.
Open(p) ==
  /\ proc[p].pc = "open"
  /\ proc' = [proc EXCEPT ![p].pc = IF proc[p].mode = "off" THEN "verify" ELSE "migrate",
                          ![p].found = version]
  /\ UNCHANGED <<backend, version, columns, lock, crashes>>

\* A mutant: a database that is behind is served anyway.
VerifiesAnyway(p) == TRUE

\* SQLite wants the very version of the binary; Postgres every migration of it.
Verifies(p) ==
  IF backend = "sqlite" THEN version = BinaryOf[p] ELSE 1..BinaryOf[p] \subseteq columns

VerifySchema(p) ==
  /\ proc[p].pc = "verify"
  /\ Goes(p, IF Verifies(p) THEN "serving" ELSE "refused")
  /\ UNCHANGED <<backend, version, columns, lock, crashes>>

\* What a migrated database is for: a worker serves, the command reports.
Migrated(p) == IF proc[p].mode = "command" THEN "done" ELSE "serving"

\* CREATE TABLE IF NOT EXISTS, with the columns of every version in a new table.
CreateTables(p) ==
  /\ proc[p].pc = "migrate" /\ backend = "sqlite"
  /\ columns' = IF columns = {} THEN 1..BinaryOf[p] ELSE columns
  /\ Goes(p, "look")
  /\ UNCHANGED <<backend, version, lock, crashes>>

\* ensureColumn reads the columns of the table.
EnsureColumn(p) ==
  /\ proc[p].pc = "look" /\ proc[p].at <= BinaryOf[p]
  /\ proc' = [proc EXCEPT ![p].pc = IF proc[p].at \in columns THEN "look" ELSE "alter",
                          ![p].at = IF proc[p].at \in columns THEN @ + 1 ELSE @]
  /\ UNCHANGED <<backend, version, columns, lock, crashes>>

\* ALTER TABLE ADD COLUMN fails on a column another process added meanwhile.
AlterTable(p) ==
  /\ proc[p].pc = "alter"
  /\ columns' = columns \cup {proc[p].at}
  /\ Goes(p, IF proc[p].at \in columns THEN "failed" ELSE "look")
  /\ UNCHANGED <<backend, version, lock, crashes>>

\* A mutant: the version is stamped before the columns are there.
SetVersionFirst(p) ==
  /\ proc[p].pc = "look"
  /\ version' = BinaryOf[p]
  /\ Goes(p, IF proc[p].at > BinaryOf[p] THEN Migrated(p) ELSE "look")
  /\ UNCHANGED <<backend, columns, lock, crashes>>

\* PRAGMA user_version, the last statement.
SetVersion(p) ==
  /\ proc[p].pc = "look" /\ proc[p].at > BinaryOf[p]
  /\ version' = BinaryOf[p]
  /\ Goes(p, Migrated(p))
  /\ UNCHANGED <<backend, columns, lock, crashes>>

\* A mutant: the advisory lock is not taken.
LockFreeAlways == TRUE

LockFree == lock = NoOne

\* The transaction takes the lock and reads the applied migrations.
BeginMigration(p) ==
  /\ proc[p].pc = "migrate" /\ backend = "postgres" /\ LockFree
  /\ lock' = p
  /\ proc' = [proc EXCEPT ![p].pc = "apply", ![p].found = version]
  /\ UNCHANGED <<backend, version, columns, crashes>>

\* The missing migrations are applied, recorded and committed together.  A
\* migration another transaction committed since cannot be applied again.
CommitMigration(p) ==
  /\ proc[p].pc = "apply"
  /\ lock' = NoOne
  /\ LET missing == (proc[p].found + 1)..BinaryOf[p] IN
       IF missing \cap columns # {}
         THEN Goes(p, "failed") /\ UNCHANGED <<version, columns>>
         ELSE /\ columns' = columns \cup missing
              /\ version' = IF missing = {} THEN version ELSE BinaryOf[p]
              /\ Goes(p, Migrated(p))
  /\ UNCHANGED <<backend, crashes>>

\* The process dies in its migration, or refused or failed, and is started again;
\* an open transaction is rolled back.
Restart(p) ==
  /\ proc[p].pc \in {"look", "alter", "apply", "failed", "refused"} /\ crashes < MaxCrashes
  /\ crashes' = crashes + 1
  /\ lock' = IF lock = p THEN NoOne ELSE lock
  /\ proc' = [proc EXCEPT ![p] = Fresh(proc[p].mode)]
  /\ UNCHANGED <<backend, version, columns>>

SchemaNext ==
  \E p \in Processes :
    \/ Open(p) \/ VerifySchema(p) \/ CreateTables(p) \/ EnsureColumn(p) \/ AlterTable(p)
    \/ SetVersion(p) \/ BeginMigration(p) \/ CommitMigration(p) \/ Restart(p)

SchemaFairness ==
  \A p \in Processes : WF_schemaVars(SchemaNext /\ proc'[p] # proc[p] /\ crashes' = crashes)
SchemaSpec == SchemaInit /\ [][SchemaNext]_schemaVars /\ SchemaFairness

TypeOK ==
  /\ version \in Nat /\ columns \subseteq Nat /\ lock \in Processes \cup {NoOne}
  /\ \A p \in Processes : proc[p].mode \in Modes /\ proc[p].at \in 1..BinaryOf[p] + 1

\* A worker that serves finds every column its binary writes, however many
\* processes opened the database at once and wherever one of them died.
ServesFullSchema == \A p \in Processes : proc[p].pc = "serving" => 1..BinaryOf[p] \subseteq columns

\* The recorded version is never ahead of the tables: it is stamped last.
VersionHonest == 1..version \subseteq columns

\* Only a race fails a migration: in SQLite, two processes that miss the same
\* column; under the lock of Postgres, never.
LockPreventsRaces == \A p \in Processes : proc[p].pc = "failed" => backend = "sqlite"

\* Every process ends up serving, done, refused or failed.
StartupEnds == <>[](\A p \in Processes : proc[p].pc \in {"serving", "done", "refused", "failed"})

=============================================================================
