----------------------------- MODULE StoreOpen -----------------------------
(***************************************************************************)
(* The constructor of SqliteStore (daemon/src/store/sqlite_store.cpp):     *)
(* open the database, execute schema.sql, set user_version and prepare the *)
(* two insert statements. Any failure is an exception, which main does not *)
(* catch: the daemon ends. Several daemons may be started on one file, and *)
(* a daemon may be killed at any point.                                    *)
(*                                                                         *)
(* No BEGIN surrounds schema.sql, so sqlite3_exec commits each statement   *)
(* on its own, and without a busy timeout any statement may be refused     *)
(* while another connection writes. The schema is a sequence of statements *)
(* that create one object each and fail if it exists (the last one inserts *)
(* a row with a fixed primary key, which fails in the same way).           *)
(*                                                                         *)
(* Of the two statements that are prepared the model keeps what SQLite     *)
(* looks at to compile them: the table, the columns they name, and whether *)
(* their parentheses match.                                                *)
(***************************************************************************)
EXTENDS Naturals, FiniteSets

CONSTANTS
  Daemons,  \* runs of the daemon on this database, one after another or at the
            \* same time
  Objects   \* number of statements of schema.sql that create something

StoreAssumption == Objects \in Nat \ {0}

VARIABLES
  pc,         \* pc[d] in Stages: how far the constructor has come
  next,       \* next[d]: the statement of the schema to execute
  exists,     \* the objects of the schema that the database has
  version,    \* PRAGMA user_version
  \* history:
  late,       \* daemons that found a database with a part of the schema
  refused     \* daemons that were refused a statement (Refused)

vars == <<pc, next, exists, version, late, refused>>

ExpectedSchemaVersion == 1

\* "failed" by an exception, or "killed" from outside.
Stages == {"new", "schema", "migrate", "version", "prepare", "open", "failed",
           "killed"}

Init ==
  /\ pc = [d \in Daemons |-> "new"]
  /\ next = [d \in Daemons |-> 1]
  /\ exists = {} /\ version = 0
  /\ late = {} /\ refused = {}

Goes(d, to) == pc' = [pc EXCEPT ![d] = to]

\* The columns that schema.sql gives the two tables that are written to.
SchemaColumns ==
  [notes |-> {"note_id", "timestamp", "window_id", "raw_text", "summary",
              "enriched_summary", "metadata", "created_at"},
   windows |-> {"window_id", "title", "app_name", "pid", "first_seen",
                "last_seen"}]

\* insertNoteStmt_ and insertWindowStmt_; the second ends in strftime(...)).
PreparedStatements ==
  {[table |-> "notes", balanced |-> TRUE,
    columns |-> {"timestamp", "window_id", "text", "enriched_text", "metadata"}],
   [table |-> "windows", balanced |-> FALSE,
    columns |-> {"id", "title", "app_name", "pid", "last_seen"}]}

\* What sqlite3_prepare_v2 accepts.
Compiles(s) == s.balanced /\ s.columns \subseteq SchemaColumns[s.table]

-----------------------------------------------------------------------------

\* sqlite3_open_v2 and the three PRAGMAs.
Open(d) ==
  /\ pc[d] = "new"
  /\ Goes(d, "schema")
  /\ late' = IF exists = {} THEN late ELSE late \cup {d}
  /\ UNCHANGED <<next, exists, version, refused>>

\* exec(schema): sqlite3_exec executes the statements one by one ...
Creates(d) ==
  /\ pc[d] = "schema"
  /\ next[d] \notin exists
  /\ exists' = exists \cup {next[d]}
  /\ next' = [next EXCEPT ![d] = @ + 1]
  /\ Goes(d, IF next[d] = Objects THEN "migrate" ELSE "schema")
  /\ UNCHANGED <<version, late, refused>>

\* ... and stops at the first that fails, leaving what was done.
SkipsExisting(d) ==                                              \* mutant
  /\ pc[d] = "schema"
  /\ next[d] \in exists
  /\ next' = [next EXCEPT ![d] = @ + 1]
  /\ Goes(d, IF next[d] = Objects THEN "migrate" ELSE "schema")
  /\ UNCHANGED <<exists, version, late, refused>>
IgnoresExisting(d) ==                                            \* mutant
  /\ pc[d] = "schema"
  /\ next[d] \in exists
  /\ Goes(d, "migrate")
  /\ UNCHANGED <<next, exists, version, late, refused>>
FindsExisting(d) ==
  /\ pc[d] = "schema"
  /\ next[d] \in exists
  /\ Goes(d, "failed")
  /\ UNCHANGED <<next, exists, version, late, refused>>

\* applyMigrations: any version but the expected one is overwritten. A step of
\* the PRAGMA that yields no row is not an error: the version counts as 0.
ReadsVersion(d) ==
  /\ pc[d] = "migrate"
  /\ \E read \in {version, 0} :
       Goes(d, IF read = ExpectedSchemaVersion THEN "prepare" ELSE "version")
  /\ UNCHANGED <<next, exists, version, late, refused>>

SetsVersion(d) ==
  /\ pc[d] = "version"
  /\ version' = ExpectedSchemaVersion
  /\ Goes(d, "prepare")
  /\ UNCHANGED <<next, exists, late, refused>>

\* prepareStatements: a statement that does not compile is an exception.
Prepares(d) ==
  /\ pc[d] = "prepare"
  /\ Goes(d, IF \A s \in PreparedStatements : Compiles(s) THEN "open" ELSE "failed")
  /\ UNCHANGED <<next, exists, version, late, refused>>

\* A lock, a full disk, no memory: the database is not opened, or a statement is
\* not executed or prepared; openDatabase, exec, applyMigrations (the PRAGMA) or
\* prepareStatements throws.
Refused(d) ==
  /\ pc[d] \in {"new", "schema", "migrate", "version", "prepare"}
  /\ Goes(d, "failed")
  /\ refused' = refused \cup {d}
  /\ UNCHANGED <<next, exists, version, late>>

Killed(d) ==
  /\ pc[d] \notin {"new", "failed", "killed"}
  /\ Goes(d, "killed")
  /\ UNCHANGED <<next, exists, version, late, refused>>

\* A step of the constructor.
Constructs(d) ==
  \/ Open(d) \/ Creates(d) \/ FindsExisting(d) \/ ReadsVersion(d)
  \/ SetsVersion(d) \/ Prepares(d) \/ Refused(d)

Next == \E d \in Daemons : Constructs(d) \/ Killed(d)

Spec == Init /\ [][Next]_vars

-----------------------------------------------------------------------------
(* Properties.                                                             *)

\* Types of the variables; a daemon creates the objects in order, and what it
\* has created is there.
TypeOK ==
  /\ pc \in [Daemons -> Stages]
  /\ next \in [Daemons -> 1..(Objects + 1)]
  /\ exists \subseteq 1..Objects
  /\ \A d \in Daemons : 1..(next[d] - 1) \subseteq exists
  /\ version \in {0, ExpectedSchemaVersion}
  /\ late \subseteq Daemons /\ refused \subseteq Daemons

\* user_version is set only in a database that has the whole schema, whichever
\* daemons were killed or refused a statement before.
VersionMeansComplete == version = ExpectedSchemaVersion => exists = 1..Objects

\* CREATE TABLE works as a lock: at most one of the daemons that are ever
\* started on a database executes the schema, and no other one gets past it.
OneCreator ==
  \A d, e \in Daemons : next[d] > 1 /\ next[e] > 1 => d = e

\* A daemon that finds a part of the schema never gets past it: a database
\* left by a daemon that was killed half-way is never completed.
NeverCompleted ==
  \A d \in late : pc[d] \in {"schema", "failed", "killed"} /\ next[d] = 1

\* What the documents say of the store: it is a "database wrapper using prepared
\* statements". A daemon that has executed the whole schema, and was refused
\* nothing, has its statements prepared: its constructor does not throw.
StatementsPrepared ==
  \A d \in Daemons : pc[d] = "failed" /\ next[d] > Objects => d \in refused
=============================================================================
