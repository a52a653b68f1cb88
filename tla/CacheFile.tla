------------------------------ MODULE CacheFile ------------------------------
(***************************************************************************)
(* cache/migrations.py and SchemaCache.__init__: several server processes  *)
(* of one host open the same SQLite file and bring its tables up to date.  *)
(* sqlite3 commits every DDL statement on its own until the first DML      *)
(* statement, the DELETE that precedes a stamp, begins a transaction; that *)
(* one lasts until the commit at the end of apply_migrations.              *)
(***************************************************************************)
EXTENDS Naturals, FiniteSets

CONSTANTS
    Procs, Nobody,
    Origins        \* the schema versions of the files that may be found

CurrentVersion == 3     \* CURRENT_SCHEMA_VERSION

ASSUME FileAssumption == Nobody \notin Procs /\ Origins \subseteq 0 .. CurrentVersion

Workflow == "workflow_transitions"
Fields == "custom_fields"
\* In the order of _DDL_V1; the first entry stands for trackers and projects
TableOrder == <<"trackers", Workflow, Fields, "cache_meta">>
Tables == {"trackers", Workflow, Fields, "cache_meta"}
Shapes == {"missing", "old", "new"}

VARIABLES
    version,    \* _schema_version, 0 while there is no row
    shape,      \* the tables' columns
    rows,       \* the reshaped tables that hold something learned
    writer,     \* the process inside a write transaction, or Nobody
    pc,         \* "down", "idle" (_cache is None), the next statement, or "ready"
    read,       \* the version a process has read
    origin,     \* history: the version of the file that was found
    torn        \* history: a process stopped between a DROP and its CREATE, when
                \* the file was stamped or another one was migrating it

vars == <<version, shape, rows, writer, pc, read, origin, torn>>

ShapeAt(v) ==
    [t \in Tables |-> IF v = 0 THEN "missing"
                      ELSE IF (t = Workflow /\ v = 1) \/ (t = Fields /\ v < 3) THEN "old" ELSE "new"]

Init ==
    /\ origin \in Origins /\ version = origin
    /\ shape = ShapeAt(origin)
    /\ rows \in IF origin = CurrentVersion THEN SUBSET {Workflow, Fields} ELSE {{}}
    /\ writer = Nobody
    /\ pc = [p \in Procs |-> "down"]
    /\ read = [p \in Procs |-> 0]
    /\ torn = FALSE

Transition(p, from, to) == pc[p] = from /\ pc' = [pc EXCEPT ![p] = to]

\* Before the transaction each statement needs the write lock for itself
MayWrite == writer = Nobody

Statements == {"tables", "drop_w", "create_w", "index_w", "drop_c", "create_c", "index_c",
               "stamp", "commit"}
Migrating(p) == pc[p] \in Statements
\* Between the DROP of t and its CREATE
Between(p, t) == (t = Workflow /\ pc[p] = "create_w") \/ (t = Fields /\ pc[p] = "create_c")

-----------------------------------------------------------------------------
(* The life of a process *)

Start(p) ==
    /\ Transition(p, "down", "idle")
    /\ UNCHANGED <<version, shape, rows, writer, read, origin, torn>>

\* SQLite rolls the transaction back; statements outside of it stay
Stop(p, to) ==
    /\ pc' = [pc EXCEPT ![p] = to]
    /\ writer' = IF writer = p THEN Nobody ELSE writer
    /\ torn' = (torn \/ (/\ \E t \in Tables : Between(p, t)
                         /\ \/ version = CurrentVersion
                            \/ \E q \in Procs \ {p} : Migrating(q)))
    /\ UNCHANGED <<version, shape, rows, read, origin>>

Crash(p) == pc[p] # "down" /\ Stop(p, "down")

FailsIfLocked(p) ==   \* mutant: waits for the other process to finish with the table
    /\ Migrating(p) /\ pc[p] # "commit" /\ ~MayWrite
    /\ Stop(p, "idle")

\* "database is locked" after five seconds, a CREATE TABLE that another process
\* has been quicker with, an index for a table that another process has dropped:
\* SchemaCache() raises, _cache stays None, and that call fails
Fails(p) ==
    /\ \/ Migrating(p) /\ pc[p] # "commit" /\ ~MayWrite
       \/ pc[p] = "create_c" /\ MayWrite /\ shape[Fields] # "missing"
       \/ pc[p] = "index_w" /\ MayWrite /\ shape[Workflow] = "missing"
       \/ pc[p] = "index_c" /\ MayWrite /\ shape[Fields] = "missing"
    /\ Stop(p, "idle")

-----------------------------------------------------------------------------
(* apply_migrations *)

EntryAtLeast(v) ==   \* mutant: `current <= 3`
    <<"tables", "drop_w", "drop_c", "drop_c">>[v + 1]
\* Where the chain of `if current < n` is entered
Entry(v) == <<"tables", "drop_w", "drop_c", "ready">>[v + 1]

\* A call opens the cache; the version is read outside of a transaction
Open(p) ==
    /\ Transition(p, "idle", Entry(version))
    /\ read' = [read EXCEPT ![p] = version]
    /\ UNCHANGED <<version, shape, rows, writer, origin, torn>>

\* _DDL_V1: CREATE TABLE IF NOT EXISTS, one after the other
FirstTables(p) ==
    /\ \/ /\ \A t \in Tables : shape[t] # "missing"
          /\ Transition(p, "tables", "stamp")
          /\ UNCHANGED shape
       \/ /\ MayWrite
          /\ pc[p] = "tables" /\ UNCHANGED pc
          /\ \E i \in DOMAIN TableOrder :
                /\ shape[TableOrder[i]] = "missing"
                /\ \A j \in 1 .. i - 1 : shape[TableOrder[j]] # "missing"
                /\ shape' = [shape EXCEPT ![TableOrder[i]] =
                                 IF TableOrder[i] = Fields THEN "old" ELSE "new"]
    /\ UNCHANGED <<version, rows, writer, read, origin, torn>>

\* DROP TABLE IF EXISTS, by a process that has read version 1 or 2
Drop(p, t, from, to) ==
    /\ MayWrite /\ Transition(p, from, to)
    /\ shape' = [shape EXCEPT ![t] = "missing"]
    /\ rows' = rows \ {t}
    /\ UNCHANGED <<version, writer, read, origin, torn>>

DropW(p) == Drop(p, Workflow, "drop_w", "create_w")
DropC(p) == Drop(p, Fields, "drop_c", "create_c")

\* CREATE TABLE IF NOT EXISTS workflow_transitions
CreateW(p) ==
    /\ MayWrite \/ shape[Workflow] # "missing"
    /\ Transition(p, "create_w", "index_w")
    /\ shape' = [shape EXCEPT ![Workflow] = IF @ = "missing" THEN "new" ELSE @]
    /\ UNCHANGED <<version, rows, writer, read, origin, torn>>

\* CREATE TABLE custom_fields
CreateC(p) ==
    /\ MayWrite /\ shape[Fields] = "missing"
    /\ Transition(p, "create_c", "index_c")
    /\ shape' = [shape EXCEPT ![Fields] = "new"]
    /\ UNCHANGED <<version, rows, writer, read, origin, torn>>

\* CREATE INDEX IF NOT EXISTS
Index(p) ==
    /\ MayWrite
    /\ \/ shape[Workflow] # "missing" /\ Transition(p, "index_w", "stamp")
       \/ shape[Fields] # "missing" /\ Transition(p, "index_c", "stamp")
    /\ UNCHANGED <<version, shape, rows, writer, read, origin, torn>>

\* DELETE FROM _schema_version begins the transaction
Stamp(p) ==
    /\ MayWrite /\ Transition(p, "stamp", "commit")
    /\ writer' = p
    /\ UNCHANGED <<version, shape, rows, read, origin, torn>>

\* What is left of the chain, in the transaction: it recreates these tables
Recreated(v) == {t \in {Workflow, Fields} : v = 0 \/ (v = 1 /\ t = Fields)}

CommitOneStep(p) ==   \* mutant: stamps the version after the one that was read
    /\ Transition(p, "commit", "ready")
    /\ version' = read[p] + 1
    /\ shape' = [t \in Tables |-> IF t \in Recreated(read[p]) THEN "new" ELSE shape[t]]
    /\ rows' = rows \ Recreated(read[p])
    /\ writer' = Nobody
    /\ UNCHANGED <<read, origin, torn>>

Commit(p) ==
    /\ Transition(p, "commit", "ready")
    /\ version' = CurrentVersion
    /\ shape' = [t \in Tables |-> IF t \in Recreated(read[p]) THEN "new" ELSE shape[t]]
    /\ rows' = rows \ Recreated(read[p])
    /\ writer' = Nobody
    /\ UNCHANGED <<read, origin, torn>>

Migrate(p) == FirstTables(p) \/ DropW(p) \/ DropC(p) \/ CreateW(p) \/ CreateC(p)
              \/ Index(p) \/ Stamp(p) \/ Commit(p)

-----------------------------------------------------------------------------
(* The cache in use *)

\* record_workflow_observation and put_custom_field; on a missing table they raise
Learn(p) ==
    /\ pc[p] = "ready" /\ MayWrite
    /\ \E t \in {Workflow, Fields} : shape[t] = "new" /\ rows' = rows \cup {t}
    /\ UNCHANGED <<version, shape, writer, pc, read, origin, torn>>

Attempt(p) == Open(p) \/ Migrate(p) \/ Fails(p)

Next == \E p \in Procs : Start(p) \/ Crash(p) \/ Attempt(p) \/ Learn(p)

Spec == Init /\ [][Next]_vars
\* A process that is not stopped runs on, and tool calls keep coming
FairSpec == Spec /\ \A p \in Procs : WF_vars(Attempt(p))

-----------------------------------------------------------------------------
(* Properties *)

\* Every variable keeps its type.
TypeOK ==
    /\ version \in 0 .. CurrentVersion
    /\ shape \in [Tables -> Shapes] /\ rows \subseteq {Workflow, Fields}
    /\ writer \in Procs \cup {Nobody}
    /\ pc \in [Procs -> {"down", "idle", "ready"} \cup Statements]
    /\ read \in [Procs -> 0 .. CurrentVersion]
    /\ origin \in 0 .. CurrentVersion /\ torn \in BOOLEAN

\* apply_migrations "brings the database up to CURRENT_SCHEMA_VERSION from any
\* prior version" (migrations.py:3): a file that is stamped has every table in its
\* current shape, through crashes, lock timeouts and migrations that overlap.
\* There is no stamp that outlasts a missing table, except for a process that is
\* just between a DROP and its CREATE, or that stopped there (torn).
StampedIsCurrent ==
    version = CurrentVersion /\ ~torn =>
        \A t \in Tables : shape[t] = "new" \/ \E p \in Procs : Between(p, t)

\* "a drop+recreate is safe" (migrations.py:93): what the cache has learned is only
\* dropped by a process that read the file's version before another one stamped it.
OnlyLaggardsForget ==
    [][rows \subseteq rows'
       \/ \E p \in Procs : Migrating(p) /\ read[p] < version /\ pc'[p] # pc[p]]_vars

\* A process that is left alone with the file opens it in the end, wherever others
\* stopped: a failed or half-done migration never has to be repaired by hand.
AloneOpens ==
    \A p \in Procs :
        <>[](pc[p] # "down" /\ \A q \in Procs \ {p} : pc[q] = "down") => <>[](pc[p] = "ready")

\* The same without the exceptions: "apply_migrations is idempotent: it brings the
\* database up to CURRENT_SCHEMA_VERSION from any prior version" (migrations.py:3-5), so
\* a stamped file that nobody is migrating any more has every table.
StampedIsWhole ==
    version = CurrentVersion /\ (\A p \in Procs : ~Migrating(p)) =>
        \A t \in Tables : shape[t] = "new"
=============================================================================
