----------------------------- MODULE SchemaCache -----------------------------
(***************************************************************************)
(* cache/schema_db.py and server.py:_get_cache: the SQLite file that every *)
(* server process of a host shares, and how a process comes to use it.     *)
(* A table is one row deep: what matters is whose credentials fetched it   *)
(* and whether its time to live is over.                                   *)
(***************************************************************************)
EXTENDS Naturals

CONSTANTS
    Procs, Identities,
    Tables,         \* the tables the run is about
    NoRow, NoFingerprint, Nobody, NoTable,
    Legacy,         \* the file may come from a version without this fingerprint
    Reuse           \* Redmine may reuse a project identifier for a new project

AllTables == {"trackers", "projects", "workflow_transitions", "custom_fields", "cache_meta"}

ASSUME CacheAssumption ==
    /\ Tables \subseteq AllTables
    /\ {Legacy, Reuse} \subseteq BOOLEAN
    /\ NoFingerprint \notin Identities /\ Nobody \notin Procs /\ NoTable \notin AllTables

Row == [by : Identities, age : {"fresh", "old"}]

ASSUME NoRowAssumption == NoRow \notin Row

VARIABLES
    rows,         \* the file's tables
    fingerprint,  \* auth_fingerprint_pbkdf2 in cache_meta
    writer,       \* the process inside a write transaction, or Nobody
    pc,           \* "down", "cold", "check", "insert", "wipe", "wiping", "ready"
    identity,     \* the credentials a process runs with
    fetching,     \* the table a tool call is fetching, or NoTable
    served,       \* history: the last row handed to a tool call
    mixed         \* history: processes with different credentials ran together,
                  \* or one went on although its credentials were not reconciled

vars == <<rows, fingerprint, writer, pc, identity, fetching, served, mixed>>

Init ==
    /\ rows \in IF Legacy THEN [Tables -> Row \cup {NoRow}] ELSE {[t \in Tables |-> NoRow]}
    /\ fingerprint = NoFingerprint
    /\ writer = Nobody
    /\ pc = [p \in Procs |-> "down"]
    /\ identity \in [Procs -> Identities]
    /\ fetching = [p \in Procs |-> NoTable]
    /\ served = [p \in Procs |-> NoRow]
    /\ mixed = FALSE

Goto(p, label) == pc' = [pc EXCEPT ![p] = label]

\* SQLite lets one connection write; the others give up after five seconds
MayWrite(p) == writer \in {Nobody, p}

-----------------------------------------------------------------------------
(* The life of a process *)

Start(p) ==
    /\ pc[p] = "down"
    /\ \E i \in Identities :
        /\ identity' = [identity EXCEPT ![p] = i]
        /\ mixed' = (mixed \/ \E q \in Procs : pc[q] # "down" /\ identity[q] # i)
    /\ Goto(p, "cold")
    /\ UNCHANGED <<rows, fingerprint, writer, fetching, served>>

\* SQLite rolls an unfinished transaction back
Crash(p) ==
    /\ pc[p] # "down"
    /\ Goto(p, "down")
    /\ writer' = IF writer = p THEN Nobody ELSE writer
    /\ fetching' = [fetching EXCEPT ![p] = NoTable]
    /\ served' = [served EXCEPT ![p] = NoRow]
    /\ UNCHANGED <<rows, fingerprint, identity, mixed>>

\* _get_cache: the global is assigned before the credentials are reconciled
Open(p) ==
    /\ pc[p] = "cold"
    /\ Goto(p, "check")
    /\ UNCHANGED <<rows, fingerprint, writer, identity, fetching, served, mixed>>

\* reconcile_auth reads the fingerprint outside of a transaction
Check(p) ==
    /\ pc[p] = "check"
    /\ Goto(p, IF fingerprint = NoFingerprint THEN "insert"
               ELSE IF fingerprint = identity[p] THEN "ready" ELSE "wipe")
    /\ UNCHANGED <<rows, fingerprint, writer, identity, fetching, served, mixed>>

\* The first process stamps the file.  One that comes second breaks the primary
\* key and leaves its transaction open.
Insert(p) ==
    /\ pc[p] = "insert" /\ MayWrite(p)
    /\ IF fingerprint = NoFingerprint
       THEN fingerprint' = identity[p] /\ writer' = Nobody
       ELSE writer' = p /\ UNCHANGED fingerprint
    /\ Goto(p, "ready")
    /\ UNCHANGED <<rows, identity, fetching, served, mixed>>

StampFirst(p) ==   \* mutant: the new fingerprint is committed before the wipe
    /\ pc[p] = "wipe" /\ MayWrite(p)
    /\ writer' = p
    /\ fingerprint' = identity[p]
    /\ Goto(p, "wiping")
    /\ UNCHANGED <<rows, identity, fetching, served, mixed>>

\* Other credentials: the first DELETE begins the transaction ...
BeginWipe(p) ==
    /\ pc[p] = "wipe" /\ MayWrite(p)
    /\ writer' = p
    /\ Goto(p, "wiping")
    /\ UNCHANGED <<rows, fingerprint, identity, fetching, served, mixed>>

\* ... and the commit makes the wipe and the new fingerprint visible together
CommitWipe(p) ==
    /\ pc[p] = "wiping"
    /\ rows' = [t \in Tables |-> NoRow]
    /\ fingerprint' = identity[p]
    /\ writer' = Nobody
    /\ Goto(p, "ready")
    /\ UNCHANGED <<identity, fetching, served, mixed>>

\* "database is locked": that call fails, the next one finds the global set
ReconcileFails(p) ==
    /\ pc[p] \in {"insert", "wipe"} /\ ~MayWrite(p)
    /\ Goto(p, "ready")
    /\ mixed' = TRUE
    /\ UNCHANGED <<rows, fingerprint, writer, identity, fetching, served>>

-----------------------------------------------------------------------------
(* Tool calls *)

NoTTL == {"workflow_transitions", "custom_fields"}
\* The get_ accessors of the other tables go through _is_stale
Usable(t) == rows[t] # NoRow /\ (t \in NoTTL \/ rows[t].age = "fresh")

Serve(p) ==
    /\ pc[p] = "ready" /\ fetching[p] = NoTable
    /\ \E t \in Tables : Usable(t) /\ served' = [served EXCEPT ![p] = rows[t]]
    /\ UNCHANGED <<rows, fingerprint, writer, pc, identity, fetching, mixed>>

\* A miss, or a tool that always asks Redmine
Fetch(p) ==
    /\ pc[p] = "ready" /\ fetching[p] = NoTable
    /\ \E t \in Tables : fetching' = [fetching EXCEPT ![p] = t]
    /\ UNCHANGED <<rows, fingerprint, writer, pc, identity, served, mixed>>

\* put_*, record_workflow_observation: upsert and commit
Put(p) ==
    /\ fetching[p] # NoTable /\ MayWrite(p)
    /\ rows' = [rows EXCEPT ![fetching[p]] = [by |-> identity[p], age |-> "fresh"]]
    /\ writer' = Nobody
    /\ fetching' = [fetching EXCEPT ![p] = NoTable]
    /\ UNCHANGED <<fingerprint, pc, identity, served, mixed>>

\* put_project of a new project under a cached project's identifier: the upsert
\* handles a conflict of ids only, and the transaction it began stays open
PutRejected(p) ==
    /\ Reuse /\ fetching[p] = "projects" /\ MayWrite(p) /\ rows["projects"] # NoRow
    /\ writer' = p
    /\ fetching' = [fetching EXCEPT ![p] = NoTable]
    /\ UNCHANGED <<rows, fingerprint, pc, identity, served, mixed>>

GiveUpUnlocked(p) ==   \* mutant: waits for the lock without a timeout
    /\ fetching[p] # NoTable /\ MayWrite(p)
    /\ fetching' = [fetching EXCEPT ![p] = NoTable]
    /\ UNCHANGED <<rows, fingerprint, writer, pc, identity, served, mixed>>

\* The request fails, or the cache is locked: the call ends as an error
GiveUp(p) ==
    /\ fetching[p] # NoTable
    /\ fetching' = [fetching EXCEPT ![p] = NoTable]
    /\ UNCHANGED <<rows, fingerprint, writer, pc, identity, served, mixed>>

\* invalidate("all"), invalidate("tracker:..."), and invalidate("project:...") or
\* invalidate_projects after a write
Invalidate(p) ==
    /\ pc[p] = "ready" /\ MayWrite(p)
    /\ \E scope \in {AllTables, {"trackers", "workflow_transitions"}, {"projects"}} :
        rows' = [t \in Tables |-> IF t \in scope THEN NoRow ELSE rows[t]]
    /\ writer' = Nobody
    /\ UNCHANGED <<fingerprint, pc, identity, fetching, served, mixed>>

\* A day passes
Age ==
    /\ rows' = [t \in Tables |-> IF rows[t] = NoRow THEN NoRow
                                 ELSE [by |-> rows[t].by, age |-> "old"]]
    /\ UNCHANGED <<fingerprint, writer, pc, identity, fetching, served, mixed>>

Reconcile(p) == Open(p) \/ Check(p) \/ Insert(p) \/ BeginWipe(p) \/ CommitWipe(p)
                \/ ReconcileFails(p)
EndFetch(p) == Put(p) \/ PutRejected(p) \/ GiveUp(p)

Next == \/ \E p \in Procs : Start(p) \/ Crash(p) \/ Reconcile(p) \/ Serve(p) \/ Fetch(p)
                            \/ EndFetch(p) \/ Invalidate(p)
        \/ Age

Spec == Init /\ [][Next]_vars
\* A process that is not stopped runs on; every request has a timeout
FairSpec == Spec /\ \A p \in Procs : WF_vars(Reconcile(p)) /\ WF_vars(EndFetch(p))

-----------------------------------------------------------------------------
(* Properties *)

Busy(p) == fetching[p] # NoTable \/ pc[p] \in {"cold", "check", "insert", "wipe", "wiping"}

\* Every variable keeps its type.
TypeOK ==
    /\ rows \in [Tables -> Row \cup {NoRow}]
    /\ fingerprint \in Identities \cup {NoFingerprint}
    /\ writer \in Procs \cup {Nobody}
    /\ pc \in [Procs -> {"down", "cold", "check", "insert", "wipe", "wiping", "ready"}]
    /\ identity \in [Procs -> Identities]
    /\ fetching \in [Procs -> Tables \cup {NoTable}]
    /\ served \in [Procs -> Row \cup {NoRow}]
    /\ mixed \in BOOLEAN

\* "Caching schema for one user and serving it to another would leak permission
\* data" (schema_db.py:83): a tool call is only handed rows that were fetched with
\* its own credentials.  True of processes that run one after the other, or
\* together for one user.
OwnRowsServed == \A p \in Procs : served[p] # NoRow => served[p].by = identity[p]

\* The same through restarts, credential changes and crashes, but for the two ways
\* in which the code lets credentials mix.
LeaksNeedMixedUse == mixed \/ OwnRowsServed

\* The fingerprint in the file names the user of every row in it, through wipes
\* that are cut short: nothing is left behind for the next user.
FileIsOneUsers == mixed \/ \A t \in Tables : rows[t] # NoRow => rows[t].by = fingerprint

\* Even when another process never gives the file's write lock back, a call that
\* opens the cache, or waits for Redmine and then for the file, ends.
CallEnds == \A p \in Procs : Busy(p) ~> ~Busy(p)
=============================================================================
