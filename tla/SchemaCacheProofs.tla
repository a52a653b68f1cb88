-------------------------- MODULE SchemaCacheProofs --------------------------
(***************************************************************************)
(* For any number of processes, users and tables: unless processes with    *)
(* different credentials run together, or one goes on after it failed to   *)
(* reconcile its own, no tool call sees another user's rows.  The file is  *)
(* taken not to come from a version with another fingerprint.              *)
(***************************************************************************)
EXTENDS SchemaCache, TLAPS

\* What a process has read of the file stays so, because every process that is
\* up has the same credentials.
ProcInv(p) ==
    /\ \A q \in Procs : pc[p] # "down" /\ pc[q] # "down" => identity[q] = identity[p]
    /\ pc[p] # "ready" => fetching[p] = NoTable /\ served[p] = NoRow
    /\ pc[p] = "insert" => fingerprint \in {NoFingerprint, identity[p]}
    /\ pc[p] = "ready" => fingerprint = identity[p]

RowsAreOneUsers == \A t \in Tables : rows[t] # NoRow => rows[t].by = fingerprint

Clean == RowsAreOneUsers /\ OwnRowsServed /\ \A p \in Procs : ProcInv(p)

IInv == TypeOK /\ (~mixed => Clean)

----------------------------------------------------------------------------
\* Every action keeps the types.
THEOREM TypeCorrect == Spec => []TypeOK
<1> USE CacheAssumption
<1>1. Init => TypeOK
  <2>1. Init => rows \in [Tables -> Row \cup {NoRow}]
    <3>1. CASE Legacy
      BY <3>1 DEF Init
    <3>2. CASE ~Legacy
      BY <3>2 DEF Init
    <3> QED
      BY <3>1, <3>2
  <2> QED
    BY <2>1 DEF Init, TypeOK
<1>2. TypeOK /\ [Next]_vars => TypeOK'
  <2> SUFFICES ASSUME TypeOK, [Next]_vars PROVE TypeOK'
    OBVIOUS
  <2>1. ASSUME NEW p \in Procs, Start(p) \/ Crash(p) PROVE TypeOK'
    BY <2>1 DEF Start, Crash, Goto, TypeOK
  <2>2. ASSUME NEW p \in Procs, Reconcile(p) PROVE TypeOK'
    <3>1. CASE Open(p) \/ BeginWipe(p) \/ ReconcileFails(p)
      BY <3>1 DEF Open, BeginWipe, ReconcileFails, Goto, TypeOK
    <3>2. CASE Check(p)
      BY <3>2 DEF Check, Goto, TypeOK
    <3>3. CASE Insert(p)
      BY <3>3 DEF Insert, Goto, TypeOK
    <3>4. CASE CommitWipe(p)
      BY <3>4 DEF CommitWipe, Goto, TypeOK
    <3> QED
      BY <2>2, <3>1, <3>2, <3>3, <3>4 DEF Reconcile
  <2>3. ASSUME NEW p \in Procs, Serve(p) \/ Fetch(p) \/ PutRejected(p) \/ GiveUp(p)
        PROVE  TypeOK'
    BY <2>3 DEF Serve, Fetch, PutRejected, GiveUp, Usable, TypeOK
  <2>4. ASSUME NEW p \in Procs, Put(p) PROVE TypeOK'
    <3>1. [by |-> identity[p], age |-> "fresh"] \in Row
      BY DEF TypeOK, Row
    <3> QED
      BY <2>4, <3>1 DEF Put, TypeOK
  <2>5. ASSUME NEW p \in Procs, Invalidate(p) PROVE TypeOK'
    BY <2>5 DEF Invalidate, TypeOK
  <2>6. ASSUME Age PROVE TypeOK'
    <3>1. \A t \in Tables : rows[t] # NoRow => [by |-> rows[t].by, age |-> "old"] \in Row
      BY DEF TypeOK, Row
    <3> QED
      BY <2>6, <3>1 DEF Age, TypeOK
  <2>7. ASSUME UNCHANGED vars PROVE TypeOK'
    BY <2>7 DEF vars, TypeOK
  <2> QED
    BY <2>1, <2>2, <2>3, <2>4, <2>5, <2>6, <2>7 DEF Next, EndFetch
<1> QED
  BY <1>1, <1>2, PTL DEF Spec

----------------------------------------------------------------------------
\* Starting and stopping.
LEMMA LifeClean ==
    ASSUME TypeOK, Clean, ~mixed', NEW p \in Procs, Start(p) \/ Crash(p)
    PROVE  Clean'
<1> USE DEF ProcInv, Goto
<1>1. rows' = rows /\ fingerprint' = fingerprint /\ RowsAreOneUsers'
  BY DEF Start, Crash, Clean, RowsAreOneUsers
<1>2. CASE Start(p)
  <2>1. /\ pc[p] = "down" /\ pc' = [pc EXCEPT ![p] = "cold"]
        /\ UNCHANGED <<fetching, served>>
    BY <1>2 DEF Start
  <2>2. PICK i \in Identities :
            /\ identity' = [identity EXCEPT ![p] = i]
            /\ \A q \in Procs : pc[q] # "down" => identity[q] = i
    BY <1>2 DEF Start
  <2>3. served[p] = NoRow /\ fetching[p] = NoTable
    BY <2>1 DEF Clean
  <2>4. OwnRowsServed'
    BY <2>1, <2>2, <2>3 DEF Clean, OwnRowsServed, TypeOK
  <2>5. ASSUME NEW q \in Procs PROVE ProcInv(q)'
    BY <1>1, <2>1, <2>2, <2>3 DEF Clean, TypeOK
  <2> QED
    BY <1>1, <2>4, <2>5 DEF Clean
<1>3. CASE Crash(p)
  BY <1>1, <1>3 DEF Crash, TypeOK, Clean, OwnRowsServed
<1> QED
  BY <1>2, <1>3

\* Reconciling: the wipe and the fingerprint arrive together.
LEMMA ReconcileClean ==
    ASSUME TypeOK, Clean, ~mixed', NEW p \in Procs, Reconcile(p)
    PROVE  Clean'
<1> USE CacheAssumption DEF ProcInv, Goto
<1>1. CASE Open(p) \/ Check(p) \/ BeginWipe(p)
  BY <1>1 DEF Open, Check, BeginWipe, TypeOK, Clean, RowsAreOneUsers, OwnRowsServed
<1>2. CASE Insert(p)
  <2>1. CASE fingerprint = NoFingerprint
    <3>1. \A t \in Tables : rows[t] = NoRow
      BY <2>1 DEF Clean, RowsAreOneUsers, TypeOK, Row
    <3>2. RowsAreOneUsers'
      BY <1>2, <3>1 DEF Insert, RowsAreOneUsers
    <3>3. fingerprint' = identity[p]
      BY <1>2, <2>1 DEF Insert
    <3> QED
      BY <1>2, <2>1, <3>2, <3>3 DEF Insert, TypeOK, Clean, OwnRowsServed
  <2>2. CASE fingerprint # NoFingerprint
    BY <1>2, <2>2 DEF Insert, TypeOK, Clean, RowsAreOneUsers, OwnRowsServed
  <2> QED
    BY <2>1, <2>2
<1>3. CASE CommitWipe(p)
  BY <1>3 DEF CommitWipe, TypeOK, Clean, RowsAreOneUsers, OwnRowsServed
<1>4. CASE ReconcileFails(p)
  BY <1>4 DEF ReconcileFails
<1> QED
  BY <1>1, <1>2, <1>3, <1>4 DEF Reconcile

\* Tool calls are served, and write, rows of the process's own user.
LEMMA ToolClean ==
    ASSUME TypeOK, Clean, ~mixed', NEW p \in Procs,
           Serve(p) \/ Fetch(p) \/ EndFetch(p) \/ Invalidate(p)
    PROVE  Clean'
<1> USE CacheAssumption, NoRowAssumption DEF ProcInv
<1>1. CASE Serve(p)
  BY <1>1 DEF Serve, Usable, TypeOK, Clean, RowsAreOneUsers, OwnRowsServed
<1>2. CASE Fetch(p) \/ GiveUp(p) \/ PutRejected(p)
  BY <1>2 DEF Fetch, GiveUp, PutRejected, TypeOK, Clean, RowsAreOneUsers, OwnRowsServed, AllTables
<1>3. CASE Put(p)
  <2>1. pc[p] = "ready" /\ fetching[p] \in Tables
    BY <1>3 DEF Put, TypeOK, Clean
  <2>2. RowsAreOneUsers'
    BY <1>3, <2>1 DEF Put, Clean, RowsAreOneUsers, TypeOK
  <2> QED
    BY <1>3, <2>1, <2>2 DEF Put, TypeOK, Clean, OwnRowsServed
<1>4. CASE Invalidate(p)
  <2>1. \A t \in Tables : rows'[t] \in {NoRow, rows[t]}
    BY <1>4 DEF Invalidate
  <2>2. UNCHANGED <<fingerprint, pc, identity, fetching, served>>
    BY <1>4 DEF Invalidate
  <2> QED
    BY <2>1, <2>2 DEF Clean, RowsAreOneUsers, OwnRowsServed
<1> QED
  BY <1>1, <1>2, <1>3, <1>4 DEF EndFetch

LEMMA AgeClean ==
    ASSUME TypeOK, Clean, Age
    PROVE  Clean'
<1>1. ASSUME NEW t \in Tables, rows'[t] # NoRow
      PROVE  rows[t] # NoRow /\ rows'[t].by = rows[t].by
  BY <1>1 DEF Age
<1>2. RowsAreOneUsers'
  BY <1>1 DEF Age, Clean, RowsAreOneUsers
<1> QED
  BY <1>2 DEF Age, Clean, OwnRowsServed, ProcInv

----------------------------------------------------------------------------
\* The inductive invariant holds of every behaviour.
THEOREM Invariance == ASSUME ~Legacy PROVE Spec => []IInv
<1>1. Init => IInv
  BY CacheAssumption DEF Init, IInv, TypeOK, Clean, RowsAreOneUsers, OwnRowsServed, ProcInv
<1>2. TypeOK /\ TypeOK' /\ IInv /\ [Next]_vars => IInv'
  <2> SUFFICES ASSUME TypeOK, TypeOK', IInv, [Next]_vars, ~mixed' PROVE Clean'
    BY DEF IInv
  <2>1. CASE UNCHANGED vars
    BY <2>1 DEF vars, IInv, Clean, RowsAreOneUsers, OwnRowsServed, ProcInv
  <2>2. ASSUME NEW p \in Procs, Start(p) \/ Crash(p) PROVE Clean'
    BY <2>2, LifeClean DEF IInv, Start, Crash
  <2>3. ASSUME NEW p \in Procs, Reconcile(p) PROVE Clean'
    BY <2>3, ReconcileClean
       DEF IInv, Reconcile, Open, Check, Insert, BeginWipe, CommitWipe, ReconcileFails
  <2>4. ASSUME NEW p \in Procs, Serve(p) \/ Fetch(p) \/ EndFetch(p) \/ Invalidate(p)
        PROVE  Clean'
    BY <2>4, ToolClean DEF IInv, Serve, Fetch, EndFetch, Put, PutRejected, GiveUp, Invalidate
  <2>5. ASSUME Age PROVE Clean'
    BY <2>5, AgeClean DEF IInv, Age
  <2> QED
    BY <2>1, <2>2, <2>3, <2>4, <2>5 DEF Next
<1> QED
  BY <1>1, <1>2, TypeCorrect, PTL DEF Spec

\* A tool call is only handed rows fetched with its own credentials, unless
\* credentials were mixed.
THEOREM NoLeakUnlessMixed == ASSUME ~Legacy PROVE Spec => []LeaksNeedMixedUse
<1>1. IInv => LeaksNeedMixedUse
  BY DEF IInv, Clean, LeaksNeedMixedUse
<1> QED
  BY <1>1, Invariance, PTL

\* The fingerprint names the user of every row in the file, unless credentials
\* were mixed.
THEOREM FileNamesItsUser == ASSUME ~Legacy PROVE Spec => []FileIsOneUsers
<1>1. IInv => FileIsOneUsers
  BY DEF IInv, Clean, RowsAreOneUsers, FileIsOneUsers
<1> QED
  BY <1>1, Invariance, PTL
=============================================================================
