--------------------------- MODULE CacheFileProofs ---------------------------
(***************************************************************************)
(* Proofs about CacheFile, for any number of processes and a file of any   *)
(* version.  The invariant says where the processes can be for the version *)
(* that was found, and that a table which is missing once anybody has got  *)
(* past its creation is in somebody's hands, or torn.                      *)
(***************************************************************************)
EXTENDS CacheFile, TLAPS

\* Which part of the program runs on a file of which version
PlaceInv ==
    \A p \in Procs :
        /\ writer = p <=> pc[p] = "commit"
        /\ Migrating(p) => read[p] = origin /\ origin < CurrentVersion
        /\ pc[p] = "tables" => origin = 0
        /\ pc[p] \in {"drop_w", "create_w", "index_w"} => origin = 1
        /\ pc[p] \in {"drop_c", "create_c", "index_c"} => origin = 2

\* The version goes from the one that was found to the current one, at once
VersionInv ==
    /\ version \in {origin, CurrentVersion}
    /\ \A p \in Procs : pc[p] = "ready" => version = CurrentVersion
    /\ rows # {} => version = CurrentVersion

\* A process that is done with the statements outside of the transaction
Past(p) == pc[p] \in {"index_w", "index_c", "stamp", "commit"}
InHand(t) == torn \/ \E p \in Procs : Between(p, t)

\* The tables that nobody drops outside of the transaction
FixedInv ==
    /\ origin = 0 =>
        /\ \A t \in Tables \ {Fields} : shape[t] # "old"
        /\ \A p \in Procs : pc[p] \in {"stamp", "commit"} => \A t \in Tables : shape[t] # "missing"
        /\ version = CurrentVersion => \A t \in Tables : shape[t] = "new"
    /\ origin = 1 =>
        /\ \A t \in Tables \ {Workflow, Fields} : shape[t] = "new"
        /\ version = CurrentVersion => shape[Fields] = "new"
    /\ origin = 2 => \A t \in Tables \ {Fields} : shape[t] = "new"
    /\ origin = 3 => \A t \in Tables : shape[t] = "new"

\* The one that is dropped: workflow_transitions of version 1, custom_fields of 2
Dropped(t) == (origin = 1 /\ t = Workflow) \/ (origin = 2 /\ t = Fields)
DroppedInv ==
    \A t \in Tables : Dropped(t) =>
        /\ version = CurrentVersion => shape[t] = "new" \/ InHand(t)
        /\ \A p \in Procs : Past(p) => shape[t] = "new" \/ InHand(t)
        /\ shape[t] = "old" => \A p \in Procs : ~Between(p, t) /\ ~Past(p)
        /\ shape[t] = "old" => version # CurrentVersion

IInv == TypeOK /\ PlaceInv /\ VersionInv /\ FixedInv /\ DroppedInv

-----------------------------------------------------------------------------
\* The names of the tables are different ones; what a transition does to pc.
LEMMA TableNames ==
    /\ Workflow \in Tables /\ Fields \in Tables /\ Workflow # Fields
    /\ \A t \in Tables : t \in {"trackers", "cache_meta", Workflow, Fields}
  BY DEF Tables, Workflow, Fields

LEMMA InitIInv == Init => IInv
  <1> SUFFICES ASSUME Init PROVE IInv
    OBVIOUS
  <1>1. origin \in 0 .. 3
    BY FileAssumption DEF Init, CurrentVersion
  <1>2. TypeOK
    <2>1. shape \in [Tables -> Shapes]
      BY DEF Init, ShapeAt, Shapes
    <2>2. rows \subseteq {Workflow, Fields}
      BY DEF Init
    <2>3. pc \in [Procs -> {"down", "idle", "ready"} \cup Statements] /\ writer \in Procs \cup {Nobody}
      BY DEF Init
    <2>4. version \in 0 .. 3 /\ torn \in BOOLEAN
      BY <1>1 DEF Init
    <2>5. read \in [Procs -> 0 .. 3]
      <3>1. read = [p \in Procs |-> 0]
        BY DEF Init
      <3> QED BY <3>1
    <2> QED BY <1>1, <2>1, <2>2, <2>3, <2>4, <2>5 DEF TypeOK, CurrentVersion
  <1>3. PlaceInv /\ VersionInv
    BY FileAssumption DEF Init, PlaceInv, VersionInv, Migrating, Statements
  <1>4. FixedInv
    BY <1>1 DEF Init, FixedInv, ShapeAt, CurrentVersion, Tables, Workflow, Fields
  <1>5. DroppedInv
    BY <1>1 DEF Init, DroppedInv, Dropped, Past, Between, ShapeAt, CurrentVersion, Tables, Workflow, Fields
  <1> QED BY <1>2, <1>3, <1>4, <1>5 DEF IInv

\* A process starts, stops or fails.
LEMMA LifeIInv ==
    ASSUME IInv, NEW p \in Procs, Start(p) \/ Crash(p) \/ Fails(p)
    PROVE  IInv'
  <1> USE DEF CurrentVersion
  <1>1. ASSUME NEW to \in {"down", "idle"}, pc' = [pc EXCEPT ![p] = to],
               writer' = IF writer = p THEN Nobody ELSE writer,
               UNCHANGED <<version, shape, rows, read, origin>>,
               torn' \in BOOLEAN, torn => torn',
               (\E t \in Tables : Between(p, t)) /\ (version = 3 \/ \E q \in Procs \ {p} : Migrating(q))
                 => torn'
        PROVE  IInv'
    <2>0. pc \in [Procs -> {"down", "idle", "ready"} \cup Statements]
      BY DEF IInv, TypeOK
    <2>1. TypeOK'
      BY <1>1 DEF IInv, TypeOK, Statements
    <2>2. PlaceInv'
      BY <1>1, <2>0, FileAssumption DEF IInv, PlaceInv, Migrating, Statements
    <2>3. VersionInv'
      BY <1>1, <2>0 DEF IInv, VersionInv
    <2>4. FixedInv'
      BY <1>1, <2>0 DEF IInv, FixedInv
    <2>5. ASSUME NEW t \in Tables, Dropped(t), InHand(t), ~InHand(t)'
          PROVE  version # 3 /\ \A q \in Procs : ~Past(q)'
      BY <1>1, <2>0, <2>5 DEF InHand, Between, Past, Migrating, Statements
    <2>6. DroppedInv'
      BY <1>1, <2>0, <2>5 DEF IInv, DroppedInv, Dropped, Past, Between
    <2> QED BY <2>1, <2>2, <2>3, <2>4, <2>6 DEF IInv
  <1>2. CASE Start(p)
    <2>1. writer # p /\ ~\E t \in Tables : Between(p, t)
      BY <1>2 DEF IInv, PlaceInv, Start, Transition, Between
    <2> QED BY <1>1, <1>2, <2>1 DEF Start, Transition, IInv, TypeOK
  <1>3. ASSUME NEW to \in {"down", "idle"}, Stop(p, to) PROVE IInv'
    BY <1>1, <1>3 DEF Stop, IInv, TypeOK
  <1> QED BY <1>2, <1>3 DEF Crash, Fails

\* A process reads the version, or creates the tables of an empty file.
LEMMA OpenIInv ==
    ASSUME IInv, NEW p \in Procs, Open(p)
    PROVE  IInv'
  <1> USE DEF CurrentVersion, Open, Transition
  <1>0. /\ pc \in [Procs -> {"down", "idle", "ready"} \cup Statements]
        /\ read \in [Procs -> 0 .. 3]
        /\ version \in {0, 1, 2, 3} /\ version \in {origin, 3}
    BY DEF IInv, TypeOK, VersionInv
  <1>1. /\ Entry(version) \in {"tables", "drop_w", "drop_c", "ready"}
        /\ Entry(version) = "tables" => version = 0
        /\ Entry(version) = "drop_w" => version = 1
        /\ Entry(version) = "drop_c" => version = 2
        /\ Entry(version) = "ready" => version = 3
    BY <1>0 DEF Entry
  <1>2. TypeOK'
    BY <1>0, <1>1 DEF IInv, TypeOK, Statements
  <1>3. PlaceInv'
    BY <1>0, <1>1 DEF IInv, PlaceInv, Migrating, Statements
  <1>4. VersionInv'
    BY <1>0, <1>1 DEF IInv, VersionInv
  <1>5. FixedInv'
    BY <1>0, <1>1 DEF IInv, FixedInv
  <1>6. /\ \A q \in Procs : Past(q)' <=> Past(q)
        /\ \A q \in Procs, t \in Tables : Between(q, t)' <=> Between(q, t)
    BY <1>0, <1>1 DEF Past, Between
  <1>7. DroppedInv'
    BY <1>0, <1>6 DEF IInv, DroppedInv, Dropped, InHand
  <1> QED BY <1>2, <1>3, <1>4, <1>5, <1>7 DEF IInv

LEMMA FirstTablesIInv ==
    ASSUME IInv, NEW p \in Procs, FirstTables(p)
    PROVE  IInv'
  <1> USE DEF CurrentVersion
  <1>0. /\ pc \in [Procs -> {"down", "idle", "ready"} \cup Statements]
        /\ pc[p] = "tables" /\ origin = 0
        /\ UNCHANGED <<version, rows, writer, read, origin, torn>>
    BY DEF IInv, TypeOK, PlaceInv, FirstTables, Transition
  <1>1. CASE UNCHANGED shape /\ pc' = [pc EXCEPT ![p] = "stamp"]
             /\ \A t \in Tables : shape[t] # "missing"
    <2>1. TypeOK'
      BY <1>0, <1>1 DEF IInv, TypeOK, Statements
    <2>2. PlaceInv'
      BY <1>0, <1>1 DEF IInv, PlaceInv, Migrating, Statements
    <2>3. VersionInv' /\ FixedInv' /\ DroppedInv'
      BY <1>0, <1>1 DEF IInv, VersionInv, FixedInv, DroppedInv, Dropped
    <2> QED BY <2>1, <2>2, <2>3 DEF IInv
  <1>2. ASSUME NEW t \in Tables, shape[t] = "missing", UNCHANGED pc,
               shape' = [shape EXCEPT ![t] = IF t = Fields THEN "old" ELSE "new"]
        PROVE  IInv'
    <2>1. TypeOK'
      BY <1>0, <1>2 DEF IInv, TypeOK, Shapes
    <2>2. PlaceInv' /\ VersionInv' /\ DroppedInv'
      BY <1>0, <1>2 DEF IInv, PlaceInv, VersionInv, Migrating, DroppedInv, Dropped
    <2>3. FixedInv'
      BY <1>0, <1>2 DEF IInv, TypeOK, FixedInv
    <2> QED BY <2>1, <2>2, <2>3 DEF IInv
  <1>3. \A i \in DOMAIN TableOrder : TableOrder[i] \in Tables
    BY DEF TableOrder, Tables
  <1> QED BY <1>1, <1>2, <1>3 DEF FirstTables, Transition

\* The statements on the table that is reshaped outside of the transaction.
LEMMA DropIInv ==
    ASSUME IInv, NEW p \in Procs, DropW(p) \/ DropC(p)
    PROVE  IInv'
  <1> USE DEF CurrentVersion
  <1> DEFINE Of(t, from, to) ==
        /\ Dropped(t) /\ pc[p] = from /\ pc' = [pc EXCEPT ![p] = to]
        /\ from \in {"drop_w", "drop_c"}
        /\ (t = Workflow /\ to = "create_w") \/ (t = Fields /\ to = "create_c")
        /\ shape' = [shape EXCEPT ![t] = "missing"] /\ rows' = rows \ {t}
        /\ UNCHANGED <<version, writer, read, origin, torn>>
  <1>0. pc \in [Procs -> {"down", "idle", "ready"} \cup Statements]
    BY DEF IInv, TypeOK
  <1>1. PICK t \in Tables, from \in {"drop_w", "drop_c"}, to \in {"create_w", "create_c"} :
            Of(t, from, to)
    BY TableNames DEF IInv, PlaceInv, Dropped, DropW, DropC, Drop, Transition
  <1> HIDE DEF Of
  <1>2. TypeOK'
    BY <1>0, <1>1 DEF Of, IInv, TypeOK, Statements, Shapes
  <1>3. PlaceInv'
    BY <1>0, <1>1, TableNames DEF Of, Dropped, IInv, PlaceInv, Migrating, Statements
  <1>4. VersionInv'
    BY <1>0, <1>1 DEF Of, IInv, VersionInv
  <1>5. FixedInv'
    BY <1>0, <1>1, TableNames DEF Of, Dropped, IInv, TypeOK, FixedInv
  <1>6. InHand(t)'
    BY <1>0, <1>1 DEF Of, InHand, Between
  <1>7. shape' = [shape EXCEPT ![t] = "missing"] /\ shape \in [Tables -> Shapes]
    BY <1>1 DEF Of, IInv, TypeOK
  <1>8. \A u \in Tables : Dropped(u)' => u = t
    BY <1>1, TableNames DEF Of, Dropped
  <1>9. DroppedInv'
    BY <1>6, <1>7, <1>8 DEF DroppedInv
  <1> QED BY <1>2, <1>3, <1>4, <1>5, <1>9 DEF IInv

LEMMA CreateIInv ==
    ASSUME IInv, NEW p \in Procs, CreateW(p) \/ CreateC(p)
    PROVE  IInv'
  <1> USE DEF CurrentVersion
  <1> DEFINE Of(t, from, to) ==
        /\ Dropped(t) /\ pc[p] = from /\ pc' = [pc EXCEPT ![p] = to]
        /\ \/ t = Workflow /\ from = "create_w" /\ to = "index_w"
           \/ t = Fields /\ from = "create_c" /\ to = "index_c"
        /\ shape' = [shape EXCEPT ![t] = IF @ = "missing" THEN "new" ELSE @]
        /\ UNCHANGED <<version, rows, writer, read, origin, torn>>
  <1>0. /\ pc \in [Procs -> {"down", "idle", "ready"} \cup Statements]
        /\ shape \in [Tables -> Shapes]
    BY DEF IInv, TypeOK
  <1>1. PICK t \in Tables, from \in {"create_w", "create_c"}, to \in {"index_w", "index_c"} :
            Of(t, from, to)
    <2>1. CASE CreateW(p)
      BY <2>1, TableNames DEF IInv, PlaceInv, Dropped, CreateW, Transition
    <2>2. CASE CreateC(p)
      <3>1. shape' = [shape EXCEPT ![Fields] = IF @ = "missing" THEN "new" ELSE @]
        BY <2>2, <1>0, TableNames DEF CreateC
      <3> QED BY <2>2, <3>1, TableNames DEF IInv, PlaceInv, Dropped, CreateC, Transition
    <2> QED BY <2>1, <2>2
  <1> HIDE DEF Of
  <1>2. TypeOK'
    BY <1>0, <1>1 DEF Of, IInv, TypeOK, Statements, Shapes
  <1>3. PlaceInv'
    BY <1>0, <1>1, TableNames DEF Of, Dropped, IInv, PlaceInv, Migrating, Statements
  <1>4. VersionInv'
    BY <1>0, <1>1 DEF Of, IInv, VersionInv
  <1>5. FixedInv'
    BY <1>0, <1>1, TableNames DEF Of, Dropped, IInv, FixedInv
  <1>6. shape[t] # "old"
    BY <1>0, <1>1 DEF Of, IInv, DroppedInv, Between
  <1>7. shape'[t] = "new"
    BY <1>0, <1>1, <1>6 DEF Of, Shapes
  <1>8. \A u \in Tables : Dropped(u)' => u = t
    BY <1>1, TableNames DEF Of, Dropped
  <1>9. DroppedInv'
    BY <1>7, <1>8 DEF DroppedInv
  <1> QED BY <1>2, <1>3, <1>4, <1>5, <1>9 DEF IInv

LEMMA IndexIInv ==
    ASSUME IInv, NEW p \in Procs, Index(p)
    PROVE  IInv'
  <1> USE DEF CurrentVersion
  <1>0. /\ pc \in [Procs -> {"down", "idle", "ready"} \cup Statements]
        /\ pc[p] \in {"index_w", "index_c"} /\ pc' = [pc EXCEPT ![p] = "stamp"]
        /\ UNCHANGED <<version, shape, rows, writer, read, origin, torn>>
    BY DEF IInv, TypeOK, Index, Transition
  <1>1. TypeOK'
    BY <1>0 DEF IInv, TypeOK, Statements
  <1>2. PlaceInv'
    BY <1>0 DEF IInv, PlaceInv, Migrating, Statements
  <1>3. VersionInv'
    BY <1>0 DEF IInv, VersionInv
  <1>4. FixedInv'
    BY <1>0 DEF IInv, PlaceInv, FixedInv
  <1>5. /\ \A q \in Procs : Past(q)' <=> Past(q)
        /\ \A q \in Procs, t \in Tables : Between(q, t)' <=> Between(q, t)
    BY <1>0 DEF Past, Between
  <1>6. DroppedInv'
    BY <1>0, <1>5 DEF IInv, DroppedInv, Dropped, InHand
  <1> QED BY <1>1, <1>2, <1>3, <1>4, <1>6 DEF IInv

\* The transaction begins, and ends.
LEMMA StampIInv ==
    ASSUME IInv, NEW p \in Procs, Stamp(p)
    PROVE  IInv'
  <1> USE DEF CurrentVersion
  <1>0. /\ pc \in [Procs -> {"down", "idle", "ready"} \cup Statements]
        /\ pc[p] = "stamp" /\ pc' = [pc EXCEPT ![p] = "commit"]
        /\ writer = Nobody /\ writer' = p
        /\ UNCHANGED <<version, shape, rows, read, origin, torn>>
    BY DEF IInv, TypeOK, Stamp, Transition, MayWrite
  <1>1. TypeOK'
    BY <1>0 DEF IInv, TypeOK, Statements
  <1>2. PlaceInv'
    BY <1>0, FileAssumption DEF IInv, PlaceInv, Migrating, Statements
  <1>3. VersionInv'
    BY <1>0 DEF IInv, VersionInv
  <1>4. FixedInv'
    BY <1>0 DEF IInv, FixedInv
  <1>5. /\ \A q \in Procs : Past(q)' <=> Past(q)
        /\ \A q \in Procs, t \in Tables : Between(q, t)' <=> Between(q, t)
    BY <1>0 DEF Past, Between
  <1>6. DroppedInv'
    BY <1>0, <1>5 DEF IInv, DroppedInv, Dropped, InHand
  <1> QED BY <1>1, <1>2, <1>3, <1>4, <1>6 DEF IInv

LEMMA CommitIInv ==
    ASSUME IInv, NEW p \in Procs, Commit(p)
    PROVE  IInv'
  <1> USE DEF CurrentVersion
  <1>0. /\ pc \in [Procs -> {"down", "idle", "ready"} \cup Statements]
        /\ pc[p] = "commit" /\ pc' = [pc EXCEPT ![p] = "ready"]
        /\ writer = p /\ writer' = Nobody /\ version' = 3 /\ rows' \subseteq rows
        /\ read[p] = origin /\ origin \in {0, 1, 2}
        /\ UNCHANGED <<read, origin, torn>>
    BY DEF IInv, TypeOK, PlaceInv, Migrating, Statements, Commit, Transition
  <1>1. /\ shape \in [Tables -> Shapes] /\ shape' \in [Tables -> Shapes]
        /\ \A t \in Tables : shape'[t] = IF (origin = 0 /\ t \in {Workflow, Fields}) \/ (origin = 1 /\ t = Fields)
                                         THEN "new" ELSE shape[t]
    BY <1>0, TableNames DEF IInv, TypeOK, Commit, Recreated, Shapes
  <1>2. TypeOK'
    BY <1>0, <1>1 DEF IInv, TypeOK, Statements
  <1>3. PlaceInv'
    BY <1>0, FileAssumption DEF IInv, PlaceInv, Migrating, Statements
  <1>4. VersionInv'
    BY <1>0 DEF IInv, VersionInv
  <1>5. FixedInv'
    BY <1>0, <1>1, TableNames DEF IInv, FixedInv, Shapes
  <1>6. /\ \A q \in Procs : Past(q)' => Past(q)
        /\ \A q \in Procs, t \in Tables : Between(q, t)' <=> Between(q, t)
        /\ Past(p)
    BY <1>0 DEF Past, Between
  <1>7. \A t \in Tables : Dropped(t) => shape'[t] = shape[t]
    BY <1>0, <1>1, TableNames DEF Dropped
  <1>8. DroppedInv'
    BY <1>0, <1>6, <1>7 DEF IInv, DroppedInv, Dropped, InHand
  <1> QED BY <1>2, <1>3, <1>4, <1>5, <1>8 DEF IInv

LEMMA LearnIInv ==
    ASSUME IInv, NEW p \in Procs, Learn(p)
    PROVE  IInv'
  <1> USE DEF CurrentVersion
  <1>0. /\ rows' \subseteq {Workflow, Fields} /\ version = 3
        /\ UNCHANGED <<version, shape, writer, pc, read, origin, torn>>
    BY DEF IInv, TypeOK, VersionInv, Learn
  <1>1. TypeOK' /\ PlaceInv' /\ VersionInv' /\ FixedInv'
    BY <1>0 DEF IInv, TypeOK, PlaceInv, Migrating, VersionInv, FixedInv
  <1>2. DroppedInv'
    BY <1>0 DEF IInv, DroppedInv, Dropped, InHand, Between, Past
  <1> QED BY <1>1, <1>2 DEF IInv

LEMMA StutterIInv == IInv /\ UNCHANGED vars => IInv'
  BY DEF IInv, vars, TypeOK, PlaceInv, Migrating, VersionInv, FixedInv, DroppedInv, Dropped,
         InHand, Between, Past

LEMMA StepIInv == IInv /\ [Next]_vars => IInv'
  BY LifeIInv, OpenIInv, FirstTablesIInv, DropIInv, CreateIInv, IndexIInv, StampIInv, CommitIInv,
     LearnIInv, StutterIInv DEF Next, Attempt, Migrate

-----------------------------------------------------------------------------
\* Every variable keeps its type, for any number of processes.
THEOREM TypeCorrect == Spec => []TypeOK
  BY InitIInv, StepIInv, PTL DEF Spec, IInv

\* For any number of processes that open, migrate, stop and fail at any point: the
\* tables of a stamped file are in their current shape, unless a process is between
\* a DROP and its CREATE or has stopped there.
THEOREM StampedFilesAreCurrent == Spec => []StampedIsCurrent
  <1>1. IInv => StampedIsCurrent
    <2> SUFFICES ASSUME IInv, version = 3, ~torn, NEW t \in Tables
                 PROVE  shape[t] = "new" \/ \E p \in Procs : Between(p, t)
      BY DEF StampedIsCurrent, CurrentVersion
    <2>1. CASE Dropped(t)
      BY <2>1 DEF IInv, DroppedInv, InHand, CurrentVersion
    <2>2. CASE ~Dropped(t)
      BY <2>2, TableNames DEF IInv, TypeOK, FixedInv, Dropped, CurrentVersion
    <2> QED BY <2>1, <2>2
  <1> QED BY <1>1, InitIInv, StepIInv, PTL DEF Spec

\* What the cache has learned is lost only to a process that began to migrate
\* before another one stamped the file.
THEOREM LearnedRowsAreKept == Spec => OnlyLaggardsForget
  <1>1. ASSUME IInv, [Next]_vars
        PROVE  rows \subseteq rows'
               \/ \E p \in Procs : Migrating(p) /\ read[p] < version /\ pc'[p] # pc[p]
    <2> SUFFICES ASSUME NEW p \in Procs, ~(rows \subseteq rows'), DropW(p) \/ DropC(p) \/ Commit(p)
                 PROVE  Migrating(p) /\ read[p] < version /\ pc'[p] # pc[p]
      BY <1>1 DEF Next, vars, Start, Crash, Fails, Stop, Attempt, Open, Migrate, FirstTables,
                  CreateW, CreateC, Index, Stamp, Learn
    <2>1. version = 3
      BY <1>1 DEF IInv, VersionInv, CurrentVersion
    <2>2. Migrating(p)
      BY DEF DropW, DropC, Drop, Commit, Transition, Migrating, Statements
    <2>3. read[p] < 3
      BY <1>1, <2>2 DEF IInv, TypeOK, PlaceInv, CurrentVersion
    <2>4. pc'[p] # pc[p]
      BY <1>1 DEF IInv, TypeOK, DropW, DropC, Drop, Commit, Transition
    <2> QED BY <2>1, <2>2, <2>3, <2>4
  <1> QED BY <1>1, InitIInv, StepIInv, PTL DEF Spec, OnlyLaggardsForget
=============================================================================
