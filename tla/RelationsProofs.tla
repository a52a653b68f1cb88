-------------------------- MODULE RelationsProofs --------------------------
(***************************************************************************)
(* The cycle pre-check of add_relation, for every graph, every number of   *)
(* callers and every cap.  The argument: as long as nothing was added to   *)
(* the graph and no issue was skipped, the visited issues minus the one    *)
(* being read lead nowhere but to visited issues and the frontier.  When   *)
(* the frontier is empty the visited set is closed, holds the destination  *)
(* and not the source, so the new edge leaves it for good: no cycle.       *)
(***************************************************************************)
EXTENDS Relations, TLAPS

----------------------------------------------------------------------------
(***************************************************************************)
(* Graphs.                                                                 *)
(***************************************************************************)
\* An edge into a closed set that does not hold its source closes no cycle:
\* what the walk of _reaches establishes before the POST.
LEMMA AddKeepsAcyclic ==
    ASSUME NEW E, NEW a \in Nodes, NEW b \in Nodes, NEW R \in SUBSET Nodes,
           Acyclic(E), b \in R, a \notin R, Closed(R, E)
    PROVE  Acyclic(E \cup {<<a, b>>})
<1> SUFFICES ASSUME NEW S \in SUBSET Nodes,
                    \A x \in S : \E y \in S : <<x, y>> \in E \cup {<<a, b>>},
                    S # {}
             PROVE  FALSE
    BY DEF Acyclic
<1>1. CASE \E x \in S : ~ \E y \in S : <<x, y>> \in E
  <2>1. PICK x \in S : ~ \E y \in S : <<x, y>> \in E
    BY <1>1
  <2>2. PICK y \in S : <<x, y>> = <<a, b>>
    BY <2>1
  <2>3. b \in S \cap R
    BY <2>2
  <2>4. \A u \in S \cap R : \E v \in S \cap R : <<u, v>> \in E
    <3>1. TAKE u \in S \cap R
    <3>2. PICK v \in S : <<u, v>> \in E \cup {<<a, b>>}
      OBVIOUS
    <3>3. u # a
      OBVIOUS
    <3>4. <<u, v>> \in E
      BY <3>2, <3>3
    <3>5. v \in R
      BY <3>4 DEF Closed
    <3> QED
      BY <3>4, <3>5
  <2> QED
    BY <2>3, <2>4 DEF Acyclic
<1>2. CASE \A x \in S : \E y \in S : <<x, y>> \in E
  BY <1>2 DEF Acyclic
<1> QED
  BY <1>1, <1>2

\* Removing relations closes no cycle.
LEMMA RemoveKeepsAcyclic ==
    ASSUME NEW E, NEW F, F \subseteq E, Acyclic(E)
    PROVE  Acyclic(F)
BY DEF Acyclic

\* What a reached issue leads to is reached.
LEMMA ReachesNext ==
    ASSUME NEW E, NEW a \in Nodes, NEW x \in Nodes, NEW y \in Nodes,
           Reaches(E, a, x), <<x, y>> \in E
    PROVE  Reaches(E, a, y)
BY DEF Reaches, Closed

LEMMA ReachesItself ==
    ASSUME NEW E, NEW a \in Nodes
    PROVE  Reaches(E, a, a)
BY DEF Reaches

----------------------------------------------------------------------------
(***************************************************************************)
(* Relation types.                                                         *)
(***************************************************************************)
\* A directed type is stored as the edge that its row of _DIRECTED_EDGES names.
LEMMA DirectedStored ==
    ASSUME NEW type \in Directed, NEW i, NEW j
    PROVE  Stored(type, i, j) = <<SourceOf(type, i, j), DestOf(type, i, j)>>
BY DEF Directed, Stored, SourceOf, DestOf, InverseKinds, ReverseOf

LEMMA KindIsKind ==
    ASSUME NEW type \in AllowedTypes
    PROVE  KindOf(type) \in Kinds
BY DEF AllowedTypes, KindOf, InverseKinds, ReverseOf, Kinds

\* A type that is not pre-checked is stored under a kind that is not directed.
LEMMA UndirectedKind ==
    ASSUME NEW type \in AllowedTypes, type \notin Directed, NEW other \in Directed
    PROVE  KindOf(type) # KindOf(other)
BY DEF AllowedTypes, KindOf, InverseKinds, ReverseOf, Kinds, Directed

LEMMA NormalizedType ==
    ASSUME NEW raw, NormalizeRelationType(raw) # Unknown
    PROVE  NormalizeRelationType(raw) \in AllowedTypes
BY DEF NormalizeRelationType, AllowedTypes, Aliases, Kinds, InverseKinds, ReverseOf, Unknown

----------------------------------------------------------------------------
(***************************************************************************)
(* Type correctness.                                                       *)
(***************************************************************************)
\* The types of the initial states.
LEMMA InitTypes ==
    ASSUME LinkInit
    PROVE  LinkTypeOK
<1>1. (CHOOSE i \in Nodes : TRUE) \in Nodes
  BY RelationsAssumption
<1>2. edges \in [Kinds -> SUBSET (Nodes \X Nodes)]
  BY RelationsAssumption DEF LinkInit
<1>3. linkCalls \in [Linkers -> 0 .. MaxLinks]
  BY RelationsAssumption DEF LinkInit
<1>4. rel \in [Linkers -> [type : AllowedTypes, issue : Nodes, target : Nodes]]
  BY <1>1 DEF LinkInit, AllowedTypes, Kinds
<1> QED
  BY <1>1, <1>2, <1>3, <1>4 DEF LinkInit, LinkTypeOK

\* The variables keep their types, whatever is asked and answered.
THEOREM TypeCorrect == LinkSpec => []LinkTypeOK
<1>1. LinkInit => LinkTypeOK
  BY InitTypes
<1>2. LinkTypeOK /\ [LinkNext]_linkVars => LinkTypeOK'
  <2> SUFFICES ASSUME LinkTypeOK, [LinkNext]_linkVars PROVE LinkTypeOK'
    OBVIOUS
  <2> USE RelationsAssumption
  <2>1. ASSUME NEW c \in Linkers, NEW r \in Links, Begin(c, r) PROVE LinkTypeOK'
    <3> DEFINE type == NormalizeRelationType(r.type)
    <3>1. /\ linkCalls' \in [Linkers -> 0 .. MaxLinks]
          /\ before' \in [Linkers -> [Kinds -> SUBSET (Nodes \X Nodes)]]
          /\ doubt' \in [Linkers -> BOOLEAN]
          /\ UNCHANGED <<edges, blind>>
      BY <2>1 DEF Begin, LinkTypeOK
    <3>2. /\ linkPc' \in [Linkers -> {"idle", "read", "post"}]
          /\ linkAnswer' \in [Linkers -> {"none", "relation_type_unknown", "relation_cycle",
                                      "created", "api_error"}]
      BY <2>1 DEF Begin, LinkTypeOK, EndLink, LinkGoto
    <3>3. type # Unknown => type \in AllowedTypes
      BY NormalizedType
    <3>4. r.issue \in Nodes /\ r.target \in Nodes
      OBVIOUS
    <3>5. rel' \in [Linkers -> [type : AllowedTypes, issue : Nodes, target : Nodes]]
      <4>1. CASE UNCHANGED rel
        BY <4>1 DEF LinkTypeOK
      <4>2. CASE /\ type # Unknown
                 /\ rel' = [rel EXCEPT ![c] = [type |-> type, issue |-> r.issue, target |-> r.target]]
        BY <3>3, <3>4, <4>2 DEF LinkTypeOK
      <4> QED
        BY <2>1, <4>1, <4>2 DEF Begin
    <3>6. DestOf(type, r.issue, r.target) \in Nodes
      BY <3>4 DEF DestOf
    <3> DEFINE dest == DestOf(type, r.issue, r.target)
    <3>7. \/ UNCHANGED <<current, reached, frontier>>
          \/ /\ current' = [current EXCEPT ![c] = dest]
             /\ reached' = [reached EXCEPT ![c] = {dest}]
             /\ frontier' = [frontier EXCEPT ![c] = {}]
      BY <2>1 DEF Begin, walk
    <3> HIDE DEF dest
    <3>8. /\ current' \in [Linkers -> Nodes]
          /\ reached' \in [Linkers -> SUBSET Nodes]
          /\ frontier' \in [Linkers -> SUBSET Nodes]
      <4>1. CASE UNCHANGED <<current, reached, frontier>>
        BY <4>1 DEF LinkTypeOK
      <4>2. CASE /\ current' = [current EXCEPT ![c] = dest]
                 /\ reached' = [reached EXCEPT ![c] = {dest}]
                 /\ frontier' = [frontier EXCEPT ![c] = {}]
        <5>1. dest \in Nodes /\ {dest} \in SUBSET Nodes /\ {} \in SUBSET Nodes
          BY <3>6 DEF dest
        <5> QED
          BY <4>2, <5>1 DEF LinkTypeOK
      <4> QED
        BY <3>7, <4>1, <4>2
    <3> QED
      BY <3>1, <3>2, <3>5, <3>8 DEF LinkTypeOK
  <2>2. ASSUME NEW c \in Linkers, Read(c) PROVE LinkTypeOK'
    <3>2. UNCHANGED <<rel, linkCalls, edges, before, blind>>
      BY <2>2 DEF Read
    <3>3. ASSUME NEW todo \in SUBSET Nodes, NEW unsure \in BOOLEAN,
                 Visit(c, todo, reached[c], unsure)
          PROVE  LinkTypeOK'
      <4>0. reached[c] \in SUBSET Nodes
        BY DEF LinkTypeOK
      <4>1. /\ current' \in [Linkers -> Nodes]
            /\ reached' \in [Linkers -> SUBSET Nodes]
            /\ frontier' \in [Linkers -> SUBSET Nodes]
        <5>1. CASE todo = {} /\ UNCHANGED current /\ reached' = [reached EXCEPT ![c] = reached[c]]
                     /\ frontier' = [frontier EXCEPT ![c] = {}]
          BY <5>1 DEF LinkTypeOK
        <5>2. CASE \E n \in todo : /\ current' = [current EXCEPT ![c] = n]
                                  /\ reached' = [reached EXCEPT ![c] = reached[c] \cup {n}]
                                  /\ frontier' = [frontier EXCEPT ![c] = todo \ {n}]
          <6>1. PICK n \in todo : /\ current' = [current EXCEPT ![c] = n]
                                  /\ reached' = [reached EXCEPT ![c] = reached[c] \cup {n}]
                                  /\ frontier' = [frontier EXCEPT ![c] = todo \ {n}]
            BY <5>2
          <6>2. n \in Nodes /\ reached[c] \cup {n} \in SUBSET Nodes /\ todo \ {n} \in SUBSET Nodes
            BY <4>0
          <6> QED
            BY <6>1, <6>2 DEF LinkTypeOK
        <5> QED
          BY <3>3, <5>1, <5>2 DEF Visit
      <4>2. doubt' \in [Linkers -> BOOLEAN]
        BY <3>3 DEF Visit, LinkTypeOK
      <4>3. linkPc' \in [Linkers -> {"idle", "read", "post"}] /\ UNCHANGED linkAnswer
        BY <3>3 DEF Visit, LinkGoto, LinkTypeOK
      <4> QED
        BY <3>2, <4>1, <4>2, <4>3 DEF LinkTypeOK
    <3>4. CASE UNCHANGED walk /\ (LinkGoto(c, "post") \/ EndLink(c, "relation_cycle"))
                /\ (UNCHANGED doubt \/ doubt' = [doubt EXCEPT ![c] = TRUE])
      <4>1. doubt' \in [Linkers -> BOOLEAN]
        BY <3>4 DEF LinkTypeOK
      <4>2. /\ linkPc' \in [Linkers -> {"idle", "read", "post"}]
            /\ linkAnswer' \in [Linkers -> {"none", "relation_type_unknown", "relation_cycle",
                                        "created", "api_error"}]
        BY <3>4 DEF LinkGoto, EndLink, LinkTypeOK
      <4> QED
        BY <3>2, <3>4, <4>1, <4>2 DEF LinkTypeOK, walk
    <3>5. CASE \E next \in {Successors(c), {}} :
                 Visit(c, (frontier[c] \cup next) \ reached[c], reached[c], next # Successors(c))
      <4>1. PICK next \in {Successors(c), {}} :
                 Visit(c, (frontier[c] \cup next) \ reached[c], reached[c], next # Successors(c))
        BY <3>5
      <4>2. (frontier[c] \cup next) \ reached[c] \in SUBSET Nodes
        BY DEF LinkTypeOK, Successors
      <4> QED
        BY <3>3, <4>1, <4>2
    <3> QED
      BY <2>2, <3>4, <3>5 DEF Read
  <2>3. ASSUME NEW c \in Linkers, PostLink(c) PROVE LinkTypeOK'
    <3>1. Kind(c) \in Kinds
      BY KindIsKind DEF Kind, LinkTypeOK
    <3>2. Stored(rel[c].type, rel[c].issue, rel[c].target) \in Nodes \X Nodes
      BY DEF Stored, LinkTypeOK
    <3> DEFINE edge == Stored(rel[c].type, rel[c].issue, rel[c].target)
    <3>7. UNCHANGED edges \/ edges' = [edges EXCEPT ![Kind(c)] = @ \cup {edge}]
      BY <2>3 DEF PostLink
    <3> HIDE DEF edge
    <3>3. edges' \in [Kinds -> SUBSET (Nodes \X Nodes)]
      <4>1. CASE UNCHANGED edges
        BY <4>1 DEF LinkTypeOK
      <4>2. CASE edges' = [edges EXCEPT ![Kind(c)] = @ \cup {edge}]
        <5>1. edges[Kind(c)] \cup {edge} \in SUBSET (Nodes \X Nodes)
          BY <3>1, <3>2 DEF LinkTypeOK, edge
        <5> QED
          BY <4>2, <5>1 DEF LinkTypeOK
      <4> QED
        BY <3>7, <4>1, <4>2
    <3>4. UNCHANGED <<rel, current, reached, frontier, linkCalls, before>>
      BY <2>3 DEF PostLink, walk
    <3>5. doubt' \in [Linkers -> BOOLEAN] /\ blind' \in BOOLEAN
      BY <2>3 DEF PostLink, LinkTypeOK
    <3>6. /\ linkPc' \in [Linkers -> {"idle", "read", "post"}]
          /\ linkAnswer' \in [Linkers -> {"none", "relation_type_unknown", "relation_cycle",
                                      "created", "api_error"}]
      <4>1. \E kind \in {"api_error", "created"} : EndLink(c, kind)
        BY <2>3 DEF PostLink
      <4> QED
        BY <4>1 DEF EndLink, LinkTypeOK
    <3> QED
      BY <3>3, <3>4, <3>5, <3>6 DEF LinkTypeOK
  <2>4. ASSUME RemoveRelation PROVE LinkTypeOK'
    BY <2>4 DEF RemoveRelation, LinkTypeOK, walk
  <2>5. ASSUME UNCHANGED linkVars PROVE LinkTypeOK'
    BY <2>5 DEF linkVars, walk, LinkTypeOK
  <2> QED
    BY <2>1, <2>2, <2>3, <2>4, <2>5 DEF LinkNext
<1> QED
  BY <1>1, <1>2, PTL DEF LinkSpec

----------------------------------------------------------------------------
(***************************************************************************)
(* The inductive invariant.                                                *)
(***************************************************************************)
\* While c reads: it has visited and queued only what its destination reaches,
\* and nothing leads out of what it has read but to what it visited or queued.
Covers(c) ==
    /\ rel[c].type \in Directed
    /\ current[c] \in reached[c]
    /\ Dest(c) \in reached[c]
    /\ Source(c) \notin reached[c] \cup frontier[c]
    /\ \A x \in reached[c] \ {current[c]}, y \in Nodes :
           <<x, y>> \in edges[Kind(c)] => y \in reached[c] \cup frontier[c]
    /\ edges[Kind(c)] \subseteq before[c][Kind(c)]
    /\ \A n \in reached[c] \cup frontier[c] : Reaches(before[c][Kind(c)], Dest(c), n)

\* When c posts a directed relation: its destination is in a closed set that
\* its source is not in.
Separates(c) ==
    rel[c].type \in Directed =>
        Dest(c) \in reached[c] /\ Source(c) \notin reached[c] /\ Closed(reached[c], edges[Kind(c)])

Refused(c) ==
    linkAnswer[c] = "relation_cycle" => Reaches(before[c][Kind(c)], Dest(c), Source(c))

Sound(c) ==
    ~doubt[c] => /\ linkPc[c] = "read" => Covers(c)
                 /\ linkPc[c] = "post" => Separates(c)
                 /\ linkPc[c] = "idle" => Refused(c)

IInv == LinkTypeOK /\ CyclesNeedABlindWalk /\ \A c \in Linkers : Sound(c)

\* What a caller knows depends on nothing but its own variables and the graph.
LEMMA Frame ==
    ASSUME NEW d \in Linkers, Sound(d), UNCHANGED edges,
           linkPc'[d] = linkPc[d], rel'[d] = rel[d], current'[d] = current[d], reached'[d] = reached[d],
           frontier'[d] = frontier[d], linkAnswer'[d] = linkAnswer[d], before'[d] = before[d],
           doubt'[d] = doubt[d]
    PROVE  Sound(d)'
BY DEF Sound, Covers, Separates, Refused, Kind, Source, Dest

LEMMA BeginSound ==
    ASSUME LinkTypeOK, NEW c \in Linkers, NEW r \in Links, Begin(c, r)
    PROVE  Sound(c)'
<1> USE RelationsAssumption
<1> DEFINE type == NormalizeRelationType(r.type)
           i == r.issue
           j == r.target
<1>0. i \in Nodes /\ j \in Nodes
  OBVIOUS
<1>1. doubt'[c] = FALSE /\ before'[c] = edges /\ edges' = edges
  BY DEF Begin, LinkTypeOK
<1>2. CASE type = Unknown
  BY <1>2 DEF Begin, EndLink, Sound, Refused, LinkTypeOK
<1>3. CASE type # Unknown
  <2>1. rel'[c] = [type |-> type, issue |-> i, target |-> j]
    BY <1>3 DEF Begin, LinkTypeOK
  <2>2. rel'[c].type = type /\ rel'[c].issue = i /\ rel'[c].target = j
    BY <2>1
  <2>3. CASE type \notin Directed
    BY <1>3, <2>2, <2>3 DEF Begin, LinkGoto, LinkTypeOK, Sound, Separates
  <2>4. CASE type \in Directed /\ i = j
    <3>1. linkPc'[c] = "idle"
      BY <1>3, <2>4 DEF Begin, EndLink, LinkTypeOK
    <3>2. Source(c)' = i /\ Dest(c)' = i
      BY <2>2, <2>4 DEF Source, Dest, SourceOf, DestOf
    <3>3. Reaches(before[c][Kind(c)], Dest(c), Source(c))'
      BY <1>0, <3>2 DEF Reaches
    <3> QED
      BY <3>1, <3>3 DEF Sound, Refused
  <2>5. CASE type \in Directed /\ i # j
    <3>1. /\ linkPc'[c] = "read"
          /\ current'[c] = DestOf(type, i, j)
          /\ reached'[c] = {DestOf(type, i, j)}
          /\ frontier'[c] = {}
      BY <1>3, <2>5 DEF Begin, LinkGoto, LinkTypeOK
    <3>2. Source(c)' = SourceOf(type, i, j) /\ Dest(c)' = DestOf(type, i, j)
      BY <2>2 DEF Source, Dest
    <3>3. SourceOf(type, i, j) # DestOf(type, i, j) /\ DestOf(type, i, j) \in Nodes
      BY <1>0, <2>5 DEF SourceOf, DestOf
    <3>4. Reaches(before[c][Kind(c)], Dest(c), Dest(c))'
      BY <3>2, <3>3 DEF Reaches
    <3>5. Covers(c)'
      BY <1>1, <2>2, <2>5, <3>1, <3>2, <3>3, <3>4 DEF Covers
    <3> QED
      BY <3>1, <3>5 DEF Sound
  <2> QED
    BY <2>3, <2>4, <2>5
<1> QED
  BY <1>2, <1>3

LEMMA ReadSound ==
    ASSUME LinkTypeOK, NEW c \in Linkers, Sound(c), Read(c)
    PROVE  Sound(c)'
<1> DEFINE E == edges[Kind(c)]
           next == Successors(c)
           todo == (frontier[c] \cup next) \ reached[c]
<1>1. UNCHANGED <<rel, edges, before>>
  BY DEF Read
<1>2. linkPc[c] = "read"
  BY DEF Read
<1>3. /\ Kind(c)' = Kind(c) /\ Source(c)' = Source(c) /\ Dest(c)' = Dest(c)
      /\ rel'[c] = rel[c] /\ before'[c] = before[c] /\ edges' = edges
  BY <1>1 DEF Kind, Source, Dest
<1>4. CASE doubt'[c]
  BY <1>4 DEF Sound
<1>5. CASE ~doubt'[c]
  <2>0. \/ Source(c) \in next /\ EndLink(c, "relation_cycle") /\ UNCHANGED <<walk, doubt>>
        \/ Source(c) \notin next /\ Visit(c, todo, reached[c], FALSE)
    <3>1. CASE doubt' = [doubt EXCEPT ![c] = TRUE]
      BY <1>5, <3>1 DEF LinkTypeOK
    <3>2. CASE \E told \in {next, {}} :
                 Source(c) \in told /\ EndLink(c, "relation_cycle") /\ UNCHANGED <<walk, doubt>>
      BY <3>2
    <3>3. CASE \E told \in {next, {}} :
                 /\ Source(c) \notin told
                 /\ Visit(c, (frontier[c] \cup told) \ reached[c], reached[c], told # next)
      <4>1. PICK told \in {next, {}} :
                 /\ Source(c) \notin told
                 /\ Visit(c, (frontier[c] \cup told) \ reached[c], reached[c], told # next)
        BY <3>3
      <4>2. told = next
        BY <1>5, <4>1 DEF Visit, LinkTypeOK
      <4>3. (told # next) = FALSE
        BY <4>2
      <4> QED
        BY <4>1, <4>2, <4>3
    <3> QED
      BY <3>1, <3>2, <3>3 DEF Read
  <2>1. ~doubt[c]
    <3>1. CASE UNCHANGED doubt
      BY <1>5, <3>1
    <3>2. CASE Visit(c, todo, reached[c], FALSE)
      BY <1>5, <3>2 DEF Visit, LinkTypeOK
    <3> QED
      BY <2>0, <3>1, <3>2
  <2>2. Covers(c)
    BY <1>2, <2>1 DEF Sound
  <2>3. Dest(c) \in Nodes /\ current[c] \in Nodes /\ Source(c) \in Nodes
    BY DEF Dest, Source, DestOf, SourceOf, LinkTypeOK
  <2>4. \A n \in next : Reaches(before[c][Kind(c)], Dest(c), n)
    <3>1. TAKE n \in next
    <3>4. n \in Nodes /\ <<current[c], n>> \in E
      BY DEF Successors
    <3>2. Reaches(before[c][Kind(c)], Dest(c), current[c])
      BY <2>2 DEF Covers
    <3>3. <<current[c], n>> \in before[c][Kind(c)]
      BY <2>2, <3>4 DEF Covers
    <3> QED
      BY <2>3, <3>2, <3>3, <3>4, ReachesNext
  <2>5. CASE Source(c) \in next /\ EndLink(c, "relation_cycle")
    <3>1. Reaches(before[c][Kind(c)], Dest(c), Source(c))
      BY <2>4, <2>5
    <3> QED
      BY <1>3, <2>5, <3>1 DEF EndLink, LinkTypeOK, Sound, Refused
  <2>6. CASE Source(c) \notin next /\ Visit(c, todo, reached[c], FALSE)
    <3>1. Source(c) \notin reached[c] \cup frontier[c] \cup next
      BY <2>2, <2>6 DEF Covers
    <3>2. \A x \in reached[c], y \in Nodes : <<x, y>> \in E => y \in reached[c] \cup todo
      BY <2>2 DEF Covers, Successors
    <3>3. \A n \in reached[c] \cup todo : Reaches(before[c][Kind(c)], Dest(c), n)
      BY <2>2, <2>4 DEF Covers
    <3>4. Source(c) \notin reached[c] \cup todo
      BY <3>1
    <3> HIDE DEF todo
    <3>5. CASE todo = {} /\ LinkGoto(c, "post") /\ reached' = [reached EXCEPT ![c] = reached[c]]
      <4>1. linkPc'[c] = "post" /\ reached'[c] = reached[c]
        BY <3>5 DEF LinkGoto, LinkTypeOK
      <4>2. Closed(reached[c], E)
        BY <3>2, <3>5 DEF Closed
      <4>3. Separates(c)'
        BY <1>3, <2>2, <3>4, <4>1, <4>2 DEF Separates, Covers
      <4> QED
        BY <4>1, <4>3 DEF Sound
    <3>6. CASE \E n \in todo :
                 /\ current' = [current EXCEPT ![c] = n]
                 /\ reached' = [reached EXCEPT ![c] = reached[c] \cup {n}]
                 /\ frontier' = [frontier EXCEPT ![c] = todo \ {n}]
                 /\ LinkGoto(c, "read")
      <4>1. PICK n \in todo : /\ current'[c] = n
                              /\ reached'[c] = reached[c] \cup {n}
                              /\ frontier'[c] = todo \ {n}
                              /\ linkPc'[c] = "read"
        BY <3>6 DEF LinkGoto, LinkTypeOK
      <4>2. reached'[c] \cup frontier'[c] = reached[c] \cup todo
        BY <4>1
      <4>3. n \notin reached[c]
        BY DEF todo
      <4>4. reached'[c] \ {current'[c]} = reached[c]
        BY <4>1, <4>3
      <4>5. Covers(c)'
        BY <1>3, <2>2, <3>2, <3>3, <3>4, <4>1, <4>2, <4>4 DEF Covers
      <4> QED
        BY <4>1, <4>5 DEF Sound
    <3>7. \/ todo = {} /\ LinkGoto(c, "post") /\ reached' = [reached EXCEPT ![c] = reached[c]]
          \/ \E n \in todo :
                 /\ current' = [current EXCEPT ![c] = n]
                 /\ reached' = [reached EXCEPT ![c] = reached[c] \cup {n}]
                 /\ frontier' = [frontier EXCEPT ![c] = todo \ {n}]
                 /\ LinkGoto(c, "read")
      BY <1>5, <2>6 DEF Visit, LinkTypeOK
    <3> QED
      BY <3>5, <3>6, <3>7
  <2> QED
    BY <2>0, <2>5, <2>6
<1> QED
  BY <1>4, <1>5

\* The step in which c posts: if its walk was not in doubt, the new relation
\* closes no cycle.
LEMMA PostKeepsAcyclic ==
    ASSUME LinkTypeOK, NEW c \in Linkers, Sound(c), PostLink(c), NoCycles(edges), ~doubt[c],
           edges' = [edges EXCEPT ![Kind(c)] =
                        @ \cup {Stored(rel[c].type, rel[c].issue, rel[c].target)}]
    PROVE  NoCycles(edges')
<1> SUFFICES ASSUME NEW other \in Directed
             PROVE  Acyclic(edges'[KindOf(other)])
  BY DEF NoCycles
<1>1. rel[c].type \in AllowedTypes /\ KindOf(other) \in Kinds
  BY KindIsKind DEF LinkTypeOK, AllowedTypes, Directed, InverseKinds, ReverseOf, Kinds
<1>2. Acyclic(edges[KindOf(other)])
  BY DEF NoCycles
<1>3. CASE KindOf(other) # Kind(c)
  BY <1>1, <1>2, <1>3 DEF LinkTypeOK
<1>4. CASE KindOf(other) = Kind(c)
  <2>1. rel[c].type \in Directed
    BY <1>1, <1>4, UndirectedKind DEF Kind
  <2>2. Separates(c)
    BY DEF Sound, PostLink
  <2>3. Source(c) \in Nodes /\ Dest(c) \in Nodes /\ reached[c] \in SUBSET Nodes
    BY DEF Source, Dest, SourceOf, DestOf, LinkTypeOK
  <2>4. edges'[Kind(c)] = edges[Kind(c)] \cup {<<Source(c), Dest(c)>>}
    BY <1>1, <1>4, <2>1, DirectedStored DEF LinkTypeOK, Source, Dest
  <2>5. Acyclic(edges[Kind(c)] \cup {<<Source(c), Dest(c)>>})
    BY <1>2, <1>4, <2>1, <2>2, <2>3, AddKeepsAcyclic DEF Separates
  <2> QED
    BY <1>4, <2>4, <2>5
<1> QED
  BY <1>3, <1>4

\* The invariant holds at the start and is kept by every step.
THEOREM WalkInvariance == LinkSpec => []IInv
<1>1. LinkInit => IInv
  <2> SUFFICES ASSUME LinkInit PROVE IInv
    OBVIOUS
  <2>1. NoCycles(edges)
    BY RelationsAssumption DEF LinkInit
  <2>2. \A c \in Linkers : linkPc[c] = "idle" /\ linkAnswer[c] = "none"
    BY DEF LinkInit
  <2>3. \A c \in Linkers : Sound(c)
    BY <2>2 DEF Sound, Refused
  <2> QED
    BY <2>1, <2>3, InitTypes DEF IInv, CyclesNeedABlindWalk
<1>2. LinkTypeOK /\ LinkTypeOK' /\ IInv /\ [LinkNext]_linkVars => IInv'
  <2> SUFFICES ASSUME LinkTypeOK, LinkTypeOK', IInv, [LinkNext]_linkVars
               PROVE  CyclesNeedABlindWalk' /\ \A d \in Linkers : Sound(d)'
    BY DEF IInv
  <2>0. CyclesNeedABlindWalk /\ \A d \in Linkers : Sound(d)
    BY DEF IInv
  <2>1. ASSUME NEW c \in Linkers, NEW r \in Links, Begin(c, r)
        PROVE  CyclesNeedABlindWalk' /\ \A d \in Linkers : Sound(d)'
    <3>1. UNCHANGED <<edges, blind>>
      BY <2>1 DEF Begin
    <3>2. ASSUME NEW d \in Linkers, d # c PROVE Sound(d)'
      <4>1. /\ linkPc'[d] = linkPc[d] /\ rel'[d] = rel[d] /\ linkAnswer'[d] = linkAnswer[d]
            /\ before'[d] = before[d] /\ doubt'[d] = doubt[d]
        BY <2>1, <3>2 DEF Begin, EndLink, LinkGoto, LinkTypeOK
      <4>2. current'[d] = current[d] /\ reached'[d] = reached[d] /\ frontier'[d] = frontier[d]
        BY <2>1, <3>2 DEF Begin, walk, LinkTypeOK
      <4> QED
        BY <2>0, <3>1, <4>1, <4>2, Frame
    <3>3. Sound(c)'
      BY <2>1, BeginSound
    <3> QED
      BY <2>0, <3>1, <3>2, <3>3 DEF CyclesNeedABlindWalk, NoCycles
  <2>2. ASSUME NEW c \in Linkers, Read(c)
        PROVE  CyclesNeedABlindWalk' /\ \A d \in Linkers : Sound(d)'
    <3>1. UNCHANGED <<rel, before, edges, blind>>
      BY <2>2 DEF Read
    <3>2. ASSUME NEW d \in Linkers, d # c PROVE Sound(d)'
      <4>1. /\ linkPc'[d] = linkPc[d] /\ linkAnswer'[d] = linkAnswer[d] /\ doubt'[d] = doubt[d]
            /\ current'[d] = current[d] /\ reached'[d] = reached[d] /\ frontier'[d] = frontier[d]
        <5>1. CASE \E next \in {Successors(c), {}} :
                     Visit(c, (frontier[c] \cup next) \ reached[c], reached[c],
                           next # Successors(c))
          <6>1. PICK todo, unsure : Visit(c, todo, reached[c], unsure)
            BY <5>1
          <6> QED
            BY <3>2, <6>1 DEF Visit, LinkGoto, LinkTypeOK
        <5>2. CASE UNCHANGED walk /\ (LinkGoto(c, "post") \/ EndLink(c, "relation_cycle"))
                    /\ (UNCHANGED doubt \/ doubt' = [doubt EXCEPT ![c] = TRUE])
          BY <3>2, <5>2 DEF LinkGoto, EndLink, walk, LinkTypeOK
        <5> QED
          BY <2>2, <5>1, <5>2 DEF Read
      <4> QED
        BY <2>0, <3>1, <4>1, Frame
    <3>3. Sound(c)'
      BY <2>0, <2>2, ReadSound
    <3> QED
      BY <2>0, <3>1, <3>2, <3>3 DEF CyclesNeedABlindWalk, NoCycles
  <2>3. ASSUME NEW c \in Linkers, PostLink(c)
        PROVE  CyclesNeedABlindWalk' /\ \A d \in Linkers : Sound(d)'
    <3>1. UNCHANGED <<rel, current, reached, frontier, before>>
      BY <2>3 DEF PostLink, walk
    <3>2. linkPc'[c] = "idle" /\ linkAnswer'[c] # "relation_cycle"
      BY <2>3 DEF PostLink, EndLink, LinkTypeOK
    <3>3. Sound(c)'
      BY <3>2 DEF Sound, Refused
    <3>4. \A d \in Linkers : d # c => linkPc'[d] = linkPc[d] /\ linkAnswer'[d] = linkAnswer[d]
      BY <2>3 DEF PostLink, EndLink, LinkTypeOK
    <3>5. CASE UNCHANGED <<edges, doubt, blind>>
      <4>1. ASSUME NEW d \in Linkers, d # c PROVE Sound(d)'
        BY <2>0, <3>1, <3>4, <3>5, <4>1, Frame
      <4> QED
        BY <2>0, <3>3, <3>5, <4>1 DEF CyclesNeedABlindWalk, NoCycles
    <3>6. CASE /\ edges' = [edges EXCEPT ![Kind(c)] =
                        @ \cup {Stored(rel[c].type, rel[c].issue, rel[c].target)}]
               /\ doubt' = [d \in Linkers |-> doubt[d] \/ (d # c /\ linkPc[d] # "idle")]
               /\ blind' = (blind \/ doubt[c])
      <4>1. ASSUME NEW d \in Linkers, d # c PROVE Sound(d)'
        <5>1. CASE linkPc[d] = "idle"
          <6>1. doubt'[d] = doubt[d] /\ linkPc'[d] = "idle" /\ linkAnswer'[d] = linkAnswer[d]
            BY <3>4, <3>6, <4>1, <5>1 DEF LinkTypeOK
          <6>2. ~doubt[d] => Refused(d)
            BY <2>0, <5>1 DEF Sound
          <6>3. Refused(d) => Refused(d)'
            BY <3>1, <6>1 DEF Refused, Kind, Source, Dest
          <6> QED
            BY <6>1, <6>2, <6>3 DEF Sound
        <5>2. CASE linkPc[d] # "idle"
          BY <3>6, <4>1, <5>2 DEF Sound
        <5> QED
          BY <5>1, <5>2
      <4>2. CyclesNeedABlindWalk'
        <5>1. CASE blind \/ doubt[c]
          BY <3>6, <5>1 DEF CyclesNeedABlindWalk
        <5>2. CASE ~(blind \/ doubt[c])
          <6>1. NoCycles(edges)
            BY <2>0, <5>2 DEF CyclesNeedABlindWalk
          <6>2. NoCycles(edges')
            BY <2>0, <2>3, <3>6, <5>2, <6>1, PostKeepsAcyclic
          <6> QED
            BY <6>2 DEF CyclesNeedABlindWalk, NoCycles
        <5> QED
          BY <5>1, <5>2
      <4> QED
        BY <3>3, <4>1, <4>2
    <3> QED
      BY <2>3, <3>5, <3>6 DEF PostLink
  <2>4. ASSUME RemoveRelation
        PROVE  CyclesNeedABlindWalk' /\ \A d \in Linkers : Sound(d)'
    <3>1. UNCHANGED <<linkPc, rel, current, reached, frontier, linkAnswer, before, doubt, blind>>
      BY <2>4 DEF RemoveRelation, walk
    <3>2. \A k \in Kinds : edges'[k] \subseteq edges[k]
      BY <2>4 DEF RemoveRelation, LinkTypeOK
    <3>3. ASSUME NEW d \in Linkers PROVE Sound(d)'
      <4>1. Kind(d) \in Kinds
        BY KindIsKind DEF Kind, LinkTypeOK
      <4>2. Kind(d)' = Kind(d) /\ Source(d)' = Source(d) /\ Dest(d)' = Dest(d)
        BY <3>1 DEF Kind, Source, Dest
      <4>3. Sound(d) /\ edges'[Kind(d)] \subseteq edges[Kind(d)]
        BY <2>0, <3>2, <4>1
      <4>4. Covers(d) => Covers(d)'
        BY <3>1, <4>2, <4>3 DEF Covers
      <4>5. Separates(d) => Separates(d)'
        BY <3>1, <4>2, <4>3 DEF Separates, Closed
      <4>6. Refused(d) => Refused(d)'
        BY <3>1, <4>2 DEF Refused
      <4> QED
        BY <3>1, <4>3, <4>4, <4>5, <4>6 DEF Sound
    <3>4. \A type \in Directed : KindOf(type) \in Kinds
      BY KindIsKind DEF AllowedTypes, Directed, InverseKinds, ReverseOf, Kinds
    <3>5. CyclesNeedABlindWalk'
      BY <2>0, <3>1, <3>2, <3>4, RemoveKeepsAcyclic DEF CyclesNeedABlindWalk, NoCycles
    <3> QED
      BY <3>3, <3>5
  <2>5. ASSUME UNCHANGED linkVars
        PROVE  CyclesNeedABlindWalk' /\ \A d \in Linkers : Sound(d)'
    <3>1. UNCHANGED <<linkPc, rel, current, reached, frontier, linkAnswer, edges, before, doubt, blind>>
      BY <2>5 DEF linkVars, walk
    <3> QED
      BY <2>0, <3>1, Frame DEF CyclesNeedABlindWalk, NoCycles
  <2> QED
    BY <2>1, <2>2, <2>3, <2>4, <2>5 DEF LinkNext
<1> QED
  BY <1>1, <1>2, TypeCorrect, PTL DEF LinkSpec

\* A cycle of blocks or of precedes never arises through add_relation, unless
\* some addition's walk was cut short, misread a malformed answer, or was overtaken by
\* another addition.
THEOREM NoCycleUnseen == LinkSpec => []CyclesNeedABlindWalk
BY WalkInvariance, PTL DEF IInv

\* relation_cycle is answered only when the relation would have closed a cycle.
THEOREM RefusalsAreJustified == LinkSpec => []RefusalsAreTrue
<1>1. IInv => RefusalsAreTrue
  BY DEF IInv, Sound, Refused, RefusalsAreTrue
<1> QED
  BY <1>1, WalkInvariance, PTL
=============================================================================
