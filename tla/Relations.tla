----------------------------- MODULE Relations -----------------------------
(***************************************************************************)
(* add_relation with its cycle pre-check and remove_relation               *)
(* (tools/relations.py).  Calls of several callers interleave at every     *)
(* GET of the walk, so the graph may change under it.                      *)
(***************************************************************************)
EXTENDS Naturals, FiniteSets

CONSTANTS
    Linkers,    \* concurrent tool calls
    Nodes,
    Links,   \* what callers ask for: type (any word), issue, target
    Graphs,     \* the relations there may be when the calls begin, by kind
    MaxNodes,   \* _MAX_CYCLE_NODES
    MaxLinks    \* bound on the calls of one caller

Kinds == {"relates", "duplicates", "blocks", "precedes", "copied_to"}
ReverseOf ==
    [blocked |-> "blocks", follows |-> "precedes",
     duplicated |-> "duplicates", copied_from |-> "copied_to"]
InverseKinds == DOMAIN ReverseOf
AllowedTypes == Kinds \cup InverseKinds

Aliases ==
    [related_to |-> "relates", blocked_by |-> "blocked", duplicate_of |-> "duplicated",
     duplicated_by |-> "duplicates", copy_of |-> "copied_from"]

Unknown == "unknown"

NormalizeRelationType(raw) ==
    IF raw \in AllowedTypes THEN raw
    ELSE IF raw \in DOMAIN Aliases THEN Aliases[raw] ELSE Unknown

\* Redmine stores an inverse type as the direct one with its ends swapped.
KindOf(type) == IF type \in InverseKinds THEN ReverseOf[type] ELSE type

Stored(type, i, j) == IF type \in InverseKinds THEN <<j, i>> ELSE <<i, j>>

\* Mutant: the table forgets that the ends of an inverse type are swapped.
SourceUnswapped(type, i, j) == i

\* The ends of the edge that a directed type adds: _DIRECTED_EDGES.
SourceOf(type, i, j) == IF type \in {"blocked", "follows"} THEN j ELSE i
DestOf(type, i, j) == IF type \in {"blocked", "follows"} THEN i ELSE j

\* The types whose ends are pre-checked.
Directed == {"blocks", "blocked", "precedes", "follows"}

VARIABLES
    linkPc,         \* "idle", the GET or the POST a caller awaits
    rel,        \* the relation it adds: type, issue, target
    current,    \* the issue whose relations it reads
    reached,       \* the issues it has visited
    frontier,   \* the issues it has yet to visit
    linkAnswer,     \* its last answer
    linkCalls,      \* the calls it has made
    edges,      \* Redmine: the relations of each kind
    before,     \* history: the relations when its call began
    doubt,      \* history: its walk was cut short, misread or met a graph that grew
    blind       \* history: a relation was added on a walk in doubt

walk == <<current, reached, frontier>>
linkVars == <<linkPc, rel, walk, linkAnswer, linkCalls, edges, before, doubt, blind>>

Kind(c) == KindOf(rel[c].type)
Source(c) == SourceOf(rel[c].type, rel[c].issue, rel[c].target)
Dest(c) == DestOf(rel[c].type, rel[c].issue, rel[c].target)

----------------------------------------------------------------------------
(***************************************************************************)
(* Graphs.  A finite graph has a cycle when a nonempty set of nodes has a  *)
(* successor within the set for each of its nodes.  A node reaches another *)
(* when every set that is closed under the edges and holds the one holds   *)
(* the other.                                                              *)
(***************************************************************************)
Acyclic(E) ==
    \A S \in SUBSET Nodes : (\A x \in S : \E y \in S : <<x, y>> \in E) => S = {}

Closed(S, E) == \A x \in S, y \in Nodes : <<x, y>> \in E => y \in S

Reaches(E, a, b) == \A S \in SUBSET Nodes : a \in S /\ Closed(S, E) => b \in S

NoCycles(graph) == \A type \in Directed : Acyclic(graph[KindOf(type)])

ASSUME RelationsAssumption ==
    /\ Links \subseteq [type : STRING, issue : Nodes, target : Nodes]
    /\ Nodes # {} /\ MaxNodes \in Nat \ {0} /\ MaxLinks \in Nat
    /\ \A g \in Graphs : g \in [Kinds -> SUBSET (Nodes \X Nodes)] /\ NoCycles(g)

LinkInit ==
    /\ linkPc = [c \in Linkers |-> "idle"]
    /\ rel = [c \in Linkers |->
                [type |-> "relates", issue |-> CHOOSE i \in Nodes : TRUE,
                 target |-> CHOOSE i \in Nodes : TRUE]]
    /\ current = [c \in Linkers |-> CHOOSE i \in Nodes : TRUE]
    /\ reached = [c \in Linkers |-> {}]
    /\ frontier = [c \in Linkers |-> {}]
    /\ linkAnswer = [c \in Linkers |-> "none"]
    /\ linkCalls = [c \in Linkers |-> 0]
    /\ edges \in Graphs
    /\ before = [c \in Linkers |-> edges]
    /\ doubt = [c \in Linkers |-> FALSE]
    /\ blind = FALSE

----------------------------------------------------------------------------
(***************************************************************************)
(* The walk of _reaches, from Dest(c) in search of Source(c).              *)
(***************************************************************************)
EndLink(c, kind) ==
    linkPc' = [linkPc EXCEPT ![c] = "idle"] /\ linkAnswer' = [linkAnswer EXCEPT ![c] = kind]

LinkGoto(c, where) == linkPc' = [linkPc EXCEPT ![c] = where] /\ UNCHANGED linkAnswer

\* Visit one more issue of the frontier (which one comes first depends on the
\* order of Redmine's answers), unless there is none or too many were visited.
Visit(c, todo, visited, unsure) ==
    \/ /\ todo = {}
       /\ LinkGoto(c, "post")
       /\ reached' = [reached EXCEPT ![c] = visited]
       /\ frontier' = [frontier EXCEPT ![c] = {}]
       /\ doubt' = [doubt EXCEPT ![c] = @ \/ unsure]
       /\ UNCHANGED current
    \/ \E n \in todo :
        /\ current' = [current EXCEPT ![c] = n]
        /\ reached' = [reached EXCEPT ![c] = visited \cup {n}]
        /\ frontier' = [frontier EXCEPT ![c] = todo \ {n}]
        /\ LET capped == Cardinality(visited) + 1 > MaxNodes IN
           /\ LinkGoto(c, IF capped THEN "post" ELSE "read")
           /\ doubt' = [doubt EXCEPT ![c] = @ \/ unsure \/ capped]

\* add_relation up to its first request.
Begin(c, r) ==
    LET type == NormalizeRelationType(r.type)
        i == r.issue
        j == r.target
    IN
    /\ linkPc[c] = "idle" /\ linkCalls[c] < MaxLinks
    /\ linkCalls' = [linkCalls EXCEPT ![c] = @ + 1]
    /\ before' = [before EXCEPT ![c] = edges]
    /\ doubt' = [doubt EXCEPT ![c] = FALSE]
    /\ UNCHANGED <<edges, blind>>
    /\ \/ type = Unknown /\ EndLink(c, "relation_type_unknown") /\ UNCHANGED <<rel, walk>>
       \/ /\ type # Unknown
          /\ rel' = [rel EXCEPT ![c] = [type |-> type, issue |-> i, target |-> j]]
          /\ \/ type \notin Directed /\ LinkGoto(c, "post") /\ UNCHANGED walk
             \/ type \in Directed /\ i = j /\ EndLink(c, "relation_cycle") /\ UNCHANGED walk
             \/ /\ type \in Directed /\ i # j /\ LinkGoto(c, "read")
                /\ current' = [current EXCEPT ![c] = DestOf(type, i, j)]
                /\ reached' = [reached EXCEPT ![c] = {DestOf(type, i, j)}]
                /\ frontier' = [frontier EXCEPT ![c] = {}]

\* Mutant: relations are followed against their direction too.
ReadBothWays(c) ==
    LET next == {n \in Nodes : {<<current[c], n>>, <<n, current[c]>>} \cap edges[Kind(c)] # {}} IN
    /\ linkPc[c] = "read"
    /\ \/ LinkGoto(c, "post") /\ doubt' = [doubt EXCEPT ![c] = TRUE] /\ UNCHANGED walk
       \/ Source(c) \in next /\ EndLink(c, "relation_cycle") /\ UNCHANGED <<walk, doubt>>
       \/ /\ Source(c) \notin next
          /\ Visit(c, (frontier[c] \cup next) \ reached[c], reached[c], FALSE)
    /\ UNCHANGED <<rel, linkCalls, edges, before, blind>>

Successors(c) == {n \in Nodes : <<current[c], n>> \in edges[Kind(c)]}

\* GET /issues/:id/relations.json.  An issue that cannot be read ends the walk; an
\* answer that is no object counts as no relations, and the walk goes on.
Read(c) ==
    /\ linkPc[c] = "read"
    /\ \/ LinkGoto(c, "post") /\ doubt' = [doubt EXCEPT ![c] = TRUE] /\ UNCHANGED walk
       \/ \E next \in {Successors(c), {}} :
            \/ Source(c) \in next /\ EndLink(c, "relation_cycle") /\ UNCHANGED <<walk, doubt>>
            \/ /\ Source(c) \notin next
               /\ Visit(c, (frontier[c] \cup next) \ reached[c], reached[c],
                        next # Successors(c))
    /\ UNCHANGED <<rel, linkCalls, edges, before, blind>>

\* POST /issues/:id/relations.json: committed or not, acknowledged or not.
PostLink(c) ==
    /\ linkPc[c] = "post"
    /\ \/ EndLink(c, "api_error") /\ UNCHANGED <<edges, doubt, blind>>
       \/ /\ \E kind \in {"api_error", "created"} : EndLink(c, kind)
          /\ edges' = [edges EXCEPT ![Kind(c)] =
                          @ \cup {Stored(rel[c].type, rel[c].issue, rel[c].target)}]
          /\ doubt' = [d \in Linkers |-> doubt[d] \/ (d # c /\ linkPc[d] # "idle")]
          /\ blind' = (blind \/ doubt[c])
    /\ UNCHANGED <<rel, walk, linkCalls, before>>

\* DELETE /relations/:id.json by one of the callers, or in the web interface.
RemoveRelation ==
    /\ \E k \in Kinds : \E e \in edges[k] : edges' = [edges EXCEPT ![k] = @ \ {e}]
    /\ UNCHANGED <<linkPc, rel, walk, linkAnswer, linkCalls, before, doubt, blind>>

LinkNext ==
    \/ \E c \in Linkers, r \in Links : Begin(c, r)
    \/ \E c \in Linkers : Read(c) \/ PostLink(c)
    \/ RemoveRelation

LinkSpec == LinkInit /\ [][LinkNext]_linkVars

----------------------------------------------------------------------------
(***************************************************************************)
(* Properties.                                                             *)
(***************************************************************************)
\* Every variable keeps its type; only known relation types are ever sent.
LinkTypeOK ==
    /\ linkPc \in [Linkers -> {"idle", "read", "post"}]
    /\ rel \in [Linkers -> [type : AllowedTypes, issue : Nodes, target : Nodes]]
    /\ current \in [Linkers -> Nodes]
    /\ reached \in [Linkers -> SUBSET Nodes]
    /\ frontier \in [Linkers -> SUBSET Nodes]
    /\ linkAnswer \in [Linkers -> {"none", "relation_type_unknown", "relation_cycle",
                               "created", "api_error"}]
    /\ linkCalls \in [Linkers -> 0 .. MaxLinks]
    /\ edges \in [Kinds -> SUBSET (Nodes \X Nodes)]
    /\ before \in [Linkers -> [Kinds -> SUBSET (Nodes \X Nodes)]]
    /\ doubt \in [Linkers -> BOOLEAN]
    /\ blind \in BOOLEAN

\* The relations of a directed kind never form a cycle, unless one was added
\* on a walk that had been cut short, had taken a malformed answer for no relations, or
\* had been overtaken by another addition.
CyclesNeedABlindWalk == blind \/ NoCycles(edges)

\* A call is refused for a cycle only when the relation would close one in the
\* graph as it was when the call began, unless the graph has grown since or an answer
\* of the walk was malformed.
RefusalsAreTrue ==
    \A c \in Linkers : linkPc[c] = "idle" /\ linkAnswer[c] = "relation_cycle" /\ ~doubt[c] =>
        Reaches(before[c][Kind(c)], Dest(c), Source(c))

=============================================================================
