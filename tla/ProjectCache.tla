---------------------------- MODULE ProjectCache ----------------------------
(***************************************************************************)
(* schema/project.py and the project table of the cache, under the tool    *)
(* calls that server.py:_wrap runs: describing a project, resolving a      *)
(* reference to an id, and any write tool, after which the table is        *)
(* dropped.  One process; calls overtake each other at their awaits.       *)
(***************************************************************************)
EXTENDS Naturals, FiniteSets

CONSTANTS
    Calls,          \* tool calls of one server process
    Ids,            \* project ids, given out in increasing order
    Idents,         \* strings: identifiers (slugs) and display names
    Gone,           \* a project that Redmine does not have
    NoRow,
    StartProjects,       \* the projects Redmine may start with
    Overlap,        \* may calls overlap?
    Environment,    \* what other users do: "edit", "reuse"
    MaxVersion, MaxCalls   \* bounds on edits of a project and on calls

Project == [slug : Idents, name : Idents, version : 0..MaxVersion]

ASSUME ProjectAssumption ==
    /\ StartProjects \subseteq [Ids -> Project \cup {Gone}]
    /\ Gone \notin Project /\ Ids \subseteq Nat
    /\ Overlap \in BOOLEAN /\ Environment \subseteq {"edit", "reuse"}
    /\ MaxVersion \in Nat /\ MaxCalls \in Nat

VARIABLES
    redmine,   \* Redmine's projects
    table,     \* the projects table: [project, fresh] or NoRow
    callPc, op, ident, goal,   \* of each call: place, tool, reference, project to write
    replied,   \* ids and projects in the reply on its way
    result,    \* the set of <<id, project>> returned: empty or one
    floor,     \* history: project versions that a successful write acknowledged
    began,     \* history: floor when the call began
    raced,     \* history: a reply was on its way while the table was dropped
    calls

projectVars == <<redmine, table, callPc, op, ident, goal, replied, result, floor, began,
                 raced, calls>>

Ended == {"idle", "ok", "not_found", "api_error", "internal_error"}
Waiting == {"get", "got", "list", "listed", "write", "written"}

Live == {i \in Ids : redmine[i] # Gone}
\* The projects that have x as their slug or name, in Redmine now
Select(field, x) == {<<i, redmine[i]>> : i \in {j \in Live : redmine[j][field] = x}}

ProjectInit ==
    /\ redmine \in StartProjects
    /\ table = [i \in Ids |-> NoRow]
    /\ callPc = [c \in Calls |-> "idle"]
    /\ op = [c \in Calls |-> "describe"]
    /\ ident = [c \in Calls |-> CHOOSE x \in Idents : TRUE]
    /\ goal = [c \in Calls |-> CHOOSE i \in Ids : TRUE]
    /\ replied = [c \in Calls |-> {}]
    /\ result = [c \in Calls |-> {}]
    /\ floor = [i \in Ids |-> 0]
    /\ began = [c \in Calls |-> floor]
    /\ raced = FALSE
    /\ calls = 0

Goto(c, label) == callPc' = [callPc EXCEPT ![c] = label]

\* Rows of the table that get_project and get_project_by_name find
Cached(field, x) ==
    {<<i, table[i].project>> :
        i \in {j \in Ids : table[j] # NoRow /\ table[j].fresh /\ table[j].project[field] = x}}
CachedSlug(x) == Cached("slug", x)
CachedName(x) == Cached("name", x)

ClashesWithAny(i, p) == table[i] # NoRow   \* mutant: INSERT without ON CONFLICT
\* The upsert handles a conflict of ids; identifiers are UNIQUE as well
Clashes(i, p) == \E j \in Ids \ {i} : table[j] # NoRow /\ table[j].project.slug = p.slug

\* put_project, and the answer to the caller
StoreAndReturn(c, i, p) ==
    IF Clashes(i, p)
    THEN Goto(c, "internal_error") /\ UNCHANGED <<table, result>>
    ELSE /\ table' = [table EXCEPT ![i] = [project |-> p, fresh |-> TRUE]]
         /\ result' = [result EXCEPT ![c] = {<<i, p>>}]
         /\ Goto(c, "ok")

-----------------------------------------------------------------------------
(* Tool calls *)

MayBegin(c) ==
    /\ callPc[c] \in Ended /\ calls < MaxCalls
    /\ Overlap \/ \A d \in Calls : callPc[d] \in Ended
    /\ calls' = calls + 1
    /\ began' = [began EXCEPT ![c] = floor]

NameFirst(x) ==   \* mutant: the display name is tried before the slug
    IF CachedName(x) # {} THEN CachedName(x) ELSE CachedSlug(x)
Lookup(x) == CachedSlug(x)

\* describe_project and resolve_project_id: the cached slug, or ask
BeginRead(c) ==
    /\ MayBegin(c)
    /\ \E o \in {"describe", "resolve"}, x \in Idents :
        /\ op' = [op EXCEPT ![c] = o]
        /\ ident' = [ident EXCEPT ![c] = x]
        /\ IF Lookup(x) = {} THEN Goto(c, "get") /\ result' = [result EXCEPT ![c] = {}]
           ELSE /\ \E f \in Lookup(x) : result' = [result EXCEPT ![c] = {f}]
                /\ Goto(c, "ok")
    /\ UNCHANGED <<redmine, table, goal, replied, floor, raced>>

\* A write tool that reaches Redmine, on a project or something inside it
BeginWrite(c) ==
    /\ MayBegin(c)
    /\ \E i \in Live : goal' = [goal EXCEPT ![c] = i]
    /\ op' = [op EXCEPT ![c] = "write"]
    /\ result' = [result EXCEPT ![c] = {}]
    /\ Goto(c, "write")
    /\ UNCHANGED <<redmine, table, ident, replied, floor, raced>>

\* Redmine answers a GET; the reply is on its way
Answer(c) ==
    /\ \/ /\ callPc[c] = "get" /\ Goto(c, "got")
          /\ replied' = [replied EXCEPT ![c] = Select("slug", ident[c])]
       \/ /\ callPc[c] = "list" /\ Goto(c, "listed")
          /\ replied' = [replied EXCEPT ![c] = Select("name", ident[c])]
    /\ UNCHANGED <<redmine, table, op, ident, goal, result, floor, began, calls, raced>>

\* The reply to GET /projects/slug.json: store it, or fall back to names
Receive(c) ==
    /\ callPc[c] = "got"
    /\ IF replied[c] # {}
       THEN \E a \in replied[c] : StoreAndReturn(c, a[1], a[2])
       ELSE /\ UNCHANGED table
            /\ IF op[c] = "describe" THEN Goto(c, "not_found") /\ UNCHANGED result
               ELSE IF CachedName(ident[c]) = {} THEN Goto(c, "list") /\ UNCHANGED result
               ELSE /\ Goto(c, "ok")
                    /\ \E f \in CachedName(ident[c]) : result' = [result EXCEPT ![c] = {f}]
    /\ UNCHANGED <<redmine, op, ident, goal, replied, floor, began, calls, raced>>

\* The project list arrives: the first exact name
ReceiveList(c) ==
    /\ callPc[c] = "listed"
    /\ IF replied[c] # {}
       THEN \E a \in replied[c] : StoreAndReturn(c, a[1], a[2])
       ELSE Goto(c, "not_found") /\ UNCHANGED <<table, result>>
    /\ UNCHANGED <<redmine, op, ident, goal, replied, floor, began, calls, raced>>

Changed(i) == redmine' = [redmine EXCEPT ![i].version = @ + 1]

\* Redmine commits the write; its answer is on its way, or lost
Write(c) ==
    /\ callPc[c] = "write"
    /\ goal[c] \in Live /\ redmine[goal[c]].version < MaxVersion
    /\ Changed(goal[c])
    /\ replied' = [replied EXCEPT ![c] = {<<goal[c], redmine'[goal[c]]>>}]
    /\ Goto(c, "written") \/ Goto(c, "api_error")
    /\ UNCHANGED <<table, op, ident, goal, result, floor, began, calls, raced>>

KeepProjects == UNCHANGED table   \* mutant: no invalidation after a write
\* invalidate_projects
InvalidateProjects == table' = [i \in Ids |-> NoRow]

\* The tool returned without an error: _wrap drops the table
Return(c) ==
    /\ callPc[c] = "written"
    /\ InvalidateProjects
    /\ \E a \in replied[c] :
        floor' = [floor EXCEPT ![goal[c]] = IF a[2].version > @ THEN a[2].version ELSE @]
    /\ raced' = (raced \/ \E d \in Calls : callPc[d] \in {"got", "listed"})
    /\ Goto(c, "ok")
    /\ UNCHANGED <<redmine, op, ident, goal, replied, result, began, calls>>

\* The request failed, without effect in Redmine or in the cache
ApiError(c) ==
    /\ callPc[c] \in {"get", "got", "list", "listed", "write"}
    /\ Goto(c, "api_error")
    /\ UNCHANGED <<redmine, table, op, ident, goal, replied, result, floor, began, calls,
                   raced>>

-----------------------------------------------------------------------------
(* Other users, and time *)

Edit(i) ==
    /\ "edit" \in Environment /\ i \in Live /\ redmine[i].version < MaxVersion
    /\ Changed(i)
    /\ UNCHANGED <<table, callPc, op, ident, goal, replied, result, floor, began, calls, raced>>

\* A project is deleted and a new one, with a new id, gets its identifier
Recreate(i, j) ==
    /\ "reuse" \in Environment /\ i \in Live /\ \A k \in Live : k < j
    /\ redmine' = [redmine EXCEPT ![i] = Gone, ![j] = [redmine[i] EXCEPT !.version = 0]]
    /\ UNCHANGED <<table, callPc, op, ident, goal, replied, result, floor, began, calls, raced>>

\* A day passes: every row is stale
Age ==
    /\ table' = [i \in Ids |-> IF table[i] = NoRow THEN NoRow
                              ELSE [project |-> table[i].project, fresh |-> FALSE]]
    /\ UNCHANGED <<redmine, callPc, op, ident, goal, replied, result, floor, began, calls,
                   raced>>

Step(c) == Answer(c) \/ Receive(c) \/ ReceiveList(c) \/ Write(c) \/ Return(c) \/ ApiError(c)

ProjectNext == \/ \E c \in Calls : BeginRead(c) \/ BeginWrite(c) \/ Step(c)
        \/ \E i \in Ids : Edit(i) \/ \E j \in Ids : Recreate(i, j)
        \/ Age

ProjectSpec == ProjectInit /\ [][ProjectNext]_projectVars

-----------------------------------------------------------------------------
(* Properties *)

\* "drop the project cache so the next read refetches" (server.py:349-350): unless
\* a reply was on its way when a write dropped the table, a description asked for
\* after the write has returned is not older than the write.
ReadsSeeWrites ==
    \A c \in Calls : callPc[c] = "ok" /\ ~raced =>
        \A a \in result[c] : a[2].version >= began[c][a[1]]

\* A reference that is a project's identifier means that project, whatever other
\* projects are called and whichever of them are cached (project.py:147-158).
SlugBeatsName ==
    \A c \in Calls : callPc[c] = "ok" =>
        \A a \in result[c] :
            (\E i \in Live : redmine[i].slug = ident[c]) => a[2].slug = ident[c]

\* describe_project returns "a cached or freshly-fetched project description"
\* (project.py:33): it breaks down over its own cache only when the project in
\* the reply, or an older one, has been deleted.
CacheFailsOnlyOnReuse ==
    \A c \in Calls : callPc[c] = "internal_error" =>
        \E a \in replied[c], j \in Ids : j <= a[1] /\ redmine[j] = Gone
=============================================================================
