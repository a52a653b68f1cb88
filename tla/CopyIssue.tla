----------------------------- MODULE CopyIssue -----------------------------
(***************************************************************************)
(* copy_issue (tools/copy_issue.py): Redmine has no copy request, so the   *)
(* tool reads the source, posts a new issue, and replays its watchers, its *)
(* relations and, depth first, its subtasks, one request after the other.  *)
(* There is no transaction around them: any request may fail, with or      *)
(* without effect, and other users may move subtasks meanwhile.            *)
(***************************************************************************)
EXTENDS Naturals, Sequences, FiniteSets

CONSTANTS
    Issues, Root,   \* the issues there are; the one to copy
    Users,
    Options,        \* copy_watchers, copy_relations, copy_subtasks as asked
    Forests,        \* the subtasks each issue may have at first
    Watchers,       \* the watchers of each issue
    Relations,      \* the relations of each: the other end, which end it is
    MaxDepth,       \* _MAX_SUBTASK_DEPTH
    MaxMoves       \* bound on the moves of subtasks

Relation == [incoming : BOOLEAN, other : Issues]

ASSUME CopyAssumption ==
    /\ Root \in Issues /\ MaxDepth \in Nat /\ MaxMoves \in Nat
    /\ Options \subseteq [watchers : BOOLEAN, relations : BOOLEAN, subtasks : BOOLEAN]
    /\ Forests \subseteq [Issues -> SUBSET Issues]
    /\ Watchers \in [Issues -> SUBSET Users]
    /\ Relations \in [Issues -> SUBSET Relation]

VARIABLES
    option,     \* the options of the call
    copyPc,         \* "read", "post", "replay", "done"
    stack,      \* the activations of _copy_one: source as read, copy, what is left to do
    copied,     \* the counts of each activation
    outcome,     \* what the call returns
    children,   \* Redmine: the subtasks of every issue
    copies,     \* Redmine: the new issues: source, parent, watchers, relations
    unread,     \* history: subtasks skipped because they could not be read
    moves

copyServer == <<children, copies>>
copyVars == <<option, copyPc, stack, copied, outcome, copyServer, unread, moves>>

Zero == [watchers |-> 0, relations |-> 0, subtasks |-> 0]

CopyInit ==
    /\ option \in Options
    /\ copyPc = "read" /\ stack = <<>> /\ copied = <<>>
    /\ outcome = [kind |-> "none", copied |-> Zero]
    /\ children \in Forests
    /\ copies = <<>> /\ unread = {} /\ moves = 0

Top == stack[Len(stack)]
Depth == Len(stack) - 1
Below == SubSeq(stack, 1, Len(stack) - 1)

\* The RedmineAPIError of a request goes up through every activation.
Raise ==
    /\ copyPc' = "done" /\ outcome' = [kind |-> "api_error", copied |-> Zero]
    /\ UNCHANGED copied

----------------------------------------------------------------------------
(***************************************************************************)
(* Activations of _copy_one.                                               *)
(***************************************************************************)
\* Mutant: every subtask becomes a child of the first copy.
FlatParent == IF copies = <<>> THEN 0 ELSE 1

\* parent_issue_id of the issue that is posted next.
Parent == IF stack = <<>> THEN 0 ELSE Top.new

Activation(i) ==
    [src |-> i, new |-> 0, parent |-> Parent, watchers |-> Watchers[i],
     relations |-> Relations[i], children |-> children[i]]

MayDescend == Depth < MaxDepth

\* Watchers and relations that cannot be added are skipped.
Skip == UNCHANGED <<copyPc, copied, outcome>>

Count(field) ==
    /\ copied' = [copied EXCEPT ![Len(copied)][field] = @ + 1]
    /\ UNCHANGED <<copyPc, outcome>>

\* This activation returns; the first one's counts are the answer.
Finish ==
    /\ stack' = Below
    /\ copied' = SubSeq(copied, 1, Len(copied) - 1)
    /\ IF Below = <<>>
       THEN copyPc' = "done" /\ outcome' = [kind |-> "created", copied |-> copied[1]]
       ELSE copyPc' = "replay" /\ UNCHANGED outcome

----------------------------------------------------------------------------
(***************************************************************************)
(* The requests.                                                           *)
(***************************************************************************)
\* The source is read and the arguments are resolved and checked: any of this
\* may end the call before something is created.
ReadSource ==
    /\ copyPc = "read"
    /\ \/ /\ \E kind \in {"api_error", "issue_not_found", "project_not_found",
                          "tracker_not_found", "priority_not_found", "validation_failed"} :
                outcome' = [kind |-> kind, copied |-> Zero]
          /\ copyPc' = "done" /\ UNCHANGED <<stack, copied>>
       \/ /\ stack' = <<Activation(Root)>> /\ copied' = <<Zero>>
          /\ copyPc' = "post" /\ UNCHANGED outcome
    /\ UNCHANGED <<option, copyServer, unread, moves>>

\* POST /issues.json.  Without an id in the answer nothing can be replayed.
PostIssue ==
    /\ copyPc = "post"
    /\ \/ Raise /\ UNCHANGED <<stack, copies>>
       \/ /\ copies' = Append(copies, [src |-> Top.src, parent |-> Top.parent, depth |-> Depth,
                    watchers |-> {}, relations |-> {}, children |-> Top.children, acked |-> FALSE])
          /\ \/ Raise /\ UNCHANGED stack
             \/ Finish
       \/ /\ copies' = Append(copies, [src |-> Top.src, parent |-> Top.parent, depth |-> Depth,
                    watchers |-> {}, relations |-> {}, children |-> Top.children, acked |-> TRUE])
          /\ stack' = Append(Below, [Top EXCEPT !.new = Len(copies'),
                            !.watchers = IF option.watchers THEN @ ELSE {},
                            !.relations = IF option.relations THEN @ ELSE {},
                            !.children = IF option.subtasks /\ MayDescend THEN @ ELSE {}])
          /\ copyPc' = "replay" /\ UNCHANGED <<copied, outcome>>
    /\ UNCHANGED <<option, children, unread, moves>>

\* POST /issues/:id/watchers.json, in the order of the source.
PostWatcher ==
    /\ copyPc = "replay"
    /\ \E w \in Top.watchers :
        /\ stack' = Append(Below, [Top EXCEPT !.watchers = @ \ {w}])
        /\ \/ Skip /\ UNCHANGED copies
           \/ /\ copies' = [copies EXCEPT ![Top.new].watchers = @ \cup {w}]
              /\ Skip \/ Count("watchers")
    /\ UNCHANGED <<option, children, unread, moves>>

\* The relation that is posted: from the copy to the other end, whichever side
\* of it the source is on.
Replayed(r) == [incoming |-> FALSE, other |-> r.other]

PostRelation ==
    /\ copyPc = "replay" /\ Top.watchers = {}
    /\ \E r \in Top.relations :
        /\ stack' = Append(Below, [Top EXCEPT !.relations = @ \ {r}])
        /\ \/ Skip /\ UNCHANGED copies
           \/ /\ copies' = [copies EXCEPT ![Top.new].relations = @ \cup {Replayed(r)}]
              /\ Skip \/ Count("relations")
    /\ UNCHANGED <<option, children, unread, moves>>

\* GET of a subtask: an HTTP error raises, an empty answer skips the subtask.
ReadChild ==
    /\ copyPc = "replay" /\ Top.watchers = {} /\ Top.relations = {}
    /\ \E k \in Top.children :
        LET rest == [Top EXCEPT !.children = @ \ {k}] IN
        \/ Raise /\ UNCHANGED <<stack, unread>>
        \/ /\ stack' = Append(Below, rest)
           /\ unread' = unread \cup {k}
           /\ UNCHANGED <<copyPc, copied, outcome>>
        \/ /\ stack' = Below \o <<rest, Activation(k)>>
           /\ copied' = Append([copied EXCEPT ![Len(copied)].subtasks = @ + 1], Zero)
           /\ copyPc' = "post" /\ UNCHANGED <<outcome, unread>>
    /\ UNCHANGED <<option, copyServer, moves>>

Return ==
    /\ copyPc = "replay" /\ Top.watchers = {} /\ Top.relations = {} /\ Top.children = {}
    /\ Finish
    /\ UNCHANGED <<option, copyServer, unread, moves>>

\* While the copy is made another user makes an issue a subtask, of its own
\* descendants even.
Move ==
    /\ copyPc \in {"post", "replay"} /\ moves < MaxMoves /\ moves' = moves + 1
    /\ \E k, p \in Issues :
        children' = [i \in Issues |-> IF i = p THEN children[i] \cup {k} ELSE children[i] \ {k}]
    /\ UNCHANGED <<option, copyPc, stack, copied, outcome, copies, unread>>

CopyNext ==
    \/ ReadSource \/ PostIssue \/ PostWatcher \/ PostRelation \/ ReadChild \/ Return
    \/ Move

CopySpec == CopyInit /\ [][CopyNext]_copyVars

----------------------------------------------------------------------------
(***************************************************************************)
(* Properties.                                                             *)
(***************************************************************************)

\* "A self-referential subtask chain must not loop forever" (copy_issue.py:33):
\* whatever is moved during the call, no copy is more than MaxDepth below the
\* first, and each hangs below a copy of the issue its source was a subtask of.
MirrorsTheTree(n) ==
    \/ copies[n].depth = 0 /\ copies[n].parent = 0 /\ copies[n].src = Root
    \/ /\ copies[n].depth \in 1 .. MaxDepth
       /\ copies[n].parent \in 1 .. n - 1
       /\ copies[copies[n].parent].depth = copies[n].depth - 1
       /\ copies[n].src \in copies[copies[n].parent].children

\* Every subtask within MaxDepth that could be read has been copied below this copy.
IsWhole(n) ==
    copies[n].acked /\ copies[n].depth < MaxDepth =>
        \A k \in copies[n].children :
            k \in unread \/ \E m \in DOMAIN copies : copies[m].parent = n /\ copies[m].src = k

\* At any moment of a copy, and after one that failed, what has been made mirrors the
\* tree it was read from; a copy that is reported as created is whole as well.
CopiesAreFaithful ==
    \A n \in DOMAIN copies :
        MirrorsTheTree(n) /\ (outcome.kind = "created" /\ option.subtasks => IsWhole(n))

\* "Recreate the source's issue-relations on the copy" (copy_issue.py:151): a copy
\* is related to what its source is related to, and in the same way.
DirectionIsKept == \A n \in DOMAIN copies : copies[n].relations \subseteq Relations[copies[n].src]
=============================================================================
