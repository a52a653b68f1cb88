--------------------------- MODULE MCIssueUpdate ---------------------------
(* Constants for model checking IssueUpdate. *)
EXTENDS IssueUpdate, TLC

CONSTANTS c1, c2, i1, i2, r1, r2, open, closed

\* r1 may close an open issue, r2 may not; nobody may reopen a closed one
MCWorkflow == {<<r1, open, closed>>, <<NoRole, open, closed>>}

Update(i, to, named, h) ==
    [op |-> "update", issue |-> i, byName |-> named, status |-> to, held |-> h,
     priority |-> FALSE]
Close(i, h) ==
    [op |-> "close", issue |-> i, byName |-> FALSE, status |-> NoStatus, held |-> h,
     priority |-> FALSE]

\* One issue is closed by name, by number and by close_issue, with the hold it has,
\* with a new one or with none; the other one is reopened, or asked for a status that
\* does not exist
SomeIssueCalls ==
    {[Update(i1, closed, TRUE, "clear") EXCEPT !.priority = TRUE],
     Update(i1, closed, FALSE, "set"), Close(i1, "keep"),
     Update(i2, open, TRUE, "keep"), Update(i2, UnknownName, TRUE, "keep")}

\* The first issue may be open, with or without a hold, or closed; the second one is
\* open or closed; the user has no role, one that may not close, or both
State(status, held) == [status |-> status, held |-> held]
SomeStarts ==
    [redmine : {(i1 :> s1) @@ (i2 :> s2) :
                   s1 \in {State(open, FALSE), State(open, TRUE), State(closed, FALSE)},
                   s2 \in {State(open, FALSE), State(closed, FALSE)}},
     roles : {{}, {r2}, {r1, r2}}]

Interchangeable == Permutations(Callers)
=============================================================================
