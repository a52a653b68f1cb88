------------------------------ MODULE MCWrites ------------------------------
(* Two callers, a path that is allowed, one that is not, and an allowed one *)
(* that is a symlink to it; two editors of                                  *)
(* one wiki page; the custom fields of MCIssueFields; the trees of          *)
(* MCCopyIssue; the relations of MCRelations, added by the two callers; the *)
(* time entries of MCTimeEntries; a read and a write, and Retry-After       *)
(* headers that are past, short and excessive.                              *)
EXTENDS Writes, MCIssueFields, MCCopyIssue, MCRelations, MCTimeEntries, TLC
CONSTANTS inside, outside, link, img, doc, e1, e2, q1, q2

OwnNames == [p \in Paths |-> IF p = inside THEN "a" ELSE "b"]
LinkLeadsOut == [p \in Paths |-> IF p = link THEN outside ELSE p]
Ask(op, p, issue, over) == [op |-> op, path |-> p, toIssue |-> issue, overwrite |-> over]
AnyRequest ==
    {Ask("upload", inside, i, FALSE) : i \in BOOLEAN}
    \cup {Ask("upload", outside, TRUE, FALSE), Ask("view", outside, FALSE, FALSE)}
    \cup {Ask("download", inside, FALSE, o) : o \in BOOLEAN}
    \cup {Ask("download", outside, FALSE, TRUE), Ask("download", link, FALSE, FALSE)}

ReadAndWrite == (q1 :> "GET") @@ (q2 :> "PUT")
Headers == {-4, 3, 1000}

\* The callers, and the editors, differ in nothing but their name
Alike == Permutations({c1, c2}) \cup Permutations({e1, e2})
=============================================================================
