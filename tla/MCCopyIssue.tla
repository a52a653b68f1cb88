---------------------------- MODULE MCCopyIssue ----------------------------
(* Two trees of three issues and one of an issue below itself, every option *)
(* on or off; the root has a watcher and is blocked by another issue.       *)
EXTENDS CopyIssue
CONSTANTS a, b, c, u1

Trees == {[i \in Issues |-> CASE i = a -> {b} [] i = b -> {c} [] OTHER -> {}],
          [i \in Issues |-> IF i = a THEN {b, c} ELSE {}],
          [i \in Issues |-> IF i = a THEN {a} ELSE {}]}
SomeWatchers == [i \in Issues |-> IF i = a THEN {u1} ELSE {}]
SomeRelations == [i \in Issues |->
    IF i = a THEN {[incoming |-> TRUE, other |-> b]} ELSE {}]
AnyOption == [watchers : BOOLEAN, relations : BOOLEAN, subtasks : BOOLEAN]
=============================================================================
