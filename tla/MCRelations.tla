---------------------------- MODULE MCRelations ----------------------------
(* A tree of four issues that block each other, and                         *)
(* additions that extend it, close a cycle, or close one with each other.   *)
EXTENDS Relations
CONSTANTS c1, c2, i1, i2, i3, i4

Only(kind, E) == [k \in Kinds |-> IF k = kind THEN E ELSE {}]
Tree == {Only("blocks", {<<i1, i2>>, <<i2, i3>>, <<i1, i4>>})}

Add(i, type, j) == [type |-> type, issue |-> i, target |-> j]
SomeRequests ==
    {Add(i3, "blocks", i4), Add(i3, "blocked_by", i4),
     Add(i1, "blocked_by", i3), Add(i2, "related_to", i3),
     Add(i2, "blocks", i2), Add(i1, "sibling", i2)}
=============================================================================
