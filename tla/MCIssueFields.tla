--------------------------- MODULE MCIssueFields ---------------------------
(* A list field with two values that differ in case only, a text field and *)
(* a date; lists of up to two entries, every precedence between them and   *)
(* the parameters; issues that are held, not held, or without the field.   *)
EXTENDS IssueFields
CONSTANTS why, whyElse, hard, Hard, HARD, Easy, easy, odd, day

Lower == [v \in FieldValues |-> CASE v \in {hard, Hard, HARD} -> hard
                                  [] v \in {Easy, easy} -> easy [] OTHER -> v]
Listed == [f \in IssueField |-> IF f = Diff THEN {Hard, HARD, Easy, Unclassified} ELSE {}]

Entry(fs, keys, vs) == [field : fs, key : keys, named : BOOLEAN, value : vs]
SomeEntries ==
    LET h == Entry({Held}, {"int", "text", "none"}, {Empty, why})
        d == Entry({Diff}, {"int", "text"}, {hard, easy, HARD, odd})
    IN  {<<>>} \cup {<<e>> : e \in h \cup d}
        \cup {<<x, y>> : x \in h, y \in {e \in h : e.key = "int"}}
        \cup {<<x, y>> : x \in d, y \in {e \in h : ~e.named}}
Restart == [field |-> Until, key |-> "int", named |-> FALSE, value |-> Empty]

SomeFieldCalls ==
    [op : {"create", "update", "close"}, entries : SomeEntries, difficulty : {NotGiven, easy},
     held : {NotGiven, "clear", "flag", whyElse}, until : {NotGiven}, pinned : {{}, {Diff, Held}}]
    \cup [op : {"update"}, entries : {<<>>, <<Restart>>}, difficulty : {NotGiven},
          held : {"clear"}, until : {day}, pinned : {{}}]

SomeHad ==
    {[f \in IssueField |-> Empty],
     [f \in IssueField |-> IF f = Held THEN why ELSE Easy],
     [f \in IssueField |-> IF f = Held THEN Absent ELSE Empty]}
=============================================================================
