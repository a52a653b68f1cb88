--------------------------- MODULE MCTimeEntries ---------------------------
(* Two activities and three names; entries by number, by name, with an      *)
(* unknown name and without an activity; hours of every form; batches of up *)
(* to two entries, and one that is too large.                               *)
EXTENDS TimeEntries
CONSTANTS act1, act2, dev, ops, test

Clock(neg, h, m) == [form |-> "clock", neg |-> neg, h |-> h, m |-> m]
Number(neg, h, m) == [form |-> "number", neg |-> neg, h |-> h, m |-> m]
AnHour == Clock(FALSE, 1, 0)

OneEntry(place, hours, ref) ==
    [target |-> place, hours |-> hours, other |-> FALSE, activity |-> ref]

\* Every form of hours, every place, every way to name an activity.
SomeHours ==
    {Unsaid, Clock(FALSE, 2, 30), Clock(TRUE, 0, 30), Clock(TRUE, 1, 0), Clock(FALSE, 0, 60),
     Number(FALSE, 2, 30), Number(TRUE, 0, 0), Number(TRUE, 0, 15),
     [form |-> "neither", neg |-> FALSE, h |-> 0, m |-> 0]}
Single ==
    {OneEntry("issue", hours, act1) : hours \in SomeHours}
    \cup {OneEntry(place, AnHour, Unsaid) : place \in Target}
    \cup {OneEntry("issue", AnHour, ref) : ref \in {act2, dev, ops, test}}
Pairs ==
    LET First == {Junk, OneEntry("none", AnHour, Unsaid), OneEntry("issue", AnHour, dev)}
        Second == {OneEntry("both", AnHour, ops), OneEntry("issue", AnHour, act1)}
    IN  {<<x, y>> : x \in First, y \in Second}
Triple == <<Junk, Junk, OneEntry("issue", AnHour, Unsaid)>>

TimeCall(op, specs, stop, default) ==
    [op |-> op, specs |-> specs, stop |-> stop, default |-> default]
SomeTimeCalls ==
    {TimeCall("create", <<s>>, FALSE, default) : s \in Single, default \in BOOLEAN}
    \cup {TimeCall("update", <<[s EXCEPT !.other = other]>>, FALSE, FALSE) :
            s \in Single \cup {OneEntry("none", Unsaid, Unsaid)}, other \in BOOLEAN}
    \cup {TimeCall("bulk", specs, stop, FALSE) :
            specs \in Pairs \cup {<<>>, Triple}, stop \in BOOLEAN}
    \cup {TimeCall("delete", <<>>, FALSE, FALSE)}

TwoActivities == {[i \in ActivityIds |-> IF i = act1 THEN dev ELSE ops]}
=============================================================================
