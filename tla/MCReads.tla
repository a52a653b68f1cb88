------------------------------ MODULE MCReads ------------------------------
(* Lists of up to five rows in pages of two; a project with two boards and  *)
(* one row more than a source is read; two names for two ids; two projects, *)
(* one of them named like the other's identifier; texts of up to a hundred  *)
(* characters, of which every one, every second or every fifth is escaped.  *)
EXTENDS Reads, TLC
CONSTANTS b1, b2, n1, n2, i1, i2, c1, c2, web, app, other

Upto(n) == [i \in 1 .. n |-> i]
SomeLists == {Upto(n) : n \in 0 .. 5}
AllTools == {"time_report", "list_projects", "paginate"}

R(i, d) == [id |-> i, day |-> d]
Rows(news, wiki, m1, m2) ==
    [p \in Places |-> CASE p = "issues" -> {R(1, 1), R(2, 2)} [] p = "news" -> news
                        [] p = "wiki" -> wiki [] p = b1 -> m1 [] p = b2 -> m2 [] OTHER -> {R(1, 2)}]
SomeProjects ==
    {Rows({R(1, 3)}, {R(1, 1), R(2, 2), R(3, 3)}, {R(1, 2)}, {R(1, 3), R(2, 1)}),
     Rows({R(1, 1), R(2, 2), R(3, 3)}, {}, {}, {R(1, 3)})}

Feed(types, from, to, limit) == [types |-> types, from |-> from, to |-> to, limit |-> limit]
SomeFeeds ==
    {Feed(<<"forums", "news">>, 0, 0, 3), Feed(<<"issues", "forums">>, 2, 3, 5),
     Feed(<<"news", "wiki">>, 0, 2, 2), Feed(<<"issues", "issues">>, 0, 2, 5),
     Feed(<<"time_entries", "files">>, 1, 0, 5)}

SomeRegistries ==
    {[k \in Kinds3 |-> [i \in RefIds |-> IF i = i1 THEN n1 ELSE NoName]],
     [k \in Kinds3 |-> [i \in RefIds |-> IF i = i1 THEN n1 ELSE n2]]}

Ask(what, filters, q) == [op |-> what, filters |-> filters, queryId |-> q]
SomeSearches ==
    {Ask("describe", [tracker |-> r], FALSE) : r \in {n1, i2}}
    \cup {Ask("search", [tracker |-> Blank, custom_field |-> n2], q) : q \in BOOLEAN}
    \cup {Ask("search", [tracker |-> n1, status |-> n2, project |-> n1], TRUE),
          Ask("search", [status |-> i1, custom_field |-> n1, tracker |-> i2], FALSE)}

New(s, n) == [slug |-> s, name |-> n, version |-> 0]
\* project 2 carries project 1's identifier as its name
Confusing == {1 :> New(web, app) @@ 2 :> New(other, web)}
\* project 2 does not exist yet
OneProject == {1 :> New(web, app) @@ 2 :> Gone}
AnyStart == Confusing \cup OneProject

SomeTexts == {1, 9, 60, 99, 100} \X {1, 2, 5}
Length == [t \in SomeTexts |-> t[1]]
Escaped == [t \in SomeTexts |->
    [k \in 0 .. t[1] |-> k + Cardinality({i \in 1 .. k : i % t[2] = 0})]]
=============================================================================
