------------------------------- MODULE Paging -------------------------------
(***************************************************************************)
(* The loops that read a whole Redmine list page by page: time_report      *)
(* (tools/time_entries.py), list_projects with a query (schema/project.py) *)
(* and RedmineClient.paginate (client.py).  Pages are cut by offset, and   *)
(* other users insert into the list and remove from it between two pages.  *)
(***************************************************************************)
EXTENDS Naturals, Sequences, FiniteSets, SequencesExt

CONSTANTS
    Items,          \* everything the list may ever hold
    Lists,          \* what it may hold when the call begins
    Tools,          \* the loops the run is about
    PageSize,       \* the most rows of one page: 100, or paginate's page_size
    MaxEntries,     \* time_report's max_entries
    PageCap,        \* list_projects' page_cap
    MaxEvents       \* bound on the changes of the list

ASSUME PagingAssumption ==
    /\ IsFiniteSet(Items) /\ Lists \subseteq {s \in Seq(Items) : IsInjective(s)}
    /\ Tools \subseteq {"time_report", "list_projects", "paginate"}
    /\ {PageSize, MaxEntries, PageCap} \subseteq Nat \ {0} /\ MaxEvents \in Nat

VARIABLES
    tool,       \* the loop that runs
    pc,         \* "page" while a page is awaited, "done"
    got,        \* the rows collected so far
    offset,     \* where the next page begins
    pages,      \* the pages read so far
    answer,     \* "none", "error", "complete", "truncated"
    list,       \* Redmine: the list, in its order
    initial,    \* history: the list when the call began
    grew, shrank, malformed,    \* history: what happened since
    events

call == <<tool, pc, got, offset, pages, answer>>
vars == <<call, list, initial, grew, shrank, malformed, events>>

Init ==
    /\ tool \in Tools /\ pc = "page"
    /\ got = <<>> /\ offset = 0 /\ pages = 0 /\ answer = "none"
    /\ list \in Lists /\ initial = list
    /\ grew = FALSE /\ shrank = FALSE /\ malformed = FALSE /\ events = 0

----------------------------------------------------------------------------
(***************************************************************************)
(* One turn of each loop, for the page and the total_count of an answer.   *)
(***************************************************************************)
Smaller(a, b) == IF a <= b THEN a ELSE b

PageOf(size) == SubSeq(list, offset + 1, Smaller(offset + size, Len(list)))

Finish(kind) == pc' = "done" /\ answer' = kind

GoOn == UNCHANGED <<pc, answer>>

Collect(page, next) ==
    /\ got' = got \o page /\ offset' = next /\ pages' = pages + 1
    /\ UNCHANGED tool

\* Mutant: the cap is looked at before the total.
ReportTurnCapFirst(page, total) ==
    /\ Collect(page, offset + Len(page))
    /\ IF Len(got') >= MaxEntries THEN Finish("truncated")
       ELSE IF page = <<>> \/ offset' >= total THEN Finish("complete") ELSE GoOn

\* time_report: the end of the list, or max_entries, whichever comes first.
ReportTurn(page, total) ==
    /\ Collect(page, offset + Len(page))
    /\ IF page = <<>> \/ offset' >= total THEN Finish("complete")
       ELSE IF Len(got') >= MaxEntries THEN Finish("truncated") ELSE GoOn

\* list_projects: the total, a short page, or page_cap pages.  (The answer does
\* not tell the last from the others.)
ProjectsTurn(page, total) ==
    /\ Collect(page, (pages + 1) * PageSize)
    /\ IF Len(got') >= total \/ Len(page) < PageSize THEN Finish("complete")
       ELSE IF pages' = PageCap THEN Finish("truncated") ELSE GoOn

\* Mutant: a page overlaps the one before it.
PaginateTurnOverlapping(page, total) ==
    /\ Collect(page, IF page = <<>> THEN offset ELSE offset + Len(page) - 1)
    /\ IF page = <<>> \/ offset' >= total \/ pages > Cardinality(Items)
       THEN Finish("complete") ELSE GoOn

\* paginate: an empty page, or the total.
PaginateTurn(page, total) ==
    /\ Collect(page, offset + Len(page))
    /\ IF page = <<>> \/ offset' >= total THEN Finish("complete") ELSE GoOn

\* time_report never asks for more rows than it still takes.
ReportSize == Smaller(PageSize, MaxEntries - Len(got))

Turn(page, total) ==
    \/ tool = "time_report" /\ ReportTurn(page, total)
    \/ tool = "list_projects" /\ ProjectsTurn(page, total)
    \/ tool = "paginate" /\ PaginateTurn(page, total)

\* A page arrives.
Page ==
    /\ pc = "page"
    /\ Turn(PageOf(IF tool = "time_report" THEN ReportSize ELSE PageSize), Len(list))
    /\ UNCHANGED <<list, initial, grew, shrank, malformed, events>>

\* The answer is not the object that was expected: taken for an empty page.
Malformed ==
    /\ pc = "page"
    /\ got' = got /\ offset' = offset /\ pages' = pages /\ tool' = tool
    /\ Finish("complete")
    /\ malformed' = TRUE
    /\ UNCHANGED <<list, initial, grew, shrank, events>>

\* A RedmineAPIError ends the call; no part of the list is returned.
Fails ==
    /\ pc = "page" /\ Finish("error")
    /\ UNCHANGED <<tool, got, offset, pages, list, initial, grew, shrank, malformed, events>>

----------------------------------------------------------------------------
(***************************************************************************)
(* Other users.                                                            *)
(***************************************************************************)
Change ==
    /\ pc = "page" /\ events < MaxEvents /\ events' = events + 1
    /\ UNCHANGED <<call, initial, malformed>>

Insert ==
    /\ Change
    /\ \E x \in Items \ (Range(list) \cup Range(initial)), i \in 1 .. Len(list) + 1 :
           list' = InsertAt(list, i, x)
    /\ grew' = TRUE /\ UNCHANGED shrank

Delete ==
    /\ Change
    /\ \E i \in DOMAIN list : list' = RemoveAt(list, i)
    /\ shrank' = TRUE /\ UNCHANGED grew

Next == Page \/ Malformed \/ Fails \/ Insert \/ Delete

Spec == Init /\ [][Next]_vars

----------------------------------------------------------------------------
(***************************************************************************)
(* Properties.                                                             *)
(***************************************************************************)

\* What the loop takes at most.
Budget == CASE tool = "time_report" -> MaxEntries
            [] tool = "list_projects" -> PageCap * PageSize
            [] tool = "paginate" -> Cardinality(Items)

\* On a list that nobody changes the result is its beginning up to the budget,
\* and time_report says "truncated" exactly when there is more.
QuietListsAreExact ==
    pc = "done" /\ answer # "error" /\ ~(grew \/ shrank \/ malformed) =>
        /\ got = SubSeq(initial, 1, Smaller(Budget, Len(initial)))
        /\ tool = "time_report" => (answer = "truncated") = (Len(initial) > Budget)

\* Only changes made between two pages cost a caller rows: none is counted twice
\* unless another was inserted, and a result that is not called truncated has every
\* row that was there all the time, unless another was removed.
PagesCostOnlyChanges ==
    /\ ~grew => IsInjective(got)
    /\ answer = "complete" /\ ~shrank /\ ~malformed => Range(initial) \subseteq Range(got)
=============================================================================
