---------------------------- MODULE ActivityFeed ----------------------------
(***************************************************************************)
(* activity_feed (tools/activity.py): the sources of a project are read    *)
(* one after the other, each as far as it can be, and merged by time.      *)
(* Other users go on working between two requests.  A row is reduced to    *)
(* its day; formatting the events is left out.                             *)
(***************************************************************************)
EXTENDS Naturals, Sequences, FiniteSets

CONSTANTS
    Boards,         \* the forum boards of the project
    RowIds, LastDay,
    Projects,       \* what the sources may hold at first
    FeedRequests,   \* types, from, to (0: no bound), limit
    MaxPerSource,   \* max_per_source, and no more than Redmine's own limit
    MaxChanges      \* bound on what other users do

Types == {"issues", "news", "wiki", "forums", "time_entries", "files"}
Places == (Types \ {"forums"}) \cup Boards
Row == [id : RowIds, day : 1 .. LastDay]

ASSUME FeedAssumption ==
    /\ Boards \cap Types = {} /\ IsFiniteSet(RowIds) /\ LastDay \in Nat
    /\ MaxPerSource \in Nat \ {0} /\ MaxChanges \in Nat
    /\ Projects \subseteq [Places -> SUBSET Row]
    /\ FeedRequests \subseteq
        [types : Seq(Types) \ {<<>>}, from : 0 .. LastDay, to : 0 .. LastDay, limit : Nat \ {0}]

VARIABLES
    ask,        \* the request
    at,         \* "resolve", "source", "board", "done"
    turn,       \* the type that is read, an index of ask.types
    boards,     \* forums: the boards that are still to be read
    partial,    \* forums: the events of the boards read so far
    merged,     \* the events of the sources read so far
    sources,    \* for each type, whether it could be read, and its count
    feed,       \* the answer
    rows,       \* Redmine: the rows of every place
    quiet,      \* history: nobody changed a row, and no answer was malformed
    changes

reading == <<ask, at, turn, boards, partial, merged, sources, feed>>
feedVars == <<reading, rows, quiet, changes>>

NoFeed == [kind |-> "none", truncated |-> FALSE, events |-> {}]

\* The entry of a source in the answer.
Failed == [ok |-> FALSE, count |-> 0]
Counted(n) == [ok |-> TRUE, count |-> n]

FeedInit ==
    /\ ask \in FeedRequests
    /\ at = "resolve" /\ turn = 1 /\ boards = {} /\ partial = {} /\ merged = {}
    /\ sources = [t \in Types |-> Failed]
    /\ feed = NoFeed
    /\ rows \in Projects /\ quiet = TRUE /\ changes = 0

----------------------------------------------------------------------------
(***************************************************************************)
(* What one request brings.                                                *)
(***************************************************************************)
\* Mutant: the last day of the range is left out.
InRangeExclusive(r) ==
    (ask.from = 0 \/ r.day >= ask.from) /\ (ask.to = 0 \/ r.day < ask.to)

InRange(r) ==
    (ask.from = 0 \/ r.day >= ask.from) /\ (ask.to = 0 \/ r.day <= ask.to)

FirstOf(S) == {K \in SUBSET S : IF Cardinality(S) <= MaxPerSource THEN K = S
                                ELSE Cardinality(K) = MaxPerSource}

Newest(S) == {K \in FirstOf(S) : \A x \in K, y \in S \ K : x.day >= y.day}

Within(S) == {r \in S : InRange(r)}

\* What a collector may make of a place: issues and time entries are filtered
\* by Redmine and come newest first; news come newest first and are filtered
\* here; wiki pages come by title and are cut here; files come all; the messages
\* of a board come in an order of Redmine's.
Collected(p) ==
    CASE p \in {"issues", "time_entries"} -> Newest(Within(rows[p]))
      [] p = "news" -> {Within(K) : K \in Newest(rows[p])}
      [] p = "wiki" -> FirstOf(Within(rows[p]))
      [] p = "files" -> {Within(rows[p])}
      [] p \in Boards -> {Within(K) : K \in FirstOf(rows[p])}

Event(t, p, r) == [turn |-> t, place |-> p, row |-> r]

----------------------------------------------------------------------------
(***************************************************************************)
(* The steps of the call.                                                  *)
(***************************************************************************)

\* The limit newest of the events, by their timestamps: within a day, which is all that
\* a row is reduced to, any of them may be the newer.
Cut(E) ==
    {K \in SUBSET E :
        /\ Cardinality(K) = IF Cardinality(E) <= ask.limit THEN Cardinality(E) ELSE ask.limit
        /\ \A k \in K, e \in E \ K : k.row.day >= e.row.day}

\* The type of this turn is done; after the last one the events are merged.
EndTurn(report, events) ==
    /\ sources' = [sources EXCEPT ![ask.types[turn]] = report]
    /\ merged' = events
    /\ boards' = {} /\ partial' = {}
    /\ IF turn < Len(ask.types)
       THEN turn' = turn + 1 /\ at' = "source" /\ UNCHANGED feed
       ELSE /\ \E K \in Cut(events) :
                 feed' = [kind |-> "ok", truncated |-> Cardinality(events) > ask.limit, events |-> K]
            /\ at' = "done" /\ UNCHANGED turn
    /\ UNCHANGED ask

EndOk(new) == EndTurn(Counted(Cardinality(new)), merged \cup new)

\* A RedmineAPIError leaves nothing of its source in the feed.
EndError == EndTurn(Failed, merged)

\* The project is looked up; limit, max_per_source and the types are checked
\* before (FeedRequests has no request that fails these checks).
Resolve ==
    /\ at = "resolve"
    /\ \/ at' = "source" /\ UNCHANGED feed
       \/ /\ \E kind \in {"project_not_found", "api_error"} : feed' = [NoFeed EXCEPT !.kind = kind]
          /\ at' = "done"
    /\ UNCHANGED <<ask, turn, boards, partial, merged, sources, rows, quiet, changes>>

\* One request for a source other than the forums.
ReadSource ==
    /\ at = "source" /\ ask.types[turn] # "forums"
    /\ LET t == ask.types[turn] IN
       \/ EndError /\ UNCHANGED quiet
       \/ \E K \in Collected(t) : EndOk({Event(turn, t, r) : r \in K}) /\ UNCHANGED quiet
       \/ EndOk({}) /\ quiet' = FALSE
    /\ UNCHANGED <<rows, changes>>

ListBoards ==
    /\ at = "source" /\ ask.types[turn] = "forums"
    /\ \/ EndError /\ UNCHANGED quiet
       \/ /\ Boards # {} /\ at' = "board" /\ boards' = Boards
          /\ UNCHANGED <<ask, turn, partial, merged, sources, feed, quiet>>
       \/ EndOk({}) /\ quiet' = (quiet /\ Boards = {})
    /\ UNCHANGED <<rows, changes>>

ReadBoard ==
    /\ at = "board"
    /\ \E b \in boards :
        \/ EndError /\ UNCHANGED quiet
        \/ \E K \in Collected(b) \cup {{}} :
            LET found == partial \cup {Event(turn, b, r) : r \in K} IN
            /\ quiet' = (quiet /\ K \in Collected(b))
            /\ IF boards = {b} THEN EndOk(found)
               ELSE /\ boards' = boards \ {b} /\ partial' = found
                    /\ UNCHANGED <<ask, at, turn, merged, sources, feed>>
    /\ UNCHANGED <<rows, changes>>

\* Another user adds a row, touches it, or removes it.
RowsChange ==
    /\ at # "done" /\ changes < MaxChanges /\ changes' = changes + 1
    /\ \E p \in Places, r \in Row :
         \/ rows' = [rows EXCEPT ![p] = {x \in @ : x.id # r.id} \cup {r}]
         \/ rows' = [rows EXCEPT ![p] = @ \ {r}]
    /\ quiet' = FALSE
    /\ UNCHANGED reading

FeedNext == Resolve \/ ReadSource \/ ListBoards \/ ReadBoard \/ RowsChange

FeedSpec == FeedInit /\ [][FeedNext]_feedVars

----------------------------------------------------------------------------
(***************************************************************************)
(* Properties.                                                             *)
(***************************************************************************)
TypeOf(p) == IF p \in Boards THEN "forums" ELSE p

\* "from/to inclusive" (activity.py:23-24), as the caller reads it.
Inclusive(r) == r.day >= ask.from /\ (ask.to # 0 => r.day \in 1 .. ask.to)

AskedOnce(t) == Cardinality({k \in DOMAIN ask.types : ask.types[k] = t}) = 1

\* The feed and its sources map agree.  A type that failed, asked for once, has no
\* event in the feed, and the others' counts add up to their events.  On a project at
\* rest what is in range is in the feed, unless its source is reported as failed, has
\* more rows than are read, or the feed is called truncated and shows nothing older.
FeedAgreesWithSources ==
    feed.kind = "ok" =>
        /\ \A t \in Types : AskedOnce(t) =>
             LET shown == {e \in feed.events : TypeOf(e.place) = t} IN
             /\ ~sources[t].ok => shown = {}
             /\ sources[t].ok /\ ~feed.truncated => sources[t].count = Cardinality(shown)
        /\ quiet =>
             \A k \in DOMAIN ask.types, p \in Places :
                 TypeOf(p) = ask.types[k] /\ sources[ask.types[k]].ok
                     /\ Cardinality(rows[p]) <= MaxPerSource =>
                 \A r \in {x \in rows[p] : Inclusive(x)} :
                     \/ \E e \in feed.events : e.place = p /\ e.row = r
                     \/ feed.truncated /\ \A e \in feed.events : e.row.day >= r.day

=============================================================================
