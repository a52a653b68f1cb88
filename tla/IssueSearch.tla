---------------------------- MODULE IssueSearch ----------------------------
(***************************************************************************)
(* search_issues (tools/issues.py) and describe_tracker                    *)
(* (schema/tracker.py): references to trackers, statuses and custom fields *)
(* are looked up in the schema cache, which is filled from Redmine on a    *)
(* miss and grows stale as an administrator renames and deletes.  A filter *)
(* that does not reach Redmine would widen the answer without a sign.      *)
(* The project filter is resolved by resolve_project_id, see ProjectCache. *)
(***************************************************************************)
EXTENDS Naturals, FiniteSets

CONSTANTS
    RefIds, Names,  \* numeric ids; names of trackers, statuses, fields
    NoName,         \* no such row
    Blank,          \* a tracker reference of blanks and commas only
    MaxAdmin,       \* bound on what the administrator does
    Registries,     \* the names Redmine may have at first, by kind and id
    Searches        \* what is asked: op, filters, queryId

Kinds3 == {"tracker", "status", "custom_field"}
FilterKinds == Kinds3 \cup {"project"}
References == RefIds \cup Names \cup {Blank}

\* Names are unique within a kind.
Distinct(table) == \A i, j \in RefIds : i # j /\ table[i] # NoName => table[i] # table[j]
Tables == {table \in [RefIds -> Names \cup {NoName}] : Distinct(table)}

ASSUME SearchAssumption ==
    /\ Registries \subseteq [Kinds3 -> Tables]
    /\ RefIds \cap Names = {} /\ NoName \notin References /\ Blank \notin RefIds \cup Names
    /\ MaxAdmin \in Nat
    /\ \A s \in Searches :
        /\ s.op \in {"search", "describe"} /\ s.queryId \in BOOLEAN
        /\ DOMAIN s.filters \subseteq FilterKinds
        /\ \A k \in DOMAIN s.filters : s.filters[k] \in References /\ (s.filters[k] = Blank => k = "tracker")
        /\ s.op = "describe" => "tracker" \in DOMAIN s.filters

VARIABLES
    wish,       \* the request
    step,       \* "begin", the kind to be resolved, "get", "statuses", "fields", "done"
    params,     \* the filters resolved so far, as they are sent
    outcome,    \* kind of answer, and the filter it is about
    names,      \* Redmine: the name of every id of every kind
    cached,     \* the rows of the cache
    statuses,   \* the issue_statuses list is cached and within its TTL
    stale,      \* the tracker rows that have outlived the TTL
    unreadable, \* history: a request of this call failed, or came malformed
    admin

searchVars == <<wish, step, params, outcome, names, cached, statuses, stale, unreadable, admin>>
others == <<names, admin>>

Outcome(kind, about) == [kind |-> kind, about |-> about]
Unset == Outcome("none", "none")

SearchInit ==
    /\ wish \in Searches /\ step = "begin" /\ params = <<>> /\ outcome = Unset
    /\ names \in Registries
    /\ cached = [k \in Kinds3 |-> [i \in RefIds |-> NoName]]
    /\ statuses = FALSE /\ stale = {} /\ unreadable = FALSE /\ admin = 0

----------------------------------------------------------------------------
(***************************************************************************)
(* The cache.                                                              *)
(***************************************************************************)
\* What a fetch leaves: issue_statuses is one list, the others are upserts by
\* id, which keep the rows of what Redmine no longer has.
Upserted(k, table) ==
    [i \in RefIds |-> IF k = "status" \/ names[k][i] # NoName THEN names[k][i] ELSE table[i]]

Fill(k) ==
    /\ cached' = [cached EXCEPT ![k] = Upserted(k, @)]
    /\ statuses' = (statuses \/ k = "status")
    /\ stale' = IF k = "tracker" THEN {i \in stale : names[k][i] = NoName} ELSE stale

\* An answer that is not the object that was expected is taken for an empty
\* list: an empty list of statuses is cached, the others keep their rows.
FillNothing(k) ==
    /\ cached' = IF k = "status" THEN [cached EXCEPT ![k] = [i \in RefIds |-> NoName]] ELSE cached
    /\ statuses' = (statuses \/ k = "status")
    /\ UNCHANGED stale

\* This call's fetch.
Refresh(k) ==
    \/ Fill(k) /\ UNCHANGED unreadable
    \/ FillNothing(k) /\ unreadable' = TRUE

KeepCache == UNCHANGED <<cached, statuses, stale>>

\* The ids a reference leads to, a number by the row it has; of two rows with one
\* name either may be found.
Hits(k, ref, table) ==
    {i \in RefIds : table[k][i] = ref \/ (i = ref /\ table[k][i] # NoName)}

\* Statuses are fetched when there is no list, the others on every miss.
MustFetch(k, ref) == IF k = "status" THEN ~statuses ELSE Hits(k, ref, cached) = {}

----------------------------------------------------------------------------
(***************************************************************************)
(* search_issues.                                                          *)
(***************************************************************************)
Done(kind, about) == step' = "done" /\ outcome' = Outcome(kind, about)

\* The filters are resolved in this order.
After(k) ==
    CASE k = "begin" -> "project" [] k = "project" -> "status" [] k = "status" -> "tracker"
      [] k = "tracker" -> "custom_field" [] k = "custom_field" -> "get"

Proceed == step' = After(step) /\ UNCHANGED outcome

Send(id) ==
    /\ params' = [k \in DOMAIN params \cup {step} |-> IF k = step THEN id ELSE params[k]]
    /\ Proceed

\* Mutant: a filter that cannot be resolved is left out.
DropFilter(k) == Proceed /\ UNCHANGED params

NotFound(k) == Done("not_found", k) /\ UNCHANGED params

FoundOrNot(k, table) ==
    \/ \E i \in Hits(k, wish.filters[k], table) : Send(i)
    \/ Hits(k, wish.filters[k], table) = {} /\ NotFound(k)

BeginSearch ==
    /\ step = "begin" /\ wish.op = "search"
    /\ IF wish.queryId /\ "custom_field" \in DOMAIN wish.filters
       THEN Done("query_id_conflicts_with_custom_fields", "none")
       ELSE Proceed
    /\ KeepCache /\ UNCHANGED <<wish, params, unreadable, others>>

\* A filter that needs no look-up: absent, a number, or a blank tracker.
Literal ==
    /\ step \in FilterKinds /\ KeepCache
    /\ \/ step \notin DOMAIN wish.filters /\ Proceed /\ UNCHANGED params
       \/ /\ step \in DOMAIN wish.filters
          /\ \/ wish.filters[step] \in RefIds /\ step # "tracker" /\ Send(wish.filters[step])
             \/ wish.filters[step] = Blank /\ Proceed /\ UNCHANGED params
    /\ UNCHANGED <<wish, unreadable, others>>

ResolveProject ==
    /\ step = "project" /\ step \in DOMAIN wish.filters /\ wish.filters[step] \in Names
    /\ \/ \E i \in RefIds : Send(i)
       \/ NotFound("project")
       \/ Done("api_error", "none") /\ UNCHANGED params
    /\ KeepCache /\ UNCHANGED <<wish, unreadable, others>>

\* The reference is looked up: a name, or a tracker, which arrives as a string.
Named(k) ==
    /\ step = k /\ k \in DOMAIN wish.filters
    /\ wish.filters[k] \in Names \/ (k = "tracker" /\ wish.filters[k] # Blank)

\* Mutant: a miss is final.
FromCacheAlways(k) ==
    /\ Named(k)
    /\ FoundOrNot(k, cached)
    /\ KeepCache /\ UNCHANGED <<wish, unreadable, others>>

FromCache(k) ==
    /\ Named(k) /\ ~MustFetch(k, wish.filters[k])
    /\ FoundOrNot(k, cached)
    /\ KeepCache /\ UNCHANGED <<wish, unreadable, others>>

\* The cache is filled and asked again.  A failed GET raises, except for the
\* custom fields, which only an administrator can read: their name is unknown.
FromRedmine(k) ==
    /\ Named(k) /\ MustFetch(k, wish.filters[k])
    /\ \/ Refresh(k) /\ FoundOrNot(k, cached')
       \/ /\ IF k = "custom_field" THEN NotFound(k)
                                   ELSE Done("api_error", "none") /\ UNCHANGED params
          /\ unreadable' = TRUE /\ KeepCache
    /\ UNCHANGED <<wish, others>>

GetIssues ==
    /\ step = "get"
    /\ \E kind \in {"ok", "api_error"} : Done(kind, "none")
    /\ KeepCache /\ UNCHANGED <<wish, params, unreadable, others>>

----------------------------------------------------------------------------
(***************************************************************************)
(* describe_tracker, up to its assertion that the row is there.            *)
(***************************************************************************)
\* A row that is present and within its TTL.
Fresh(i, table, old) == table["tracker"][i] # NoName /\ i \notin old

\* The row of the tracker is there, or the assertion fails.
Described(i, table, old) ==
    IF Fresh(i, table, old) THEN step' = "statuses" /\ UNCHANGED outcome
                            ELSE Done("assertion_failed", "tracker")

\* The tracker ids that a reference may be resolved to.
TrackerIds(ref, table) == IF ref \in RefIds THEN {ref} ELSE Hits("tracker", ref, table)

Describing == step = "begin" /\ wish.op = "describe"

DescribeCached ==
    /\ Describing
    /\ \E i \in TrackerIds(wish.filters["tracker"], cached) :
            Fresh(i, cached, stale) /\ Described(i, cached, stale)
    /\ KeepCache /\ UNCHANGED <<wish, params, unreadable, others>>

\* The reference, or a row within its TTL, is not there: GET /trackers.json.
DescribeFetched ==
    LET ref == wish.filters["tracker"]
        before == TrackerIds(ref, cached)
    IN
    /\ Describing
    /\ \/ /\ before = {} \/ \E i \in before : ~Fresh(i, cached, stale)
          /\ Done("api_error", "none") /\ KeepCache
          /\ UNCHANGED unreadable
       \/ /\ before = {} /\ Refresh("tracker")
          /\ \/ TrackerIds(ref, cached') = {} /\ Done("not_found", "tracker")
             \/ \E i \in TrackerIds(ref, cached') : Described(i, cached', stale')
       \/ \E i \in before :
            ~Fresh(i, cached, stale) /\ Refresh("tracker") /\ Described(i, cached', stale')
    /\ UNCHANGED <<wish, params, others>>

\* The global enumerations are fetched when the status list is missing.
DescribeStatuses ==
    /\ step = "statuses"
    /\ \/ statuses /\ KeepCache /\ step' = "fields" /\ UNCHANGED <<outcome, unreadable>>
       \/ ~statuses /\ Refresh("status") /\ step' = "fields" /\ UNCHANGED outcome
       \/ ~statuses /\ KeepCache /\ Done("api_error", "none") /\ UNCHANGED unreadable
    /\ UNCHANGED <<wish, params, others>>

\* The custom fields are fetched when there are none; a failure is ignored.
DescribeFields ==
    /\ step = "fields" /\ Done("ok", "tracker")
    /\ \/ KeepCache
       \/ (\A i \in RefIds : cached["custom_field"][i] = NoName) /\ Fill("custom_field")
    /\ UNCHANGED <<wish, params, unreadable, others>>

----------------------------------------------------------------------------
(***************************************************************************)
(* Other calls, time, and the administrator.                               *)
(***************************************************************************)
Elsewhere == step # "done" /\ UNCHANGED <<wish, step, params, outcome, unreadable>>

OtherCallFills(k) == Elsewhere /\ (Fill(k) \/ FillNothing(k)) /\ UNCHANGED others

Expires ==
    /\ Elsewhere /\ statuses' = FALSE
    /\ stale' = {i \in RefIds : cached["tracker"][i] # NoName}
    /\ UNCHANGED <<cached, others>>

CacheInvalidated ==
    /\ Elsewhere /\ statuses' = FALSE /\ stale' = {}
    /\ cached' = [k \in Kinds3 |-> [i \in RefIds |-> NoName]]
    /\ UNCHANGED others

\* A row is created, renamed or deleted.
AdminEdits ==
    /\ Elsewhere /\ admin < MaxAdmin /\ admin' = admin + 1
    /\ \E k \in Kinds3, i \in RefIds, n \in Names \cup {NoName} :
        /\ names' = [names EXCEPT ![k][i] = n]
        /\ names' # names /\ Distinct(names'[k])
    /\ KeepCache

SearchNext ==
    \/ BeginSearch \/ Literal \/ ResolveProject \/ GetIssues
    \/ \E k \in Kinds3 : FromCache(k) \/ FromRedmine(k)
    \/ DescribeCached \/ DescribeFetched \/ DescribeStatuses \/ DescribeFields
    \/ \E k \in Kinds3 : OtherCallFills(k)
    \/ Expires \/ CacheInvalidated \/ AdminEdits

SearchSpec == SearchInit /\ [][SearchNext]_searchVars

----------------------------------------------------------------------------
(***************************************************************************)
(* Properties.                                                             *)
(***************************************************************************)

\* "never a dropped filter" (tools/issues.py:1145): issues are asked for with
\* every filter of the call, each as a number, whatever the cache holds and
\* whatever is renamed meanwhile; a blank tracker reference is none.
NoFilterIsDropped ==
    (step = "get" \/ (outcome.kind = "ok" /\ wish.op = "search")) =>
        /\ DOMAIN params = {k \in DOMAIN wish.filters : wish.filters[k] # Blank}
        /\ \A k \in DOMAIN params : params[k] \in RefIds

\* What is called missing is missing.  A name is reported as unknown only when Redmine
\* has no such name at that moment, unless the cached status list is older than it; and
\* the assertion of describe_tracker (schema/tracker.py:93) fails only for a tracker
\* that Redmine does not have, however old the cache - unless a GET was refused or
\* answered malformed.
MissingIsTrue ==
    [][outcome = Unset =>
         /\ \A k \in Kinds3 : outcome' = Outcome("not_found", k) =>
                \/ Hits(k, wish.filters[k], names) = {}
                \/ k = "status" /\ statuses
                \/ unreadable'
         /\ outcome'.kind = "assertion_failed" =>
                \/ unreadable'
                \/ \E i \in TrackerIds(wish.filters["tracker"], cached') :
                       names["tracker"][i] = NoName]_searchVars

=============================================================================
