---------------------------- MODULE TimeEntries ----------------------------
(***************************************************************************)
(* create_time_entry, update_time_entry, delete_time_entry and             *)
(* bulk_create_time_entries (tools/time_entries.py): one call, whose       *)
(* activities are looked up by name in a cached list, while an             *)
(* administrator renames and removes activities, the list expires or is    *)
(* fetched by another call, and other users delete time entries.           *)
(***************************************************************************)
EXTENDS Integers, Sequences, FiniteSets

CONSTANTS
    ActivityIds, ActivityNames,
    Gone,           \* Redmine has no activity of this id (any longer)
    NoList,         \* there is no time_entry_activities list in the cache
    Unsaid,         \* the argument is not given
    Junk,           \* an element of a batch that is not an object
    MaxBatch,       \* the entries a batch may have
    MaxTimeEvents,  \* bound on what others do
    Activities,     \* the activities Redmine may have at first
    TimeCalls       \* what is asked: op, specs, stop_on_error, a default issue

\* Names of activities are unique.
ActivityTables ==
    {t \in [ActivityIds -> ActivityNames \cup {Gone}] :
        \A i, j \in ActivityIds : i # j /\ t[i] # Gone => t[i] # t[j]}
Nothing == [i \in ActivityIds |-> Gone]

\* Hours as they are written: "H:MM", a number, or neither.
Hours == [form : {"clock", "number", "neither"}, neg : BOOLEAN, h : Nat, m : Nat]

\* What is said of a time entry; an empty argument is one that is not given.
Target == {"issue", "project", "both", "none"}
EntrySpec == [target : Target, hours : Hours \cup {Unsaid}, other : BOOLEAN,
              activity : ActivityIds \cup ActivityNames \cup {Unsaid}]

ASSUME TimeAssumption ==
    /\ Activities \subseteq ActivityTables /\ Activities # {}
    /\ NoList \notin ActivityTables /\ Gone \notin ActivityNames
    /\ ActivityIds \cap ActivityNames = {}
    /\ Unsaid \notin ActivityIds \cup ActivityNames \cup Hours
    /\ Junk \notin EntrySpec
    /\ MaxBatch \in Nat /\ MaxTimeEvents \in Nat
    /\ \A call \in TimeCalls :
        /\ call.op \in {"create", "bulk", "update", "delete"}
        /\ call.stop \in BOOLEAN /\ call.default \in BOOLEAN
        /\ call.specs \in Seq(EntrySpec \cup {Junk})
        /\ call.op \in {"create", "update"} => Len(call.specs) = 1 /\ call.specs[1] # Junk
        /\ call.op = "delete" => call.specs = <<>>

VARIABLES
    timeCall,       \* the call
    timePc,         \* "begin", "item", the request it awaits, "done"
    item,           \* the entry of the batch it is at
    activityId,     \* the activity_id of its payload
    report,         \* the results so far
    timeAnswer,     \* what the call returns
    activityList,   \* the cached list
    activities,     \* Redmine: the name of every activity
    logged,         \* Redmine: the time entries; the first is there at the start
    bore,           \* history: the names each activity has had
    timeEvents

timeRedmine == <<activities, logged, bore>>
timeVars == <<timeCall, timePc, item, activityId, report, timeAnswer, activityList,
              timeRedmine, timeEvents>>

Existing ==
    [item |-> 0, on |-> "issue", minutes |-> 60, activity |-> Unsaid, live |-> TRUE]

TimeInit ==
    /\ timeCall \in TimeCalls /\ timePc = "begin" /\ item = 1 /\ activityId = Unsaid
    /\ report = <<>> /\ timeAnswer = "none"
    /\ activities \in Activities /\ activityList = NoList
    /\ logged = <<Existing>>
    /\ bore = [i \in ActivityIds |-> {activities[i]}]
    /\ timeEvents = 0

ThisEntry == timeCall.specs[item]

----------------------------------------------------------------------------
(***************************************************************************)
(* Checks that need no request.                                            *)
(***************************************************************************)
Invalid == -1

\* parse_hours.  int("-0") is 0, so that the sign of "-0:30" is lost.
Minutes(given) ==
    LET size == 60 * given.h + given.m IN
    IF \/ given.form = "neither"
       \/ given.form = "clock" /\ ((given.neg /\ given.h > 0) \/ given.m > 59)
       \/ given.form = "number" /\ given.neg /\ size > 0
    THEN Invalid ELSE size

\* None is no hours value either.
HoursAreValid(given) == given # Unsaid /\ Minutes(given) # Invalid

\* An issue wins over a project, and either over the default issue.
Place(s) ==
    CASE s.target \in {"issue", "both"} -> "issue"
      [] s.target = "project" -> "project"
      [] s.target = "none" -> IF timeCall.default THEN "default" ELSE "nowhere"

----------------------------------------------------------------------------
(***************************************************************************)
(* The end of an entry, and of the call.                                   *)
(***************************************************************************)
Done(answer) == timePc' = "done" /\ timeAnswer' = answer

\* An exception leaves the tool, with the results of a batch so far.
RaiseOut == Done("api_error") /\ UNCHANGED <<item, report>>

\* The result of this entry; a batch goes on with the next one, unless it is to
\* stop on errors.
Result(kind) ==
    /\ report' = Append(report, kind)
    /\ IF timeCall.op # "bulk" THEN Done(kind) /\ UNCHANGED item
       ELSE IF item = Len(timeCall.specs) \/ (timeCall.stop /\ kind # "created")
            THEN Done("report") /\ UNCHANGED item
            ELSE timePc' = "item" /\ item' = item + 1 /\ UNCHANGED timeAnswer

\* The payload is complete.
SendEntry(id) ==
    /\ activityId' = id
    /\ timePc' = IF timeCall.op = "update" THEN "put" ELSE "post"
    /\ UNCHANGED <<item, report, timeAnswer>>

\* Mutant: an activity that is not found is left out.
FindElseNone(name, list) ==
    \/ \E i \in ActivityIds : list[i] = name /\ SendEntry(i)
    \/ (\A i \in ActivityIds : list[i] # name) /\ SendEntry(Unsaid)

\* A name is compared with the list; it is not fetched anew when it is not there.
FindActivity(name, list) ==
    \/ \E i \in ActivityIds : list[i] = name /\ SendEntry(i)
    \/ /\ \A i \in ActivityIds : list[i] # name
       /\ Result("activity_not_found") /\ UNCHANGED activityId

\* _resolve_activity_id, up to its request: a number stands for itself.
ResolveActivity(ref) ==
    \/ ref \in ActivityIds \cup {Unsaid} /\ SendEntry(ref)
    \/ ref \in ActivityNames /\ activityList # NoList /\ FindActivity(ref, activityList)
    \/ /\ ref \in ActivityNames /\ activityList = NoList
       /\ timePc' = "lookup" /\ UNCHANGED <<item, activityId, report, timeAnswer>>

----------------------------------------------------------------------------
(***************************************************************************)
(* Actions.                                                                *)
(***************************************************************************)
BeginTime ==
    /\ timePc = "begin"
    /\ \/ /\ timeCall.op = "bulk" /\ Len(timeCall.specs) > MaxBatch
          /\ Done("batch_too_large")
       \/ /\ timeCall.op = "bulk" /\ timeCall.specs = <<>>
          /\ Done("report")
       \/ /\ timeCall.specs # <<>> /\ (timeCall.op = "bulk" => Len(timeCall.specs) <= MaxBatch)
          /\ timePc' = "item" /\ UNCHANGED timeAnswer
       \/ /\ timeCall.op = "delete"
          /\ timePc' = "delete" /\ UNCHANGED timeAnswer
    /\ UNCHANGED <<timeCall, item, activityId, report, activityList, timeRedmine, timeEvents>>

\* create_time_entry for the next entry of the batch, or for the only one.
CreateTimeEntry ==
    /\ timePc = "item" /\ timeCall.op # "update"
    /\ \/ ThisEntry = Junk /\ Result("entry_not_object") /\ UNCHANGED activityId
       \/ /\ ThisEntry # Junk /\ Place(ThisEntry) = "nowhere"
          /\ Result("required_field_missing") /\ UNCHANGED activityId
       \/ /\ ThisEntry # Junk /\ Place(ThisEntry) # "nowhere" /\ ~HoursAreValid(ThisEntry.hours)
          /\ Result("hours_invalid") /\ UNCHANGED activityId
       \/ /\ ThisEntry # Junk /\ Place(ThisEntry) # "nowhere" /\ HoursAreValid(ThisEntry.hours)
          /\ ResolveActivity(ThisEntry.activity)
    /\ UNCHANGED <<timeCall, activityList, timeRedmine, timeEvents>>

\* update_time_entry: what is not given is left as it is.
UpdateTimeEntry ==
    /\ timePc = "item" /\ timeCall.op = "update"
    /\ \/ /\ ThisEntry.hours # Unsaid /\ ~HoursAreValid(ThisEntry.hours)
          /\ Result("hours_invalid") /\ UNCHANGED activityId
       \/ /\ ThisEntry.hours = Unsaid /\ ThisEntry.activity = Unsaid /\ ~ThisEntry.other
          /\ Result("nothing_to_update") /\ UNCHANGED activityId
       \/ /\ ThisEntry.hours = Unsaid \/ HoursAreValid(ThisEntry.hours)
          /\ ThisEntry.hours # Unsaid \/ ThisEntry.activity # Unsaid \/ ThisEntry.other
          /\ ResolveActivity(ThisEntry.activity)
    /\ UNCHANGED <<timeCall, activityList, timeRedmine, timeEvents>>

\* refresh_global_enumerations: four requests, and when one fails the exception is
\* not the tool's to catch; an answer that is no object counts as an empty list.
LookUp ==
    /\ timePc = "lookup"
    /\ \/ RaiseOut /\ UNCHANGED <<activityId, activityList>>
       \/ \E list \in {activities, Nothing} :
            activityList' = list /\ FindActivity(ThisEntry.activity, list)
    /\ UNCHANGED <<timeCall, timeRedmine, timeEvents>>

\* Redmine accepts an activity that it has, or none.
Accepts(id) == id \in ActivityIds => activities[id] # Gone

\* POST /time_entries.json: refused, or committed and acknowledged or not.
PostTimeEntry ==
    /\ timePc = "post"
    /\ \/ Result("api_error") /\ UNCHANGED logged
       \/ /\ Accepts(activityId)
          /\ logged' = Append(logged, [item |-> item, on |-> Place(ThisEntry), activity |-> activityId,
                                       minutes |-> Minutes(ThisEntry.hours), live |-> TRUE])
          /\ \E kind \in {"api_error", "created"} : Result(kind)
    /\ UNCHANGED <<timeCall, activityId, activityList, activities, bore, timeEvents>>

\* PUT /time_entries/:id.json; a re-fetch follows.
PutTimeEntry ==
    /\ timePc = "put"
    /\ \/ Result("api_error") /\ UNCHANGED logged
       \/ /\ Accepts(activityId) /\ logged[1].live
          /\ logged' = [logged EXCEPT
                ![1].minutes = IF ThisEntry.hours = Unsaid THEN @ ELSE Minutes(ThisEntry.hours),
                ![1].activity = IF activityId = Unsaid THEN @ ELSE activityId]
          /\ \/ Result("api_error")
             \/ timePc' = "refetch" /\ UNCHANGED <<item, report, timeAnswer>>
    /\ UNCHANGED <<timeCall, activityId, activityList, activities, bore, timeEvents>>

RefetchTimeEntry ==
    /\ timePc = "refetch"
    /\ Result("api_error") \/ (logged[1].live /\ Result("updated"))
    /\ UNCHANGED <<timeCall, activityId, activityList, timeRedmine, timeEvents>>

DeleteTimeEntry ==
    /\ timePc = "delete"
    /\ \/ Result("api_error") /\ UNCHANGED logged
       \/ /\ logged[1].live /\ logged' = [logged EXCEPT ![1].live = FALSE]
          /\ \E kind \in {"api_error", "deleted"} : Result(kind)
    /\ UNCHANGED <<timeCall, activityId, activityList, activities, bore, timeEvents>>

----------------------------------------------------------------------------
(***************************************************************************)
(* What others do meanwhile.                                               *)
(***************************************************************************)
Meanwhile ==
    /\ timeEvents < MaxTimeEvents /\ timeEvents' = timeEvents + 1
    /\ UNCHANGED <<timeCall, timePc, item, activityId, report, timeAnswer>>

\* An administrator renames or removes activities.
ActivitiesChange ==
    /\ Meanwhile
    /\ activities' \in ActivityTables \ {activities}
    /\ bore' = [i \in ActivityIds |-> bore[i] \cup {activities'[i]}]
    /\ UNCHANGED <<activityList, logged>>

\* The list outlives its TTL or is dropped, or another call fetches it.
ListChanges ==
    /\ Meanwhile
    /\ activityList' \in {NoList, activities} \ {activityList}
    /\ UNCHANGED timeRedmine

\* Another user deletes a time entry.
OtherDeletesEntry ==
    /\ Meanwhile
    /\ \E e \in DOMAIN logged : logged[e].live /\ logged' = [logged EXCEPT ![e].live = FALSE]
    /\ UNCHANGED <<activityList, activities, bore>>

TimeNext ==
    \/ BeginTime \/ CreateTimeEntry \/ UpdateTimeEntry \/ LookUp
    \/ PostTimeEntry \/ PutTimeEntry \/ RefetchTimeEntry \/ DeleteTimeEntry
    \/ ActivitiesChange \/ ListChanges \/ OtherDeletesEntry

TimeSpec == TimeInit /\ [][TimeNext]_timeVars

----------------------------------------------------------------------------
(***************************************************************************)
(* Properties.                                                             *)
(***************************************************************************)
LoggedFor(i) == {e \in DOMAIN logged : logged[e].item = i}

\* The entry has the length that was said (but for the lost sign of minus zero
\* hours), an activity that has borne the name it was asked for by, and the place
\* that was named.
AsAsked(s, e) ==
    /\ s.hours # Unsaid =>
        \/ s.hours.neg /\ s.hours.h = 0
        \/ e.minutes = 60 * s.hours.h + s.hours.m /\ (s.hours.neg => e.minutes = 0)
    /\ s.activity \in ActivityIds => e.activity = s.activity
    /\ s.activity \in ActivityNames => e.activity \in ActivityIds /\ s.activity \in bore[e.activity]

Unanswered == {"api_error", "created", "updated", "deleted"}

\* What a call says of time entries is what Redmine has, whatever is renamed, expires or
\* is deleted meanwhile.  An entry reported as created is there, once, as it was asked
\* for; one that failed a check is not there, and a time entry that was to be updated
\* is as it was; nothing is logged for what a batch did not get to, and what it did
\* not get to is behind a failure it was to stop at or an exception.
TimeIsBookedAsReported ==
    timePc = "done" =>
        /\ \A i \in DOMAIN timeCall.specs : timeCall.op \in {"create", "bulk"} =>
            LET s == timeCall.specs[i] IN
            /\ Cardinality(LoggedFor(i)) <= 1
            /\ \A e \in LoggedFor(i) : AsAsked(s, logged[e]) /\ logged[e].on = Place(s)
            /\ i \in DOMAIN report =>
                /\ report[i] = "created" => LoggedFor(i) # {}
                /\ report[i] \notin Unanswered => LoggedFor(i) = {}
            /\ i \notin DOMAIN report =>
                /\ LoggedFor(i) = {}
                /\ timeAnswer = "report" => timeCall.stop /\ report[Len(report)] # "created"
        /\ timeCall.op = "update" =>
            /\ timeAnswer = "updated" => AsAsked(timeCall.specs[1], logged[1])
            /\ timeAnswer \notin Unanswered =>
                logged[1].minutes = Existing.minutes /\ logged[1].activity = Existing.activity
        /\ timeAnswer = "deleted" => ~logged[1].live

\* "Results are per-entry; one failure does not abort the batch unless stop_on_error
\* is set" (bulk_create_time_entries): such a batch ends with a result for every entry.
OneFailureIsOneResult ==
    timePc = "done" /\ timeCall.op = "bulk" /\ Len(timeCall.specs) <= MaxBatch /\ ~timeCall.stop =>
        timeAnswer = "report" /\ Len(report) = Len(timeCall.specs)
=============================================================================
