# A TLA+ model of redmine-mcp-workflows

redmine-mcp-workflows is an MCP server, one asyncio process per client, that
lets a language model work on a Redmine instance. This directory holds TLA+
modules for the parts of it in which concurrency, failures, caches and stale
data make correctness hard to see and hard to test, the TLC configurations that
check them on small instances, and proofs of the properties that matter most for
every value of the constants. Every definition is translated from the code below
`src/src/redmine_mcp/` (paths below are relative to it); `PROJECT.json` maps each
one to its lines.

## 1. The system

**How the parts interact.** `server.py` declares the tools. `_wrap` (323-371)
opens a `RedmineClient` for the call, runs the tool function on it, turns a
`RedmineAPIError` into a structured answer, and after a successful write drops the
project rows of the cache. Tool calls of one process interleave at every `await`
and nowhere else. They share one thing, the process-wide `SchemaCache` that
`_get_cache` opens on first use: a SQLite file that every server process of the
host shares and that outlives them all. Everything else is in Redmine, which
other users and administrators change at any moment.

| component | state | operations | what makes it hard |
|---|---|---|---|
| HTTP client, `client.py` | retry count of a request | `_request`, `_retry_delay`, `paginate` | lost answers, a retry of what was done, server-supplied waits, lists that move between pages |
| issue update and close, `tools/issues.py`, `schema/workflow.py`, `validation/` | learned workflow rows, cached statuses and user | `update_issue`, `close_issue`, `record_outcome`, `is_disallowed`, `check_held_gate` | up to eight awaits, state read before one and used after it, a commit whose answer is lost |
| bulk tools, `tools/bulk.py` | cursor, abort event, results of a fan-out | `_run_concurrent`, `bulk_update_issues`, `bulk_close`, `bulk_create_issues` | interleaved runners, abort, an exception with runners still alive, batches submitted again |
| schema cache, `cache/schema_db.py` | the SQLite tables, the credential fingerprint | `reconcile_auth`, `get_*`, `put_*`, `invalidate` | several processes and users, crashes, the write lock |
| project cache, `schema/project.py` | the projects table | `describe_project`, `resolve_project_id`, `list_projects`, `invalidate_projects` | replies on their way while the table is dropped, names that equal identifiers |
| attachments, `tools/attachments.py` | local files, Redmine's uploads | `upload_attachment`, `download_attachment`, `view_attachment` | uploads that Redmine drops without an error, verification by name, truncated downloads |
| relations, `tools/relations.py` | the relation graph, in Redmine | `add_relation`, `remove_relation` | a walk over a graph that others change |
| copy issue, `tools/copy_issue.py` | the copies made so far, in Redmine | `copy_issue` | recursion without a transaction |
| time entries, `tools/time_entries.py`, `validation/fields.py` | the cached activities; time entries, in Redmine | `create_time_entry`, `bulk_create_time_entries`, `update_time_entry`, `delete_time_entry` | a batch whose entries fail in different ways, a look-up in the middle of it |
| time report, activity feed, issue search: `tools/time_entries.py`, `tools/activity.py`, `tools/issues.py`, `schema/tracker.py`, `schema/custom_fields.py` | rows collected, names cached | `time_report`, `activity_feed`, `search_issues`, `describe_tracker` | paging, partial failure, names looked up in old lists |
| custom fields, `tools/issues.py`, `validation/fields.py`, `schema/custom_fields.py` | cached definitions, the issue's fields in Redmine | `_apply_difficulty`, `_apply_held`, `_merge_custom_field`, `_correct_custom_fields`, `_issue_with_pending_custom_fields` | three ways to name a field, two ways to give a value, a cache that may be empty, a gate that judges what the PUT will leave |
| wiki, `tools/wiki.py` | the page, in Redmine | `get_page`, `create_page`, `update_page`, `delete_page` | a look before a blind PUT, optimistic versions that start anew with a page |
| migrations, `cache/migrations.py` | the file's version and tables | `apply_migrations` | DDL that commits on its own, a transaction that begins half-way, processes that overlap or stop |
| replies, `server.py:_dump` | the bounds of a search | `_dump` | a byte cap on text that is escaped |
| one-request tools, configuration, texts | none | | nothing to check beyond a unit test |

What makes each correct is stated as a property of its module, section 4.
`PROJECT.json` lists every component with what is left out of it, and forty
hazards, each at its line with the properties that would catch it going wrong.

## 2. The modules

| module | models | proofs |
|---|---|---|
| `IssueUpdate` | `update_issue` and `close_issue` with the reactive workflow cache and the held gate | `IssueUpdateProofs` |
| `IssueFields` | the custom fields of `create_issue`, `update_issue` and `close_issue` | `EditProofs` |
| `Batch` | the contract of the bulk tools, in terms of items only | |
| `BulkRunner` | `_run_concurrent`, which implements `Batch` | `BulkRunnerProofs` |
| `BulkCreate` | `bulk_create_issues` on top of `BulkRunner` | `BulkRunnerProofs` |
| `ClientRetry` | `RedmineClient._request` | `TransferProofs` |
| `SchemaCache` | the shared file, `_get_cache`, reconciliation of credentials | `SchemaCacheProofs` |
| `CacheFile` | `apply_migrations`: processes that open one file of any version | `CacheFileProofs` |
| `ProjectCache` | the project rows under overlapping reads and writes | `ReadsProofs` |
| `Attachments` | upload, download and view | `TransferProofs` |
| `Wiki` | reading, creating, updating and deleting one wiki page | `EditProofs` |
| `Relations` | `add_relation` with its cycle pre-check, removal | `RelationsProofs` |
| `CopyIssue` | the recursive copy | `TransferProofs` |
| `TimeEntries` | creating, in batches too, updating and deleting time entries | `EditProofs` |
| `Paging` | the three loops over pages | `ReadsProofs` |
| `ActivityFeed` | the six sources and their merge | `ReadsProofs` |
| `IssueSearch` | name resolution for `search_issues`, `describe_tracker` | `ReadsProofs` |
| `Dump` | the byte cap on replies and the search for a preview | `ReadsProofs` |
| `Reads` | any one of `Paging`, `ActivityFeed`, `IssueSearch`, `ProjectCache`, `Dump` | `ReadsProofs` |
| `Writes` | any one of `Attachments`, `Wiki`, `IssueFields`, `CopyIssue`, `Relations`, `TimeEntries`, `ClientRetry` | `EditProofs` |

`Reads` and `Writes` put tools that share no state in the server next to each other,
as the process does: any one of them runs, and one run checks the properties of all.

A module `MCx` gives the constants of `x` their values for TLC. Definitions with
the comment "Mutant" are wrong versions of the definition after them, as a
plausible slip would make them; no specification uses one. `PROJECT.json` pairs
each property with a mutant that violates it.

### Correspondence

* **A coroutine** is a program counter `pc[c]`, named for the request the call is
  waiting for. An action is the code from one `await` to the next, taken when the
  awaited reply comes. In `ProjectCache` the moment in which Redmine answers and
  the moment in which the reply is processed are two actions (`Answer`, `Receive`),
  since there the gap matters; elsewhere they are one.
* **A request that fails** is a disjunct of its action. For a write there are two
  such disjuncts, with and without its effect in Redmine.
* **Redmine** is a variable with the state that the tools read and write, and other
  users are actions on it. What Redmine does is inferred from how the tools use it,
  and marked external in the map: it checks a status change against the workflow,
  takes a write at once or not at all, cuts lists by offset and limit, attaches an
  upload once, stores an inverse relation as the direct one with its ends swapped.
* **Caches** are reduced to what a reader can tell: present and fresh, present and
  old, or absent. A TTL running out is an action.
* **Histories** (`applied`, `executed`, `mixed`, `ever`, `doubt`, `quiet`, ...) record
  what the code cannot see. No guard of an action of the code reads one.

`IssueUpdate` in detail: `Begin` is the check of the arguments; `CloseResolve` the
choice of a closed status in `close_issue`; `Get` the first GET; `Resolve` the held
field, the status name and the held gate, between which nothing awaits; `Preflight`
the learned rows of the user's roles; `ResolvePriority` the priority name, whose
lookup refreshes the statuses too; `Put` the PUT; `PutRaised` the `except` branch,
which learns from a workflow 422; `Refetch` the GET that tells "ok" from "status
ignored"; and `RecordAllowed` the fetch of the user after which a success is learned.

`SchemaCache`: `Open` assigns the global before anything is reconciled, `Check` reads
the fingerprint outside of a transaction, `Insert` stamps a new file, `BeginWipe` and
`CommitWipe` are the two ends of the transaction that clears it, and
`ReconcileFails` is "database is locked". `Put`, `PutRejected`, `GiveUp` and
`Invalidate` are the ends of tool calls; `Crash` rolls an open transaction back.

`CacheFile`: Python's `sqlite3` commits each DDL statement on its own until the first
DML statement begins a transaction. So `FirstTables`, `DropW`, `CreateW`, `DropC`,
`CreateC` and `Index` are one committed statement each, `Stamp` is the DELETE that takes
the write lock, and `Commit` makes the stamp and all that is left of the chain visible at
once. `Fails` is a statement that raises ("database is locked", a table that another
process has created or dropped first): `SchemaCache()` raises, the global stays unset and
the next call tries again. `Learn` is any writer of the reshaped tables.

`IssueFields` follows one list through a call: `Check` (the validators), `ApplyDifficulty`,
`ApplyHeld`, `ApplyUntil` (each may resolve a name and fill the cache of definitions),
`Correct` (values against `possible_values`), `Gate` (the overlay of the list on the issue
that the held gate judges) and `Send`, where Redmine assigns the entries in order. An
entry is a field, how its id is written (a number, a string, missing), whether it
has a name too, and a value; two values may differ only in case.

`Wiki`: every editor is a caller; `WikiPreflight` is the look of `create_page`, `WikiGet`
also the re-fetch after a PUT, and `WikiPut` may lose its answer. A revision carries the
number it has in the page's whole history and the version Redmine shows, which starts at
1 again when a deleted page is created anew.

`Dump`: `Measure` picks the first envelope that fits, `Probe` is one round of the binary
search. A text is its length and the cost of each of its prefixes inside a JSON string.

`Relations`: `Begin` normalizes the type and starts the walk at the destination,
`Read` is one GET of `_reaches` with the loop up to the next GET (`Visit`), `PostLink` is
the POST. `CopyIssue` keeps the Python stack of `_copy_one` as a sequence.

`TimeEntries`: `CreateTimeEntry` takes the next entry of a batch (or the only one) through the
checks up to its first request, `Result` is what follows an entry's end: the next one, the
end at an error, or the answer. `LookUp` is `refresh_global_enumerations`; its error is the
only one that leaves the loop (`RaiseOut`). Hours are a form, a sign and two numbers.

## 3. What the runs check

| run | instance | properties |
|---|---|---|
| `IssueUpdate` | two calls, on one issue or on two: closes by name, by number and by `close_issue`, with the hold there is, a new one or none, a reopening, a name that is unknown; two statuses, two roles; one event: an edit by somebody else, a change of roles, a TTL, an invalidation, statuses filled by another tool | `LearnedIsTrue`, `OutcomeIsTruthful`, `GateSawTheHold`, `ClosingLeavesNotHeld`, `BlockedWasForbidden` |
| `BulkRunner` | four items, three runners, every outcome, any runner may raise | `NoneMeansNeverStarted`, `NothingSentAfterTheEnd`, `RunnersEnd`, `ImplementsBatch` |
| `BulkCreate` | three items over two subjects, one of them crowded, two runners, look-ups refused or broken, others who create issues too, the batch submitted twice | `ReportIsTrue`, `RepeatsAreSafe` |
| `SchemaCache` | two processes, two users, a table with a TTL and one without | `LeaksNeedMixedUse`, `CallEnds` |
| `CacheFile` | three processes, a file of version 0, 1, 2 or 3 | `StampedIsCurrent`, `OnlyLaggardsForget`, `AloneOpens` |
| `CacheFileTorn` | two processes, a file of version 2; **violated** | `StampedIsWhole` |
| `CopyIssueDirection` | chains and forks of three issues; **violated** | `DirectionIsKept` |
| `FieldPrecedence` | the field calls of `Writes`; **violated** | `ExplicitEntryWins` |
| `TimeBatch` | the time entries of `Writes`; **violated** | `OneFailureIsOneResult` |
| `DownloadLink` | one caller, an allowed path, an allowed symlink and the path outside that it leads to; **violated** | `WritesStayAllowed` |
| `Reads` | lists of up to five in pages of two; feeds of six sources; searches over two ids and two names; two overlapping calls on two projects, one named like the other's identifier; texts of up to 100 characters under twenty caps | `QuietListsAreExact`, `PagesCostOnlyChanges`, `FeedAgreesWithSources`, `NoFilterIsDropped`, `MissingIsTrue`, `ReadsSeeWrites`, `SlugBeatsName`, `CacheFailsOnlyOnReuse`, `CapIsHonoredAndUsed`, `SearchHalves` |
| `Writes` | two callers with two files and a symlink, three PUTs per upload; two editors of one page and four calls; creates, updates and closes with lists of up to two entries; trees of three issues, one of which others move; two callers who add relations among four issues, with a walk of at most two; batches of two time entries over two activities; a GET and a PUT with all answers and waits in the past, short and excessive | `AttachAnswerIsTrue`, `LocalFilesAreSafe`, `AnswersShowTheWrite`, `NoBlindOverwrite`, `PrecedenceIsKept`, `GateJudgesThePut`, `CorrectionsAreSafe`, `CopiesAreFaithful`, `CyclesNeedABlindWalk`, `RefusalsAreTrue`, `TimeIsBookedAsReported`, `NoDuplicateWrite`, `OutcomeIsEarned`, `WaitIsBounded` |

Each takes between a second and three minutes with two workers. Type invariants are what
proofs rest on: they are proved, section 4, and no run repeats them.

### What they show

* **What the workflow cache learns is true** (`LearnedIsTrue`) and a call is blocked
  only for a transition that Redmine would refuse (`BlockedWasForbidden`), until somebody
  moves the issue of a call between its requests or changes roles that were read. The
  role-union rule (every role needs a refusal of its own) and the check that a 2xx
  really moved the status are what this needs.
* **The held gate**: a PUT that closes an issue, whichever way the status was given, leaves a
  hold on it only if the gate found no list of statuses, or if the issue is no longer what the
  call has read (`ClosingLeavesNotHeld`); and whatever others do, no call whose gate had the
  list leaves in place a hold it has read (`GateSawTheHold`).
* **An answer** "ok", "ignored", "blocked" or "held" agrees with what the PUT did
  (`OutcomeIsTruthful`). An error promises nothing.
* **The bulk fan-out** keeps its contract `Batch`: items start in order, none after a
  result asked to stop, each at most once, and the call returns after every started
  item has ended. When a runner raises, the others send nothing more and end.
* **The bulk create is idempotent by subject**, over lost answers, repeated batches and
  runners that interleave, but for three cases in which the look-up cannot show the issue
  there is, each of which occurs in the run: Redmine refuses the look-up (a 404 or 422 counts
  as "none"), its page of five is full of look-alikes, or the issue comes after it. What a
  call reports as created, skipped or not reached agrees with Redmine (`ReportIsTrue`).
* **The client** never has a write acted on twice, gives a read up only after the whole
  budget, and waits at most a minute per retry whatever the server asks for.
* **The shared file**: rows of one user reach another one only if processes of both
  ran at the same time, or one could not reconcile its credentials. Crashes between
  any two steps do not matter, and no process waits for the file's lock for ever.
* **The project cache** shows a write to reads that begin after it, unless a reply was
  on its way when the rows were dropped; an identifier wins over a name.
* **An upload** called attached has an attachment of its name on the issue, one called
  not attached has not; a download leaves a whole file and spares
  existing ones, the file at the end of a symlink included. It may lie outside the allowlist:
  `DownloadLink`.
* **Custom fields**: among the entries the tools recognise, each field ends with the value
  of whichever source has precedence. Whatever way a call names Held, a closing PUT that the gate
  has judged leaves no reason in it that nobody else put there (whether the gate runs at all is
  in `IssueUpdate`), and an empty cache rejects no value.
* **A wiki page** is not overwritten unseen: an update that names a version replaces the
  revision its caller saw, unless the page was deleted and created again meanwhile, when the
  number may fit by accident; `create_page` replaces only what appeared after its look. An
  answer with a page wrote it; a refusal by a check or by Redmine's conflict wrote nothing.
* **Migrations**: a stamped file is current unless a process stopped between a DROP and
  its CREATE while another one migrated or had stamped; what was learned is lost only to a
  process that read the old version first; a process left alone with the file opens it,
  whatever the others left behind.
* **A reply** fits its cap whatever the cap and the text, and no longer preview would.
* **A relation** closes a cycle only after a walk cut short (the cap, an unreadable
  issue), misled by a malformed answer or overtaken by another addition; a refusal is justified.
* **A copy** is never deeper than its limit, even if somebody makes the tree a cycle
  while it is copied, and one that is reported as created lacks no readable subtask.
* **Time entries**: one that is reported as created is there, once, with the hours, the place
  and the activity it was asked for; one that failed a check, or was not reached, is not.
* **Lists** are exact on a quiet server, repeat a row only after an insertion and miss
  one only after a deletion; the feed and its `sources` agree; no filter is dropped.

### Bounds

Every bound is a constant that a guard reads. `MaxCalls` and `MaxEvents`,
`MaxChanges`, `MaxAdmin`, `MaxVersion`, `MaxWikiCalls`, `MaxMoves`, `MaxLinks`, `MaxTimeEvents` limit calls and events; two
calls and one event are enough for each stale read in section 5 to appear when a
property is stated without its exception, which is how the exceptions were found. The calls and
starts of `IssueUpdate` (`Requests`, `Starts`) are chosen so that each way to name a status, to
treat a hold and to lack a role occurs, with the list of statuses there or not.
`MaxRetries`, the number of backoffs in `Attachments` and the 120 half seconds of
`MaxRetryAfter` are the code's values; the cap on the walk (2 for 100), the depth of
a copy (2 for 5), a batch of time entries (2 for 100), the page size (2 for 100), the page cap and `max_entries` are
scaled so that lists, trees and graphs both below and above them occur. Four items
for three runners and three items for two make runners reuse their loop and
finish in any order. Two processes with two identities give the three cases of
a shared file: the same user, a successor, a rival. Three processes on one old file let
two of them be late, one of which stops. Four wiki calls suffice for look, delete, create, update,
the order in which a version number is met a second time. The caps of `Dump` lie on both
sides of each size at which another envelope fits; `MaxDigits` (3) is above the digits
of any of them. Subtasks are moved while the copy is made; a move before it is another of its
trees, among them one with an issue below itself. Symmetry is used where it is sound, in the runs
`IssueUpdate` and `Writes`, which check no liveness: callers, and editors, differ in their name only.

`CHECK_DEADLOCK FALSE` appears where a system really stops: the calls permitted are
used up, or the one call has ended. `SchemaCache` and `CacheFile` are checked for deadlock.

### Fairness

Three runs check liveness, each under weak fairness that follows from asyncio (the event
loop runs every task that is ready) and from the client (every request has a timeout
of thirty seconds and at most three attempts, so its reply or its failure comes).

* `BulkRunner!FairSpec`: weak fairness of each runner's step and of the end of the call.
* `SchemaCache!FairSpec`: weak fairness of reconciling and of ending a fetch, for a
  process that is up; nothing is assumed of `Crash`, `Start`, `Age` or of the process
  that holds the lock, which may keep it for ever. SQLite's busy timeout is what makes
  the waiting call end (`ReconcileFails`, `GiveUp`).
* `CacheFile!FairSpec`: weak fairness of `Attempt(p)`, the next statement, the next failure
  or the next try of a process that is up. `AloneOpens` speaks of a process whose rivals
  are down for good; two processes that both stay up may take turns in failing.

## 4. What is proved

For all values of the constants that satisfy the named assumptions of the modules. These give
the constants their types, say that what the code holds in a list is finite (`Items`, `RowIds`,
`Possible`), and what the code rests on: that the lists read page by page have no row twice
(`PagingAssumption`), that a feed has at least one type (`FeedAssumption`; an empty list of types
means all of them), that nothing but the empty value is spelled like it (`FieldsAssumption`).

| theorem | states | assumes | inductive invariant |
|---|---|---|---|
| `IssueUpdateProofs!TypeCorrect` | `TypeOK` | | `TypeOK` |
| `IssueUpdateProofs!GateIsNeverBlind` | `GateSawTheHold` | | `TypeOK` and the property: the gate's decision is made in one step with the reads it rests on, and until the PUT a call changes none of `req`, `target`, `seen`, `gated` |
| `IssueUpdateProofs!LearnedRowsAreTrue` | `LearnedIsTrue` | | see below |
| `IssueUpdateProofs!BlocksAreJustified` | `BlockedWasForbidden` | | the same |
| `BulkRunnerProofs!TypeCorrect`, `IndexClaimedOnce`, `ReturnedListIsComplete`, `SilentAfterTheEnd` | `TypeOK`, `ClaimedOnce`, `NoneMeansNeverStarted`, `NothingSentAfterTheEnd` | | `TypeOK`, `ClaimedOnce`, `CursorInv`, `AbortInv`, `ToolInv` |
| `BulkRunnerProofs!Refinement` | `ImplementsBatch` | | the same |
| `BulkRunnerProofs!CreatesNothingTwice`, `ReportsAreTrue` | `RepeatsAreSafe`, `ReportIsTrue` | | see below |
| `IssueUpdateProofs!OutcomesAreTruthful` | `OutcomeIsTruthful` | | `TypeOK`, with what each program counter says of `applied` and `moved` |
| `IssueUpdateProofs!ClosesLeaveNoHold` | `ClosingLeavesNotHeld` | | those of `GateIsNeverBlind` |
| `TransferProofs!UploadsAreTruthful`, `DownloadsSpareFiles` | `AttachAnswerIsTrue`, `LocalFilesAreSafe` | | a token is in the hands of one upload at most; the answer `not_attached` is the last word on its token; what a download found at its path when it began decides whether it may replace it |
| `TransferProofs!WritesAreSingleShot`, `OutcomesAreEarned` | `NoDuplicateWrite`, `OutcomeIsEarned` | | a write never sleeps and has not been acted on before its one attempt ends; a sleeping request has an attempt left |
| `TransferProofs!WaitsAreBounded` | `WaitIsBounded` | `ShortBackoffs` | each sleep that was begun cost at most the cap |
| `SchemaCacheProofs!TypeCorrect` | `TypeOK` | | `TypeOK` |
| `SchemaCacheProofs!NoLeakUnlessMixed`, `FileNamesItsUser` | `LeaksNeedMixedUse`, `FileIsOneUsers` | `~Legacy` | unless `mixed`: all rows belong to the fingerprint, every process that is up has one identity, and one that is ready has the fingerprint's |
| `CacheFileProofs!TypeCorrect`, `StampedFilesAreCurrent`, `LearnedRowsAreKept` | `TypeOK`, `StampedIsCurrent`, `OnlyLaggardsForget` | | which statements can run on a file of which origin; a table that is missing is in somebody's hands or torn |
| `EditProofs!AnswersAreTrue`, `NothingIsOverwrittenBlindly` | `AnswersShowTheWrite`, `NoBlindOverwrite` | | versions grow with revisions within one life of the page; what a caller has seen is not newer than `revisions` |
| `EditProofs!EachFieldGetsWhatHasPrecedence`, `TheGateJudgesThePut`, `CorrectionsStaySafe` | `PrecedenceIsKept`, `GateJudgesThePut`, `CorrectionsAreSafe` | | see below |
| `EditProofs!TimeIsBooked` | `TimeIsBookedAsReported` | | see below |
| `ReadsProofs!DumpInvariant`, `AnswersFit`, `SearchEnds` | `CapIsHonoredAndUsed`, `SearchHalves` | | `low` fits, all above `high` does not, probes halve what is between |
| `ReadsProofs!WritesAreSeen`, `SlugsComeFirst`, `OnlyReuseBreaks` | `ReadsSeeWrites`, `SlugBeatsName`, `CacheFailsOnlyOnReuse` | `UniqueSlugs` | see below |
| `ReadsProofs!FiltersReachRedmine`, `MissingNamesAreMissing` | `NoFilterIsDropped`, `MissingIsTrue` | | see below |
| `ReadsProofs!QuietListsAreReadExactly`, `OnlyChangesCostRows` | `QuietListsAreExact`, `PagesCostOnlyChanges` | | see below |
| `ReadsProofs!TheFeedAgrees` | `FeedAgreesWithSources` | | see below |
| `TransferProofs!CopiesStayFaithful` | `CopiesAreFaithful` | | see below |
| `ReadsProofs!ReadersRunAlone`, `ReadersKeepTheirPromises` | every property of the run `Reads`, of `ReadsSpec` | `UniqueSlugs` | those of the components |
| `EditProofs!WritersRunAlone`, `WritersKeepTheirPromises` | every property of the run `Writes`, of `WritesSpec` | `ShortBackoffs` | those of the components |
| `RelationsProofs!TypeCorrect`, `NoCycleUnseen`, `RefusalsAreJustified` | `LinkTypeOK`, `CyclesNeedABlindWalk`, `RefusalsAreTrue` | | see below |

**`IssueUpdate`.** The theorems speak of every behaviour, with every event of the environment.
That a refusal recorded from a 422 is true needs the fact that `seen[c].status` is still
Redmine's status when the PUT is sent, that a cached user's roles are Redmine's, and that a call
in "rejected" was rejected for its own transition. `CallInv(c)` states these for each call. They
hold until a step sets the history `disturbed` (an edit of an issue under a call, by another call
or another user, or a change of roles that were read), which is never taken back; the invariant
is their disjunction with it. The proof has one lemma for what a call's own steps do to it
(`ReadingSteps`, `PutStep`, `RecordingSteps`), one for the other calls (`OthersUndisturbed`) and
one for the environment (`OtherSteps`). `OutcomeInv(c)` ties each answer to what the call's PUT did
(`OwnOutcome`), and `OthersOutcome` says that nobody undoes it without disturbing.

**`Attachments`.** Two uploads never work on one token, since `Post` makes a new one; so only the
call itself attaches it, and after the last PUT nobody does. A download changes what its path leads
to only in the step that ends it, and what was there when it began is remembered in `bytes`.

**`BulkRunner`.** `CursorInv` says that the cursor splits the items: those before it
are with exactly one runner or have a result, those after it are untouched. `AbortInv`
ties the abort event to the results, and `ToolInv` the call's state to its runners'.
With these each step of the runner is a step of `Batch` under the mapping `ItemStatus`,
`CallVerdict`: `Claim` is `Start`, `Finish` and `Crash` are `Finish`, the rest
stutters or ends the call. `Claim` is a `Start` only because the items are claimed in
order, and `Return` is one only because a runner leaves on abort or at the end.

**`BulkCreate`.** Nothing is assumed of batches, runners or Redmine. `LookedInv`: a runner past its
look-up has a subject without an issue, or one whose issue it could not see (`Unseen`); an issue
that appears later, by another runner or somebody else, enters `since` of all who have looked.
`MadeInv`: an item is posted once, and what was made is reported as created or failed, or is still
with its runner; so the report of a call that returns, which has no runner left, accounts for it.

**`SchemaCache`.** The wipe and the new fingerprint become visible in one commit, so a
crash anywhere leaves the file to one of the two users. The invariant is about
processes that are up: a new one with the same identity finds its own fingerprint, one
with another identity that comes up alone goes through "wipe" before it is ready.

**`CacheFile`.** All processes that migrate read the version that was found, since it changes
once and to the current one. So only one table is ever dropped outside of the
transaction: workflow_transitions of version 1, custom_fields of version 2. `DroppedInv`
says that once the file is stamped, or a process is past its own CREATE, this table is
there in its new shape, or some process stands between its DROP and CREATE, or one stopped
there. The last two disjuncts are what the code allows, and `CacheFileTorn` shows the last.

**`Wiki`.** A caller that names a version v and is not refused meets a page at version v.
Within one life of the page version and revision differ by a constant, so it is the revision
it saw, or the page was born after it.

**`TimeEntries`.** The entry being worked on is always the one after the last result
(`ProgressInv`), so a time entry that is posted belongs to a place of the batch that has none yet;
every logged entry but the first has a result that does not deny it (`Reported`). That its
activity has borne the name it was asked for by rests on `NamesInv`: no list, however old, holds a
name its activity never had. Renames only add to `bore`, so what was as asked stays so.

**`ShortBackoffs`** says that 2^n half seconds are at most the cap of a minute for every n up to
the retry budget: the code caps Retry-After and not its own backoff. It holds for the two retries
of the code, and for any budget up to six.

**`Dump`.** Envelope and field sizes do not depend on the preview, and a prefix costs no
less than a shorter one; so a probe that fits moves `low` up, one that does not moves `high` down,
and they meet. `Middle` rounds up, without which `low` would stand still.

**`ProjectCache`.** **`UniqueSlugs`** is what Redmine validates, asked of the initial projects
only. Everything cached or on its way has been Redmine's project of that id (`WasThere`): its
identifier is what it was and its version no newer. Ids are not given out twice, so versions only
grow. Unless a reply was overtaken by an invalidation, all that is cached or on its way has at
least the acknowledged version (`FreshInv`), and a call reads the names only after Redmine said
that there is no such identifier (`LookInv`).

**`IssueSearch`.** The filters are resolved in a fixed order, and `FiltersInv` says that those
behind the current step are exactly the keys of `params`. For `MissingIsTrue`: a name is called
unknown after a fetch, which leaves a row for whatever Redmine has (`FetchedRows`), or from a
status list that was cached.

**`Relations`.** While nothing was added to the graph, no issue was skipped and no answer was malformed, the
visited issues other than the one being read lead only to visited issues and the
frontier (`RelationsProofs`, invariant of the walk). When the frontier is empty the
visited set is closed, has the destination and not the source, so an edge
from the source to the destination closes no cycle (`AddKeepsAcyclic`). "No cycle" is
stated without paths: no non-empty set in which every issue has a successor.

**`IssueFields`.** `PrecedenceInv` says at every step of the call which source the list's last
entry for a field comes from, for every field whose entries the tools recognise; a field that is
not yet resolved is not in `found`. The list is filtered and appended to, and what a filtered
sequence holds would take induction over it. `Without` is therefore given by the rank of each place
among the places that are kept (`Ranks`, `LastMember`), which says the same and needs only
cardinalities. `CorrectionInv` keeps the corrected list and the one before it in step, place by
place, so the gate judges the very entries that Redmine assigns in order.

**`Paging`.** Rows are told apart by where they stand. Until a row is inserted, what comes after
the rows that were read has not been read (`NoneTwice`); until one is removed, what comes before
that and was there all the time has been (`NoneMissed`); until either, what was read is the
beginning of the list (`Quiet`). An insertion can break the first only and a removal the second
only: that is `PagesCostOnlyChanges`. `Standing` ties `offset` and `pages` to the rows read.

**`ActivityFeed`.** Each event carries the turn that brought it. `Turns` says that those collected
so far come from turns that are over, so a type that is asked for once begins its turn with no events, and
`Counts` follows. `Rested` and `BoardsRead` say that a place which fits into one request, of a source
called ok, is complete while nothing changes; `Answered` that the answer is a latest part of it.

**`CopyIssue`.** `Settled` ties each activation that has posted to its copy, which is as deep in the
tree as the activation on the stack, and `Unposted` the one on top to the copy below it. `WholeInv`
accounts for each subtask of an acknowledged copy: it is covered by a copy or known to be unreadable, or
still to be done on the stack (`ToDo`). When the stack is empty only the first is left.

**Compositions.** A step of `Reads` or `Writes` is a step of one component and leaves the variables of
the others alone, which is why every component's theorem holds of the composition. The two
`...RunAlone` theorems are this argument, the two `...KeepTheirPromises` are its result: the
hypotheses are those of the one component that has any.

**Only model-checked.** The three liveness properties, `RunnersEnd`, `CallEnds`
and `AloneOpens`: fairness is a statement about ENABLED, which is out of the prover's reach. So
are the five violations, which need an instance and no proof. Every other property of a
passing run is stated by a theorem.

## 5. Where code, comments and expectations part

Five disagreements are runs of their own:

* `copy_issue` says it recreates the source's relations (`tools/copy_issue.py:151`); it
  posts each one from the copy with the stored type, whichever side the source was on
  (161), so the copy of a *blocked* issue *blocks* it. `CopyIssueDirection` finds it.
* `_apply_held` says an explicit entry for the same field id wins (`tools/issues.py:401`),
  and line 456 that callers may write an id as a string. `_has_custom_field_entry` and
  `_merge_custom_field` (207, 235) compare ids as they are, so an entry `{"id": "5"}` is not
  recognised, the parameter is appended after it, and Redmine takes the last. The gate does
  compare as integers. `FieldPrecedence` finds it.
* `apply_migrations` says it is idempotent and brings the database to the current version
  from any prior one (`cache/migrations.py:3`). The DROP at 105 commits at once; a
  process that stops before the CREATE, while another one stamps the file, leaves a
  stamped file without `custom_fields` that no later start repairs. `CacheFileTorn` finds it.
* `bulk_create_time_entries` says that results are per entry and that one failure does not
  abort the batch (`tools/time_entries.py:385`). The activity is looked up outside of the `try` of
  `create_time_entry` (123): when that fails, at the first entry or after the TTL ran out at a
  later one, the whole call answers with the error, and the results of what was
  created before are lost. `TimeBatch` finds it.
* `tools/attachments.py` says that symlinks are resolved before comparing, on read and on write
  (24-26). `_is_save_path_allowed` (92-116) resolves the directory only, and `write_bytes` (359)
  follows a symlink that is the last component, so the file that is written may lie outside of
  the allowed directories. `DownloadLink` finds it.

The others are behind an exception in a property, an assumption of a theorem or a
bound of a run, and appear as soon as that is taken away:

* **A stale `from`.** `update_issue` records a refusal against the status of its first
  GET. If another user moves the issue in between, a permitted transition is learned as
  disallowed, and blocked until the rows are dropped; observations have no TTL.
  Likewise for roles that change within the TTL of the cached user.
* **A cold gate.** The held gate knows closed statuses only from the cache. A close by a
  numeric id, cold or expired, passes with the hold in place; so does one of `close_issue` whose
  cached list ran out since it picked the status. It is the exception `~gated` of
  `ClosingLeavesNotHeld`. A hold set between the GET and the PUT passes as well.
* **A committed PUT reported as failed**, when its answer, the re-fetch or the fetch of
  the user fails; `_wrap` then keeps the project rows.
* **429.** The comment at `client.py:36` says a 429 is retryable for any method; the
  condition at 175 retries reads only. Writes are never sent again.
* **Bulk.** An exception that leaves a worker loses the results of the whole batch. With
  `concurrency` above 1 two items of one subject both find nothing and are both created;
  five newer subjects that contain the one in question hide it; and a 404 or 422 of the look-up
  (`tools/bulk.py:328`) is taken for "no such issue", so the create goes on. These are the three
  cases of `Unseen`, in `RepeatsAreSafe`.
* **Shared file.** Two users at the same time see each other's rows; a process whose
  reconciliation was locked out goes on, because the global is set already; a file with
  rows but without the current fingerprint is adopted, not wiped (`Legacy`).
* **No TTL** for observations and custom fields, nor for names of trackers on
  their way to ids; a status list is not refreshed when a name is not in it.
* **Project rows.** A reply on its way while a write drops the table is stored after it
  and is served for the TTL. A new project under a deleted one's identifier breaks the
  UNIQUE constraint: the call fails and leaves its transaction open.
* **Attachments.** A namesake that is already on the issue makes a dropped upload look
  attached. A file that appears between the check of a save path and the write is
  overwritten even without `overwrite`.
* **Time.** `parse_hours` reads "-0:30" as half an hour: the sign is looked for in the
  hours, and `int("-0")` is 0. "nan" passes for a number. A name that is not in the cached
  list of activities is unknown for the TTL, unlike a tracker's.
* **Relations.** A node that cannot be read ends the whole walk with "not reachable",
  where the docstring (`tools/relations.py:96`) calls it a dead end; an answer that is no object
  counts as an issue without relations. `duplicate_of` is
  an alias of `duplicated`, the inverse of what it says. Two calls may close a cycle together.
* **Wiki.** A page created between the look of `create_page` and its PUT gets a new revision;
  an answer without a page counts as "clear to create"; the version of a page that was
  deleted and created anew may be that of the old one.
* **Migrations that overlap.** Of two processes on one version 2 file the slower one drops what
  was learned after the faster one's stamp, or fails on the CREATE (`custom_fields` has no IF NOT EXISTS).
* **Copy.** A failure in the middle leaves the copies made so far without a word of them.
* **Feed.** Wiki pages are cut to `max_per_source` by title and not by time, news before
  they are filtered, both without `truncated`; a type that is asked for twice is
  read and shown twice.
* **Search.** A blank tracker filter is dropped. The hint "Numeric ids are used as-is"
  (`tools/issues.py:1230`) does not hold for trackers, whose ids come as strings and are looked up.
  `describe_tracker` fails on an assertion for a tracker that was deleted, or for an
  unknown numeric id.

## 6. What is not modelled

* Texts: hints, redaction, formatting, the content boundary, column projections.
* Tools that send one request without state (groups, memberships, news, forums, files,
  comments, watchers, versions, categories, the read-only look-ups, passthrough).
  What their writes do to the cache is `BeginWrite` ... `Return` of `ProjectCache`.
* In `update_issue`, the version and the dates; they are resolved between the same
  requests and end the call in the same way as a bad name. Custom fields are in
  `IssueFields` and not in `IssueUpdate`, which has Held only: the two meet at the gate.
* The checks of required fields and permissions: one pass over a call's arguments.
* In time entries, dates, comments and the user; in `time_report`, grouping and summing.
* In the client: headers, TLS, redirects, the pool.
* Pacing between sequential bulk items and `asyncio.Lock` fairness.
* Time. A TTL ends at any moment, a sleep takes any time; only its requested length is
  counted (`ClientRetry!waited`).
* Threads: the cache's `threading.Lock` makes each accessor one step, which the model takes over.

## 7. How to run it

    tlc -workers 2 -config IssueUpdate.cfg MCIssueUpdate
    tlapm IssueUpdateProofs.tla

and likewise for every row of `runs` in `PROJECT.json`, which names each run's module and
configuration, and for every `...Proofs` module. The runs of `CacheFileTorn.cfg`,
`CopyIssueDirection.cfg`, `FieldPrecedence.cfg`, `TimeBatch.cfg` and `DownloadLink.cfg` are the ones that end in a violation.

## 8. Plan

The order was: the write path and what it learns (`IssueUpdate`), the fan-out and its
contract, the client, the shared cache, the tools with several requests, then what opens
the file (`CacheFile`), writes a page (`Wiki`), fills an issue's fields (`IssueFields`),
cuts a reply (`Dump`) and logs time (`TimeEntries`). Left:

1. The look-ups of `create_issue` (project, tracker, priority, parent) next to its fields.
2. Proofs: every safety property of a run has its theorem. What the bulk tools and the workflow
   cache promise together (`BulkRunner` over `IssueUpdate`) is not stated yet.
