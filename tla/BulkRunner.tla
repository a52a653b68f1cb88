----------------------------- MODULE BulkRunner -----------------------------
(***************************************************************************)
(* tools/bulk.py: _run_concurrent, the bounded fan-out below               *)
(* bulk_update_issues and bulk_create_issues, inside the client's life     *)
(* time (server.py:_wrap).  With Concurrency = 1 this is the sequential    *)
(* loop of the three bulk tools, which has one implicit runner.            *)
(* A runner's step between two awaits is atomic in asyncio, so the cursor  *)
(* lock is never contended: claiming is one action here, and a result and  *)
(* the next claim are two, a finer grain than the code's.                  *)
(***************************************************************************)
EXTENDS Integers

CONSTANTS
    Count,        \* number of items
    Concurrency,
    StopOnError,
    NoResult      \* Python's None in the results list

Outcomes == {"ok", "error", "server_error"}
Items == 0..Count - 1
Runners == 1..IF Concurrency < Count THEN Concurrency ELSE Count

ASSUME RunnerAssumption ==
    /\ Count \in Nat /\ Concurrency \in Nat \ {0}
    /\ StopOnError \in BOOLEAN
    /\ NoResult \notin Outcomes

VARIABLES
    cursor, abort, results,
    pc,       \* of each runner: "loop", "claimed", "sent", "done" or "crashed"
    index,    \* the item a runner has claimed
    tool,     \* the call: "running", "raising", then "returned" or "raised"
    report,   \* the results handed to the caller
    client    \* is the RedmineClient "open" or "closed"

vars == <<cursor, abort, results, pc, index, tool, report, client>>

Init ==
    /\ cursor = 0 /\ abort = FALSE
    /\ results = [i \in Items |-> NoResult]
    /\ pc = [r \in Runners |-> "loop"]
    /\ index = [r \in Runners |-> 0]
    /\ tool = "running"
    /\ report = [i \in Items |-> NoResult]
    /\ client = "open"

NeverAborts(o) == FALSE   \* mutant: the result is not examined
\* should_abort, and stop_on_error of the sequential loops, which let a 5xx pass
ShouldAbort(o) == \/ o = "server_error" /\ Concurrency > 1
                  \/ o # "ok" /\ StopOnError

ClaimUnlocked(r) ==   \* mutant: the abort event is not looked at again
    /\ pc[r] = "loop" /\ cursor < Count
    /\ index' = [index EXCEPT ![r] = cursor]
    /\ cursor' = cursor + 1
    /\ pc' = [pc EXCEPT ![r] = "claimed"]
    /\ UNCHANGED <<abort, results, tool, report, client>>

Claim(r) ==
    /\ pc[r] = "loop" /\ ~abort /\ cursor < Count
    /\ index' = [index EXCEPT ![r] = cursor]
    /\ cursor' = cursor + 1
    /\ pc' = [pc EXCEPT ![r] = "claimed"]
    /\ UNCHANGED <<abort, results, tool, report, client>>

LeaveAtEnd(r) ==   \* mutant: the abort event only stops claims
    /\ pc[r] = "loop" /\ cursor >= Count
    /\ pc' = [pc EXCEPT ![r] = "done"]
    /\ UNCHANGED <<cursor, abort, results, index, tool, report, client>>

Leave(r) ==
    /\ pc[r] = "loop" /\ (abort \/ cursor >= Count)
    /\ pc' = [pc EXCEPT ![r] = "done"]
    /\ UNCHANGED <<cursor, abort, results, index, tool, report, client>>

\* The worker puts a write on the wire; a closed client refuses
Send(r) ==
    /\ pc[r] = "claimed" /\ client = "open"
    /\ pc' = [pc EXCEPT ![r] = "sent"]
    /\ UNCHANGED <<cursor, abort, results, index, tool, report, client>>

\* worker(index) returns the item's result
FinishWith(r, o) ==
    /\ pc[r] \in {"claimed", "sent"}
    /\ results' = [results EXCEPT ![index[r]] = o]
    /\ abort' = (abort \/ ShouldAbort(o))
    /\ pc' = [pc EXCEPT ![r] = "loop"]
    /\ UNCHANGED <<cursor, index, tool, report, client>>

Finish(r) == \E o \in Outcomes : FinishWith(r, o)

\* worker(index) raises: gather passes the first exception on at once and
\* leaves the other runners alone
Crash(r) ==
    /\ pc[r] \in {"claimed", "sent"}
    /\ pc' = [pc EXCEPT ![r] = "crashed"]
    /\ tool' = IF tool = "running" THEN "raising" ELSE tool
    /\ UNCHANGED <<cursor, abort, results, index, report, client>>

ReturnEarly ==   \* mutant: waits for one runner only
    /\ tool = "running" /\ \E r \in Runners : pc[r] = "done"
    /\ tool' = "returned" /\ client' = "closed"
    /\ report' = results
    /\ UNCHANGED <<cursor, abort, results, pc, index>>

Return ==
    /\ tool = "running" /\ \A r \in Runners : pc[r] = "done"
    /\ tool' = "returned" /\ client' = "closed"
    /\ report' = results
    /\ UNCHANGED <<cursor, abort, results, pc, index>>

RaiseKeepsClient ==   \* mutant: the client outlives the call
    /\ tool = "raising"
    /\ tool' = "raised"
    /\ UNCHANGED <<cursor, abort, results, pc, index, report, client>>

\* The exception leaves `async with client`
Raise ==
    /\ tool = "raising"
    /\ tool' = "raised" /\ client' = "closed"
    /\ UNCHANGED <<cursor, abort, results, pc, index, report>>

RunnerStep(r) == Claim(r) \/ Leave(r) \/ Send(r) \/ Finish(r) \/ Crash(r)

Next == (\E r \in Runners : RunnerStep(r)) \/ Return \/ Raise

Spec == Init /\ [][Next]_vars
\* The event loop runs every task that is ready, and every request times out
FairSpec == Spec /\ WF_vars(Return \/ Raise) /\ \A r \in Runners : WF_vars(RunnerStep(r))

-----------------------------------------------------------------------------
(* Properties *)

\* Every variable keeps its type.
TypeOK ==
    /\ cursor \in 0..Count /\ abort \in BOOLEAN
    /\ results \in [Items -> Outcomes \cup {NoResult}]
    /\ pc \in [Runners -> {"loop", "claimed", "sent", "done", "crashed"}]
    /\ index \in [Runners -> Nat]
    /\ tool \in {"running", "raising", "returned", "raised"}
    /\ report \in [Items -> Outcomes \cup {NoResult}]
    /\ client \in {"open", "closed"}

Busy(r) == pc[r] \in {"claimed", "sent", "crashed"}

\* Each index is claimed exactly once (bulk.py:107): two runners never work on
\* one item, and no runner works on an item that already has its result.
ClaimedOnce ==
    /\ \A r \in Runners : Busy(r) => results[index[r]] = NoResult
    /\ \A r, s \in Runners : Busy(r) /\ Busy(s) /\ index[r] = index[s] => r = s

\* A returned list is complete: an entry is None only for an item that was never
\* started, and only because an earlier result asked to stop (bulk.py:103-106).
NoneMeansNeverStarted ==
    tool = "returned" =>
        \A i \in Items : report[i] = NoResult => i >= cursor /\ abort

\* Once the call has ended its orphaned runners put no further write on the wire.
NothingSentAfterTheEnd ==
    [][\A r \in Runners : tool \in {"returned", "raised"} /\ pc[r] # "sent"
                           => pc'[r] # "sent"]_vars

\* The runners that a raised call leaves behind come to an end as well.
RunnersEnd == \A r \in Runners : <>[](pc[r] \in {"done", "crashed"})

-----------------------------------------------------------------------------
(* The runner implements Batch *)

ItemStatus ==
    [i \in Items |->
        IF results[i] # NoResult THEN results[i]
        ELSE IF \E r \in Runners : pc[r] = "crashed" /\ index[r] = i THEN "lost"
        ELSE IF i < cursor THEN "running" ELSE "waiting"]

CallVerdict == IF tool = "raising" \/ tool = "running" THEN "open" ELSE tool

Contract == INSTANCE Batch WITH
    Stops <- ShouldAbort, status <- ItemStatus, verdict <- CallVerdict

\* Every behaviour of the runner is one the bulk tools promise.
ImplementsBatch == Contract!Spec
=============================================================================
