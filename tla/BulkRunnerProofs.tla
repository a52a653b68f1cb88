-------------------------- MODULE BulkRunnerProofs --------------------------
(***************************************************************************)
(* For every number of items and runners: the cursor hands each item to    *)
(* one runner, a returned list is complete, nothing is sent after the end, *)
(* the fan-out implements Batch, and bulk_create_issues on top of it       *)
(* creates no issue beside one that its look-up could show.                *)
(***************************************************************************)
EXTENDS BulkCreate, TLAPS

\* The cursor splits the items: those before it are with a runner or have a
\* result, those from it on are untouched.
CursorInv ==
    /\ \A r \in Runners : Busy(r) => index[r] \in Items /\ index[r] < cursor
    /\ \A i \in Items : i < cursor /\ results[i] = NoResult
                        => \E r \in Runners : Busy(r) /\ index[r] = i
    /\ \A i \in Items : i >= cursor => results[i] = NoResult

\* The abort event is set exactly when some result asks for it, and a runner
\* stops claiming only when there is nothing left to claim.
AbortInv ==
    /\ abort <=> \E i \in Items : results[i] \in Outcomes /\ ShouldAbort(results[i])
    /\ \A r \in Runners : pc[r] = "done" => abort \/ cursor >= Count

\* How the call's state follows from its runners'.
ToolInv ==
    /\ tool = "running" => \A r \in Runners : pc[r] # "crashed"
    /\ tool = "raising" => \E r \in Runners : pc[r] = "crashed"
    /\ tool = "returned" => report = results /\ \A r \in Runners : pc[r] = "done"
    /\ tool \in {"returned", "raised"} => client = "closed"

IInv == TypeOK /\ ClaimedOnce /\ CursorInv /\ AbortInv /\ ToolInv

\* No runner has claimed anything yet.
LEMMA InitInv == Init => IInv
<1> SUFFICES ASSUME Init PROVE IInv
  OBVIOUS
<1> USE RunnerAssumption DEF Init, Items, Busy
<1>1. TypeOK
  <2>1. cursor \in 0..Count /\ index \in [Runners -> Nat]
    OBVIOUS
  <2>2. abort \in BOOLEAN
    OBVIOUS
  <2>3. pc \in [Runners -> {"loop", "claimed", "sent", "done", "crashed"}]
    OBVIOUS
  <2> QED
    BY <2>1, <2>2, <2>3 DEF TypeOK
<1>2. ClaimedOnce /\ CursorInv /\ AbortInv /\ ToolInv
  BY DEF ClaimedOnce, CursorInv, AbortInv, ToolInv
<1> QED
  BY <1>1, <1>2 DEF IInv

\* Claiming hands a runner an item that nobody has or had.
LEMMA ClaimInv == ASSUME IInv, NEW r \in Runners, Claim(r) PROVE IInv'
<1> USE RunnerAssumption DEF IInv, Claim, Items
<1>1. TypeOK'
  BY DEF TypeOK, Runners
<1>2. cursor \in Items /\ results[cursor] = NoResult /\ results' = results
  BY DEF TypeOK, CursorInv
<1>3. ClaimedOnce'
  BY <1>2 DEF TypeOK, ClaimedOnce, CursorInv, Busy
<1>4. CursorInv'
  BY <1>2 DEF TypeOK, CursorInv, Busy
<1>5. AbortInv'
  BY <1>2 DEF TypeOK, AbortInv
<1>6. ToolInv'
  BY DEF TypeOK, ToolInv
<1> QED
  BY <1>1, <1>3, <1>4, <1>5, <1>6 DEF IInv

\* A result goes to the item its runner holds; only the last event can abort.
LEMMA FinishInv == ASSUME IInv, NEW r \in Runners, Finish(r) PROVE IInv'
<1> USE RunnerAssumption DEF IInv
<1> PICK o \in Outcomes : FinishWith(r, o)
  BY DEF Finish
<1>1. /\ index[r] \in Items /\ index[r] < cursor
      /\ results[index[r]] = NoResult /\ NoResult \notin Outcomes
      /\ UNCHANGED <<cursor, index, tool, report, client>>
      /\ pc' = [pc EXCEPT ![r] = "loop"]
      /\ pc[r] \in {"claimed", "sent"}
      /\ results' = [results EXCEPT ![index[r]] = o]
      /\ abort' = (abort \/ ShouldAbort(o))
  BY DEF FinishWith, CursorInv, ClaimedOnce, Busy
<1>2. TypeOK'
  <2>1. abort' \in BOOLEAN
    BY <1>1 DEF TypeOK, ShouldAbort
  <2> QED
    BY <1>1, <2>1 DEF TypeOK, Items
<1>3. ClaimedOnce'
  BY <1>1 DEF TypeOK, ClaimedOnce, CursorInv, Busy
<1>4. CursorInv'
  BY <1>1 DEF TypeOK, CursorInv, ClaimedOnce, Busy
<1>5. AbortInv'
  <2>1. /\ results'[index[r]] = o
        /\ \A i \in Items : i # index[r] => results'[i] = results[i]
    BY <1>1 DEF TypeOK
  <2>2. abort' <=> \E i \in Items : results'[i] \in Outcomes /\ ShouldAbort(results'[i])
    BY <1>1, <2>1 DEF AbortInv
  <2>3. \A s \in Runners : pc'[s] = "done" => pc[s] = "done"
    BY <1>1 DEF TypeOK
  <2> QED
    BY <1>1, <2>2, <2>3 DEF AbortInv
<1>6. ToolInv'
  BY <1>1 DEF TypeOK, ToolInv
<1> QED
  BY <1>2, <1>3, <1>4, <1>5, <1>6 DEF IInv

\* The remaining steps move only a runner's or the call's own state.
LEMMA OtherInv ==
    ASSUME IInv, NEW r \in Runners,
           Leave(r) \/ Send(r) \/ Crash(r) \/ Return \/ Raise
    PROVE  IInv'
<1> USE RunnerAssumption DEF IInv
<1>1. CASE Leave(r)
  <2> USE <1>1 DEF Leave
  <2>1. TypeOK'
    BY DEF TypeOK
  <2>2. ClaimedOnce' /\ CursorInv'
    BY DEF TypeOK, ClaimedOnce, CursorInv, Busy
  <2>3. AbortInv' /\ ToolInv'
    BY DEF TypeOK, AbortInv, ToolInv
  <2> QED
    BY <2>1, <2>2, <2>3
<1>2. CASE Send(r)
  <2> USE <1>2 DEF Send
  <2>1. TypeOK'
    BY DEF TypeOK
  <2>2. ClaimedOnce' /\ CursorInv'
    BY DEF TypeOK, ClaimedOnce, CursorInv, Busy
  <2>3. AbortInv' /\ ToolInv'
    BY DEF TypeOK, AbortInv, ToolInv
  <2> QED
    BY <2>1, <2>2, <2>3
<1>3. CASE Crash(r)
  <2> USE <1>3 DEF Crash
  <2>1. TypeOK'
    BY DEF TypeOK
  <2>2. ClaimedOnce' /\ CursorInv'
    BY DEF TypeOK, ClaimedOnce, CursorInv, Busy
  <2>3. AbortInv'
    BY DEF TypeOK, AbortInv
  <2>4. ToolInv'
    BY DEF TypeOK, ToolInv
  <2> QED
    BY <2>1, <2>2, <2>3, <2>4
<1>4. CASE Return
  BY <1>4 DEF Return, TypeOK, ClaimedOnce, CursorInv, AbortInv, ToolInv, Busy
<1>5. CASE Raise
  BY <1>5 DEF Raise, TypeOK, ClaimedOnce, CursorInv, AbortInv, ToolInv, Busy
<1> QED
  BY <1>1, <1>2, <1>3, <1>4, <1>5

LEMMA NextInv == IInv /\ [Next]_vars => IInv'
<1> SUFFICES ASSUME IInv, [Next]_vars PROVE IInv'
  OBVIOUS
<1>1. ASSUME NEW r \in Runners, RunnerStep(r) PROVE IInv'
  BY <1>1, ClaimInv, FinishInv, OtherInv DEF RunnerStep
<1>2. CASE Return
  BY <1>2 DEF IInv, Return, TypeOK, ClaimedOnce, CursorInv, AbortInv, ToolInv, Busy
<1>3. CASE Raise
  BY <1>3 DEF IInv, Raise, TypeOK, ClaimedOnce, CursorInv, AbortInv, ToolInv, Busy
<1>4. CASE UNCHANGED vars
  BY <1>4 DEF vars, IInv, TypeOK, ClaimedOnce, CursorInv, AbortInv, ToolInv, Busy
<1> QED
  BY <1>1, <1>2, <1>3, <1>4 DEF Next

\* The inductive invariant holds of every behaviour of _run_concurrent.
THEOREM Invariance == Spec => []IInv
BY InitInv, NextInv, PTL DEF Spec

\* Every variable keeps its type.
THEOREM TypeCorrect == Spec => []TypeOK
BY Invariance, PTL DEF IInv

\* Each index is claimed exactly once (bulk.py:107).
THEOREM IndexClaimedOnce == Spec => []ClaimedOnce
BY Invariance, PTL DEF IInv

\* A returned list has None only for items never started after an abort
\* (bulk.py:103-106).
THEOREM ReturnedListIsComplete == Spec => []NoneMeansNeverStarted
<1>1. IInv => NoneMeansNeverStarted
  <2> SUFFICES ASSUME IInv, tool = "returned", NEW i \in Items, report[i] = NoResult
               PROVE  i >= cursor /\ abort
    BY DEF NoneMeansNeverStarted
  <2>1. results[i] = NoResult /\ \A r \in Runners : ~Busy(r) /\ pc[r] = "done"
    BY DEF IInv, ToolInv, Busy
  <2>2. i >= cursor
    BY <2>1, RunnerAssumption DEF IInv, CursorInv, TypeOK, Items
  <2>3. 1 \in Runners
    BY RunnerAssumption DEF Runners, Items
  <2> QED
    BY <2>1, <2>2, <2>3, RunnerAssumption DEF IInv, AbortInv, TypeOK, Items
<1> QED
  BY <1>1, Invariance, PTL

\* An orphaned runner sends nothing once the call has ended.
THEOREM SilentAfterTheEnd == Spec => NothingSentAfterTheEnd
<1>1. IInv /\ [Next]_vars
      => [\A r \in Runners : tool \in {"returned", "raised"} /\ pc[r] # "sent"
                             => pc'[r] # "sent"]_vars
  <2> SUFFICES ASSUME IInv, Next, NEW r \in Runners,
                      tool \in {"returned", "raised"}, pc[r] # "sent"
               PROVE  pc'[r] # "sent"
    OBVIOUS
  <2>1. client = "closed" /\ pc \in [Runners -> {"loop", "claimed", "sent", "done", "crashed"}]
    BY DEF IInv, ToolInv, TypeOK
  <2>2. ASSUME NEW s \in Runners, RunnerStep(s) PROVE pc'[r] # "sent"
    BY <2>1, <2>2 DEF RunnerStep, Claim, Leave, Send, Finish, FinishWith, Crash
  <2> QED
    BY <2>2 DEF Next, Return, Raise
<1> QED
  BY <1>1, Invariance, PTL DEF Spec, NothingSentAfterTheEnd

-----------------------------------------------------------------------------
(* The fan-out implements Batch *)

Crashed(i) == \E r \in Runners : pc[r] = "crashed" /\ index[r] = i

\* What an item's status is, by cases.
LEMMA StatusCases ==
    ASSUME NEW i \in Items
    PROVE  /\ results[i] # NoResult => ItemStatus[i] = results[i]
           /\ results[i] = NoResult /\ Crashed(i) => ItemStatus[i] = "lost"
           /\ results[i] = NoResult /\ ~Crashed(i) /\ i < cursor => ItemStatus[i] = "running"
           /\ results[i] = NoResult /\ ~Crashed(i) /\ ~(i < cursor) => ItemStatus[i] = "waiting"
BY DEF ItemStatus, Crashed

\* An item is waiting exactly when the cursor has not reached it.
LEMMA WaitingItems ==
    ASSUME IInv, NEW i \in Items
    PROVE  ItemStatus[i] = "waiting" <=> i >= cursor
<1> USE RunnerAssumption DEF IInv, TypeOK, Items
<1>1. CASE results[i] # NoResult
  BY <1>1, StatusCases DEF CursorInv, Outcomes
<1>2. CASE results[i] = NoResult /\ Crashed(i)
  <2>1. i < cursor
    BY <1>2 DEF CursorInv, Crashed, Busy
  <2> QED
    BY <1>2, <2>1, StatusCases
<1>3. CASE results[i] = NoResult /\ ~Crashed(i)
  BY <1>3, StatusCases
<1> QED
  BY <1>1, <1>2, <1>3

\* The abort event is Batch's condition for stopping.
LEMMA AbortIsStopped == ASSUME IInv PROVE abort <=> Contract!Stopped
<1>1. ASSUME NEW i \in Items
      PROVE  ItemStatus[i] \in Outcomes <=> results[i] \in Outcomes
  BY <1>1, StatusCases, RunnerAssumption DEF IInv, TypeOK, Outcomes
<1>2. ASSUME NEW i \in Items, results[i] \in Outcomes
      PROVE  ItemStatus[i] = results[i]
  BY <1>2, StatusCases, RunnerAssumption
<1> QED
  BY <1>1, <1>2 DEF IInv, AbortInv, Contract!Stopped, Contract!Items, Items

\* An update of one item, read off item by item.
LEMMA ExtendStatus ==
    ASSUME NEW k \in Items, NEW v,
           \A i \in Items : ItemStatus'[i] = IF i = k THEN v ELSE ItemStatus[i]
    PROVE  ItemStatus' = [ItemStatus EXCEPT ![k] = v]
<1>1. ItemStatus = [i \in Items |-> ItemStatus[i]]
  BY DEF ItemStatus
<1>2. ItemStatus' = [i \in Items |-> ItemStatus'[i]]
  BY DEF ItemStatus
<1> QED
  BY <1>1, <1>2

LEMMA RefineClaim ==
    ASSUME IInv, NEW r \in Runners, Claim(r)
    PROVE  Contract!Start(cursor) /\ cursor \in Items
<1> USE RunnerAssumption
<1>1. cursor \in Items
  BY DEF IInv, TypeOK, Claim, Items
<1>2. ItemStatus[cursor] = "waiting"
  BY <1>1, WaitingItems DEF Items
<1>3. \A j \in Items : j < cursor => ItemStatus[j] # "waiting"
  BY <1>1, WaitingItems DEF Items
<1>4. ~Contract!Stopped
  BY AbortIsStopped DEF Claim
<1>5. ItemStatus' = [ItemStatus EXCEPT ![cursor] = "running"]
  <2>1. \A i \in Items : Crashed(i)' <=> Crashed(i)
    BY DEF Crashed, Claim, IInv, TypeOK
  <2>2. ~Crashed(cursor) /\ results[cursor] = NoResult
    BY <1>1 DEF IInv, CursorInv, Crashed, Busy, TypeOK, Items
  <2>3. \A i \in Items : (i < cursor)' <=> (i < cursor \/ i = cursor)
    BY DEF Claim, IInv, TypeOK, Items
  <2>4. results' = results
    BY DEF Claim
  <2>5. ASSUME NEW i \in Items
        PROVE  ItemStatus'[i] = IF i = cursor THEN "running" ELSE ItemStatus[i]
    BY <2>1, <2>2, <2>3, <2>4 DEF ItemStatus, Crashed
  <2> QED
    BY <1>1, <2>5, ExtendStatus
<1>6. UNCHANGED CallVerdict
  BY DEF Claim, CallVerdict
<1> QED
  BY <1>1, <1>2, <1>3, <1>4, <1>5, <1>6 DEF Contract!Start, Contract!Items, Items

LEMMA RefineFinish ==
    ASSUME IInv, NEW r \in Runners, Finish(r)
    PROVE  Contract!Finish(index[r]) /\ index[r] \in Items
<1> USE RunnerAssumption
<1> DEFINE k == index[r]
<1>1. k \in Items /\ k < cursor /\ results[k] = NoResult /\ ~Crashed(k)
  BY DEF IInv, CursorInv, ClaimedOnce, Finish, FinishWith, Busy, Crashed
<1>2. ItemStatus[k] = "running"
  BY <1>1, StatusCases
<1>3. PICK o \in Outcomes : results' = [results EXCEPT ![k] = o]
  BY DEF Finish, FinishWith
<1>4. ItemStatus' = [ItemStatus EXCEPT ![k] = o]
  <2>1. \A i \in Items : Crashed(i)' <=> Crashed(i)
    BY DEF Crashed, Finish, FinishWith, IInv, TypeOK
  <2>2. results'[k] = o /\ o # NoResult
    BY <1>1, <1>3 DEF IInv, TypeOK
  <2>3. \A i \in Items : i # k => results'[i] = results[i]
    BY <1>3 DEF IInv, TypeOK
  <2>4. cursor' = cursor
    BY DEF Finish, FinishWith
  <2>5. ASSUME NEW i \in Items
        PROVE  ItemStatus'[i] = IF i = k THEN o ELSE ItemStatus[i]
    BY <2>1, <2>2, <2>3, <2>4 DEF ItemStatus, Crashed
  <2> QED
    BY <1>1, <2>5, ExtendStatus
<1>5. UNCHANGED CallVerdict
  BY DEF Finish, FinishWith, CallVerdict
<1> QED
  BY <1>1, <1>2, <1>3, <1>4, <1>5 DEF Contract!Finish

LEMMA RefineCrash ==
    ASSUME IInv, NEW r \in Runners, Crash(r)
    PROVE  Contract!Finish(index[r]) /\ index[r] \in Items
<1> USE RunnerAssumption
<1> DEFINE k == index[r]
<1>1. k \in Items /\ k < cursor /\ results[k] = NoResult /\ ~Crashed(k)
  BY DEF IInv, CursorInv, ClaimedOnce, Crash, Busy, Crashed
<1>2. ItemStatus[k] = "running"
  BY <1>1, StatusCases
<1>3. ItemStatus' = [ItemStatus EXCEPT ![k] = "lost"]
  <2>1. \A i \in Items : Crashed(i)' <=> (Crashed(i) \/ i = k)
    BY DEF Crashed, Crash, IInv, TypeOK
  <2>2. results' = results /\ cursor' = cursor
    BY DEF Crash
  <2> QED
    BY <1>1, <2>1, <2>2 DEF ItemStatus, Crashed
<1>4. UNCHANGED CallVerdict
  BY DEF Crash, CallVerdict
<1> QED
  BY <1>1, <1>2, <1>3, <1>4 DEF Contract!Finish

\* Leaving the loop and sending a request do not show.
LEMMA RefineQuiet ==
    ASSUME IInv, NEW r \in Runners, Leave(r) \/ Send(r)
    PROVE  UNCHANGED <<ItemStatus, CallVerdict>>
<1>1. \A i \in Items : Crashed(i)' <=> Crashed(i)
  BY DEF Crashed, Leave, Send, IInv, TypeOK
<1>2. UNCHANGED <<results, cursor, tool>>
  BY DEF Leave, Send
<1> QED
  BY <1>1, <1>2 DEF ItemStatus, Crashed, CallVerdict

LEMMA RefineEnd ==
    ASSUME IInv, Return \/ Raise
    PROVE  Contract!Return \/ Contract!Raise
<1> USE RunnerAssumption
<1>1. UNCHANGED ItemStatus
  BY DEF Return, Raise, ItemStatus
<1>2. CASE Return
  <2>1. \A i \in Items : ~Crashed(i) /\ (i < cursor => results[i] # NoResult)
    BY <1>2 DEF Return, Crashed, IInv, CursorInv, Busy
  <2>2. ASSUME NEW i \in Items PROVE ItemStatus[i] \notin {"running", "lost"}
    BY <2>1, <2>2, StatusCases DEF IInv, TypeOK, Outcomes
  <2>3. abort \/ cursor >= Count
    <3>1. CASE Items = {}
      BY <3>1 DEF Items, IInv, TypeOK
    <3>2. CASE Items # {}
      <4>1. 1 \in Runners
        BY <3>2 DEF Runners, Items
      <4> QED
        BY <1>2, <4>1 DEF Return, IInv, AbortInv
    <3> QED
      BY <3>1, <3>2
  <2>4. Contract!Stopped \/ \A i \in Items : ItemStatus[i] # "waiting"
    BY <2>3, AbortIsStopped, WaitingItems DEF IInv, TypeOK, Items
  <2>5. CallVerdict = "open" /\ CallVerdict' = "returned"
    BY <1>2 DEF Return, CallVerdict
  <2> QED
    BY <1>1, <2>2, <2>4, <2>5 DEF Contract!Return, Contract!Items, Items
<1>3. CASE Raise
  <2>1. PICK r \in Runners : pc[r] = "crashed"
    BY <1>3 DEF Raise, IInv, ToolInv
  <2>2. index[r] \in Items /\ results[index[r]] = NoResult /\ Crashed(index[r])
    BY <2>1 DEF IInv, CursorInv, ClaimedOnce, Busy, Crashed
  <2>3. ItemStatus[index[r]] = "lost"
    BY <2>2, StatusCases
  <2>4. CallVerdict = "open" /\ CallVerdict' = "raised"
    BY <1>3 DEF Raise, CallVerdict
  <2> QED
    BY <1>1, <2>2, <2>3, <2>4 DEF Contract!Raise, Contract!Items, Items
<1> QED
  BY <1>2, <1>3

\* _run_concurrent keeps the promise of the bulk tools: items start in order,
\* none starts after a result that stops the batch, none is lost on a return.
THEOREM Refinement == Spec => ImplementsBatch
<1>1. Init => Contract!Init
  <2> SUFFICES ASSUME Init PROVE Contract!Init
    OBVIOUS
  <2>1. \A i \in Items : ItemStatus[i] = "waiting"
    BY StatusCases, RunnerAssumption DEF Init, Crashed, Items
  <2>2. ItemStatus = [i \in Items |-> "waiting"]
    BY <2>1 DEF ItemStatus
  <2> QED
    BY <2>2 DEF Init, Contract!Init, Contract!Items, Items, CallVerdict
<1>2. IInv /\ [Next]_vars => [Contract!Next]_<<ItemStatus, CallVerdict>>
  <2> SUFFICES ASSUME IInv, [Next]_vars
               PROVE  Contract!Next \/ UNCHANGED <<ItemStatus, CallVerdict>>
    OBVIOUS
  <2>1. ASSUME NEW r \in Runners, RunnerStep(r)
        PROVE  Contract!Next \/ UNCHANGED <<ItemStatus, CallVerdict>>
    BY <2>1, RefineClaim, RefineFinish, RefineCrash, RefineQuiet
       DEF RunnerStep, Contract!Next, Contract!Items, Items
  <2>2. CASE Return \/ Raise
    BY <2>2, RefineEnd DEF Contract!Next
  <2>3. CASE UNCHANGED vars
    BY <2>3 DEF vars, ItemStatus, CallVerdict
  <2> QED
    BY <2>1, <2>2, <2>3 DEF Next
<1> QED
  BY <1>1, <1>2, Invariance, PTL DEF Spec, ImplementsBatch, Contract!Spec

-----------------------------------------------------------------------------
(* bulk_create_issues *)

CreateTypes ==
    /\ batch \in Batches
    /\ project \in [Subjects -> Nat]
    /\ checked \subseteq Runners /\ blind \subseteq Runners /\ made \subseteq Items
    /\ since \in [Runners -> SUBSET Subjects]
    /\ kind \in [Items -> {NoResult, "created", "skipped", "failed"}]

\* A runner that is about to create an issue has found that there is none, or could
\* not have found it.
LookedInv ==
    /\ \A r \in checked : pc[r] # "loop"
    /\ \A r \in checked : pc[r] = "claimed" => project[Subject(r)] = 0 \/ Unseen(r)

\* The item of a runner that has yet to create an issue has none of its own; what was
\* made is reported, or still with its runner; what has a result has no runner.
MadeInv ==
    /\ \A r \in Runners : pc[r] = "claimed" => index[r] \notin made
    /\ \A i \in made : i < cursor
    /\ \A i \in Items : kind[i] # NoResult => results[i] # NoResult
    /\ \A i \in Items : kind[i] = "created" => i \in made
    /\ \A i \in Items : kind[i] = "skipped" => project[batch[i]] > 0
    /\ \A i \in made : \/ kind[i] \in {"created", "failed"}
                       \/ \E r \in Runners : pc[r] \in {"sent", "crashed"} /\ index[r] = i

CreateInv == IInv /\ CreateTypes /\ LookedInv /\ MadeInv

\* The start.
LEMMA CreateInitInv == CreateInit => CreateInv
<1> SUFFICES ASSUME CreateInit PROVE CreateInv
  OBVIOUS
<1>1. IInv
  BY InitInv DEF CreateInit
<1>2. CreateTypes
  BY DEF CreateInit, CreateTypes
<1>3. LookedInv /\ MadeInv
  BY CreateAssumption DEF CreateInit, LookedInv, MadeInv
<1> QED
  BY <1>1, <1>2, <1>3 DEF CreateInv

\* What the batch and its runners are.
LEMMA BatchFacts ==
    ASSUME CreateInv
    PROVE  /\ batch \in [Items -> Subjects]
           /\ \A r \in Runners : Busy(r) => index[r] \in Items /\ index[r] < cursor
           /\ \A r \in Runners : Busy(r) => batch[index[r]] \in Subjects
           /\ \A r \in Runners : Busy(r) => results[index[r]] = NoResult
           /\ \A r \in Runners : Busy(r) => kind[index[r]] = NoResult
BY CreateAssumption DEF CreateInv, CreateTypes, IInv, CursorInv, ClaimedOnce, MadeInv

\* What a look-up said stays so for a runner that nothing changes for.
LEMMA LookedKept ==
    ASSUME CreateInv, UNCHANGED <<project, batch>>, checked' \subseteq checked,
           \A r \in checked' : /\ index'[r] = index[r] /\ since'[r] = since[r]
                               /\ r \in blind <=> r \in blind'
                               /\ pc'[r] = pc[r] \/ pc'[r] \in {"sent", "crashed", "done"}
    PROVE  LookedInv'
BY DEF CreateInv, LookedInv, Unseen, Subject

\* The end of an item.
LEMMA EndsKeeps ==
    ASSUME CreateInv, NEW r \in Runners, NEW o \in Outcomes,
           NEW k \in {"created", "skipped", "failed"}, Ends(r, o, k),
           UNCHANGED <<project, made>>,
           k = "created" => index[r] \in made,
           k = "skipped" => index[r] \notin made /\ project[batch[index[r]]] > 0
    PROVE  CreateInv'
<1>1. /\ Busy(r) /\ results' = [results EXCEPT ![index[r]] = o]
      /\ pc' = [pc EXCEPT ![r] = "loop"]
      /\ kind' = [kind EXCEPT ![index[r]] = k]
      /\ checked' = checked \ {r} /\ blind' = blind \ {r} /\ since' = [since EXCEPT ![r] = {}]
      /\ UNCHANGED <<batch, project, made, cursor, index>>
  BY DEF Ends, FinishWith, Busy
<1>2. IInv'
  BY FinishInv DEF CreateInv, Ends, Finish
<1>3. index[r] \in Items /\ o # NoResult /\ k # NoResult
  BY <1>1, BatchFacts, RunnerAssumption, CreateAssumption
<1>4. CreateTypes'
  BY <1>1, <1>3 DEF CreateInv, CreateTypes
<1>5. pc \in [Runners -> {"loop", "claimed", "sent", "done", "crashed"}]
      /\ results \in [Items -> Outcomes \cup {NoResult}]
  BY DEF CreateInv, IInv, TypeOK
<1>6. LookedInv'
  BY <1>1, <1>5, LookedKept DEF CreateInv, CreateTypes
<1>7. MadeInv'
  <2>1. \A s \in Runners : pc'[s] = "claimed" => index'[s] \notin made'
    BY <1>1, <1>5 DEF CreateInv, MadeInv
  <2>2. /\ \A i \in made' : i < cursor'
        /\ \A i \in Items : kind'[i] # NoResult => results'[i] # NoResult
        /\ \A i \in Items : kind'[i] = "created" => i \in made'
        /\ \A i \in Items : kind'[i] = "skipped" => project'[batch'[i]] > 0
    BY <1>1, <1>3, <1>5 DEF CreateInv, CreateTypes, MadeInv
  <2>3. ASSUME NEW i \in made
        PROVE  \/ kind'[i] \in {"created", "failed"}
               \/ \E s \in Runners : pc'[s] \in {"sent", "crashed"} /\ index'[s] = i
    <3>1. CASE i = index[r]
      BY <1>1, <1>3, <3>1 DEF CreateInv, CreateTypes
    <3>2. CASE i # index[r]
      BY <1>1, <1>5, <3>2 DEF CreateInv, CreateTypes, MadeInv
    <3> QED
      BY <3>1, <3>2
  <2> QED
    BY <1>1, <2>1, <2>2, <2>3 DEF MadeInv
<1> QED
  BY <1>2, <1>4, <1>6, <1>7 DEF CreateInv

\* An item that failed.
LEMMA FailsKeeps ==
    ASSUME CreateInv, NEW r \in Runners, FailsWith(r), UNCHANGED <<project, made>>
    PROVE  CreateInv'
BY EndsKeeps DEF FailsWith, Outcomes

\* A look-up that lets the item go on.
LEMMA LooksFreeKeeps ==
    ASSUME CreateInv, NEW r \in Runners, pc[r] = "claimed", LooksFree(r),
           UNCHANGED <<project, made>>,
           blind' = blind \/ blind' = blind \cup {r},
           project[Subject(r)] = 0 \/ MayOverlook(r) \/ r \in blind'
    PROVE  CreateInv'
<1>1. checked' = checked \cup {r} /\ UNCHANGED <<vars, batch, project, made, since, kind>>
  BY DEF LooksFree
<1>2. IInv'
  BY <1>1 DEF vars, CreateInv, IInv, TypeOK, ClaimedOnce, CursorInv, AbortInv, ToolInv, Busy
<1>3. CreateTypes' /\ MadeInv'
  BY <1>1 DEF vars, CreateInv, CreateTypes, MadeInv
<1>4. ASSUME NEW s \in checked'
      PROVE  /\ pc'[s] # "loop"
             /\ pc'[s] = "claimed" => project'[Subject(s)'] = 0 \/ Unseen(s)'
  <2>1. CASE s = r
    BY <1>1, <2>1 DEF vars, Unseen, Subject, MayOverlook
  <2>2. CASE s # r
    BY <1>1, <2>2 DEF vars, CreateInv, LookedInv, Unseen, Subject
  <2> QED
    BY <2>1, <2>2
<1>5. LookedInv'
  BY <1>4 DEF LookedInv
<1> QED
  BY <1>2, <1>3, <1>5 DEF CreateInv

\* The look-up ends the item, finds nothing, or is refused.
LEMMA PreCheckKeeps == ASSUME CreateInv, NEW r \in Runners, PreCheck(r) PROVE CreateInv'
<1>1. pc[r] = "claimed" /\ Busy(r) /\ UNCHANGED <<project, made>>
  BY DEF PreCheck, Busy
<1>2. index[r] \notin made /\ project[Subject(r)] \in Nat
  BY <1>1, BatchFacts DEF CreateInv, MadeInv, CreateTypes, Subject
<1>3. CASE Found(r) /\ (IF OnDuplicate = "skip" THEN Ends(r, "ok", "skipped")
                                               ELSE Ends(r, "error", "failed"))
  BY <1>1, <1>2, <1>3, EndsKeeps DEF Found, Subject, Outcomes
<1>4. CASE (~Found(r) \/ MayOverlook(r)) /\ LooksFree(r) /\ UNCHANGED blind
  BY <1>1, <1>2, <1>4, LooksFreeKeeps DEF Found
<1>5. CASE LooksFree(r) /\ blind' = blind \cup {r}
  BY <1>1, <1>5, LooksFreeKeeps
<1>6. CASE FailsWith(r)
  BY <1>1, <1>6, FailsKeeps
<1> QED
  BY <1>3, <1>4, <1>5, <1>6 DEF PreCheck, TakenForNone

\* An issue that appears is one that the look-ups before it could not show.
LEMMA AppearsKeeps ==
    ASSUME CreateInv, NEW s \in Subjects, NEW by,
           \A t \in Subjects \ {s} : project'[t] = project[t], Appears(s, by),
           UNCHANGED <<batch, checked, blind, index>>,
           \A r \in checked : pc'[r] = pc[r] \/ pc'[r] = "sent",
           \A r \in by : pc'[r] # "claimed"
    PROVE  LookedInv' /\ since' \in [Runners -> SUBSET Subjects]
<1>1. since' = [r \in Runners |-> since[r] \cup IF r \in checked \ by THEN {s} ELSE {}]
  BY DEF Appears
<1>2. since' \in [Runners -> SUBSET Subjects]
  BY <1>1 DEF CreateInv, CreateTypes
<1>3. ASSUME NEW r \in checked
      PROVE  pc'[r] = "claimed" => project'[Subject(r)'] = 0 \/ Unseen(r)'
  <2>1. r \in Runners
    BY DEF CreateInv, CreateTypes
  <2>2. CASE r \notin by /\ Subject(r) = s
    BY <1>1, <2>1, <2>2 DEF Unseen, Subject
  <2>3. CASE r \notin by /\ Subject(r) # s /\ pc[r] = "claimed"
    <3>1. Subject(r) \in Subjects /\ Subject(r)' = Subject(r)
      BY <2>1, <2>3, BatchFacts DEF Busy, Subject
    <3>2. project[Subject(r)] = 0 \/ Unseen(r)
      BY <2>3 DEF CreateInv, LookedInv
    <3>3. Unseen(r) => Unseen(r)'
      BY <1>1, <2>1, <3>1 DEF CreateInv, CreateTypes, Unseen
    <3> QED
      BY <2>3, <3>1, <3>2, <3>3
  <2> QED
    BY <2>2, <2>3
<1> QED
  BY <1>2, <1>3 DEF CreateInv, LookedInv

\* The POST.
LEMMA PostKeeps == ASSUME CreateInv, NEW r \in Runners, Post(r) PROVE CreateInv'
<1>1. /\ pc[r] = "claimed" /\ Busy(r)
      /\ pc' = [pc EXCEPT ![r] = "sent"]
      /\ UNCHANGED <<cursor, abort, results, index, tool, report, client>>
      /\ UNCHANGED <<batch, checked, blind, kind, calls>>
  BY DEF Post, Send, Busy
<1>2. /\ index[r] \in Items /\ index[r] < cursor /\ kind[index[r]] = NoResult
      /\ pc \in [Runners -> {"loop", "claimed", "sent", "done", "crashed"}]
      /\ Subject(r) \in Subjects
  BY <1>1, BatchFacts DEF CreateInv, IInv, TypeOK, Subject
<1>3. IInv'
  BY OtherInv DEF Post, CreateInv
<1>4. CASE UNCHANGED <<project, made, since>>
  <2>1. LookedInv'
    BY <1>1, <1>2, <1>4, LookedKept DEF CreateInv, CreateTypes
  <2> QED
    BY <1>1, <1>2, <1>3, <1>4, <2>1 DEF CreateInv, CreateTypes, MadeInv
<1>5. CASE /\ project' = [project EXCEPT ![Subject(r)] = @ + 1]
           /\ made' = made \cup {index[r]}
           /\ Appears(Subject(r), {r})
  <2>1. /\ project \in [Subjects -> Nat] /\ project[Subject(r)] + 1 \in Nat \ {0}
        /\ project' = [project EXCEPT ![Subject(r)] = project[Subject(r)] + 1]
    BY <1>2, <1>5 DEF CreateInv, CreateTypes
  <2>2. LookedInv' /\ since' \in [Runners -> SUBSET Subjects]
    <3>1. \A q \in checked : pc'[q] = pc[q] \/ pc'[q] = "sent"
      BY <1>1, <1>2 DEF CreateInv, CreateTypes
    <3>2. \A q \in {r} : pc'[q] # "claimed"
      BY <1>1, <1>2
    <3>3. PICK s \in Subjects : s = Subject(r)
      BY <1>2
    <3>4. /\ \A t \in Subjects \ {s} : project'[t] = project[t]
          /\ Appears(s, {r})
      BY <1>5, <2>1, <3>3
    <3>5. UNCHANGED <<batch, checked, blind, index>>
      BY <1>1
    <3> QED
      BY <3>1, <3>2, <3>4, <3>5, AppearsKeeps
  <2>3. CreateTypes'
    BY <1>1, <1>2, <1>5, <2>1, <2>2 DEF CreateInv, CreateTypes
  <2>4. \A s \in Runners : s # r /\ pc[s] = "claimed" => index[s] # index[r]
    BY <1>1 DEF CreateInv, IInv, ClaimedOnce, Busy
  <2>5. MadeInv'
    <3>1. \A s \in Runners : pc'[s] = "claimed" => index'[s] \notin made'
      BY <1>1, <1>2, <1>5, <2>4 DEF CreateInv, MadeInv
    <3>2. \A i \in made' : i < cursor'
      BY <1>1, <1>2, <1>5 DEF CreateInv, MadeInv
    <3>3. /\ \A i \in Items : kind'[i] # NoResult => results'[i] # NoResult
          /\ \A i \in Items : kind'[i] = "created" => i \in made'
      BY <1>1, <1>5 DEF CreateInv, MadeInv
    <3>4. \A i \in Items : kind'[i] = "skipped" => project'[batch'[i]] > 0
      <4>1. \A t \in Subjects : project[t] > 0 => project'[t] > 0
        BY <2>1
      <4>2. \A i \in Items : batch[i] \in Subjects
        BY BatchFacts
      <4> QED
        BY <1>1, <4>1, <4>2 DEF CreateInv, MadeInv
    <3>5. ASSUME NEW i \in made'
          PROVE  \/ kind'[i] \in {"created", "failed"}
                 \/ \E s \in Runners : pc'[s] \in {"sent", "crashed"} /\ index'[s] = i
      <4>1. CASE i = index[r]
        BY <1>1, <1>2, <4>1
      <4>2. CASE i # index[r]
        BY <1>1, <1>2, <1>5, <4>2 DEF CreateInv, MadeInv
      <4> QED
        BY <4>1, <4>2
    <3> QED
      BY <3>1, <3>2, <3>3, <3>4, <3>5 DEF MadeInv
  <2> QED
    BY <1>3, <2>2, <2>3, <2>5 DEF CreateInv
<1> QED
  BY <1>4, <1>5 DEF Post

\* Somebody else's issue.
LEMMA ElsewhereKeeps == ASSUME CreateInv, Elsewhere PROVE CreateInv'
<1>1. PICK s \in Subjects : /\ project[s] = 0
                            /\ project' = [project EXCEPT ![s] = 1]
                            /\ Appears(s, {})
  BY DEF Elsewhere
<1>2. UNCHANGED <<vars, batch, checked, blind, made, kind, calls>>
  BY DEF Elsewhere
<1>3. IInv'
  BY <1>2 DEF vars, CreateInv, IInv, TypeOK, ClaimedOnce, CursorInv, AbortInv, ToolInv, Busy
<1>4. UNCHANGED <<pc, index, cursor, results>>
  BY <1>2 DEF vars
<1>5. LookedInv' /\ since' \in [Runners -> SUBSET Subjects]
  <2>1. \A r \in checked : pc'[r] = pc[r] \/ pc'[r] = "sent"
    BY <1>4
  <2>2. /\ \A t \in Subjects \ {s} : project'[t] = project[t]
        /\ Appears(s, {})
    BY <1>1 DEF CreateInv, CreateTypes
  <2>3. UNCHANGED <<batch, checked, blind, index>>
    BY <1>2, <1>4
  <2> QED
    BY <2>1, <2>2, <2>3, AppearsKeeps
<1>6. CreateTypes' /\ MadeInv'
  <2>1. \A t \in Subjects : project[t] > 0 => project'[t] > 0
    BY <1>1 DEF CreateInv, CreateTypes
  <2>2. \A i \in Items : batch[i] \in Subjects
    BY BatchFacts
  <2>3. CreateTypes'
    BY <1>1, <1>2, <1>5 DEF CreateInv, CreateTypes
  <2>4. MadeInv'
    BY <1>2, <1>4, <2>1, <2>2 DEF CreateInv, MadeInv
  <2> QED
    BY <2>3, <2>4
<1> QED
  BY <1>3, <1>5, <1>6 DEF CreateInv

\* The runner's own steps.
LEMMA LoopKeeps == ASSUME CreateInv, NEW r \in Runners, Loop(r) PROVE CreateInv'
<1>1. IInv'
  BY ClaimInv, OtherInv DEF Loop, CreateInv
<1>2. UNCHANGED <<batch, project, checked, blind, since, made, kind, results>>
  BY DEF Loop, createVars, looked, Claim, Leave, Crash
<1>3. cursor \in Nat /\ pc \in [Runners -> {"loop", "claimed", "sent", "done", "crashed"}]
      /\ index \in [Runners -> Nat] /\ made \subseteq Items
  BY RunnerAssumption DEF CreateInv, IInv, TypeOK, CreateTypes
<1>4. CreateTypes'
  BY <1>2 DEF CreateInv, CreateTypes
<1>5. CASE Claim(r)
  <2>1. /\ pc[r] = "loop" /\ cursor' = cursor + 1
        /\ pc' = [pc EXCEPT ![r] = "claimed"] /\ index' = [index EXCEPT ![r] = cursor]
    BY <1>5 DEF Claim
  <2>2. r \notin checked
    BY <2>1 DEF CreateInv, LookedInv
  <2>3. LookedInv'
    BY <1>2, <1>3, <2>1, <2>2, LookedKept DEF CreateInv, CreateTypes
  <2>4. \A i \in made : i \in Int /\ i < cursor
    BY <1>3 DEF Items, CreateInv, MadeInv
  <2>5. \A s \in Runners : pc'[s] = "claimed" => index'[s] \notin made'
    BY <1>2, <1>3, <2>1, <2>4 DEF CreateInv, MadeInv
  <2>6. \A i \in made' : i < cursor'
    BY <1>2, <1>3, <2>1, <2>4
  <2>7. \A i \in made' : \/ kind'[i] \in {"created", "failed"}
                         \/ \E s \in Runners : pc'[s] \in {"sent", "crashed"} /\ index'[s] = i
    BY <1>2, <1>3, <2>1 DEF CreateInv, MadeInv
  <2>8. MadeInv'
    BY <1>2, <2>5, <2>6, <2>7 DEF CreateInv, MadeInv
  <2> QED
    BY <1>1, <1>4, <2>3, <2>8 DEF CreateInv
<1>6. CASE Leave(r) \/ Crash(r)
  <2>1. /\ UNCHANGED <<cursor, index>>
        /\ \A s \in Runners : \/ pc'[s] = pc[s]
                              \/ pc[s] \in {"loop", "claimed"} /\ pc'[s] \in {"done", "crashed"}
                              \/ pc[s] = "sent" /\ pc'[s] = "crashed"
    BY <1>3, <1>6 DEF Leave, Crash
  <2>2. LookedInv'
    BY <1>2, <2>1, LookedKept DEF CreateInv, CreateTypes
  <2>3. MadeInv'
    BY <1>2, <2>1 DEF CreateInv, MadeInv
  <2> QED
    BY <1>1, <1>4, <2>2, <2>3 DEF CreateInv
<1> QED
  BY <1>5, <1>6 DEF Loop

\* A batch that is submitted again finds what was created.
LEMMA AgainKeeps == ASSUME CreateInv, Again PROVE CreateInv'
<1>1. Init'
  BY DEF Again, Init
<1>2. IInv'
  BY <1>1, InitInv, PTL
<1>3. /\ UNCHANGED <<batch, project>> /\ checked' = {} /\ blind' = {} /\ made' = {}
      /\ since' = [r \in Runners |-> {}]
      /\ kind' = [i \in Items |-> NoResult]
      /\ pc' = [r \in Runners |-> "loop"]
  BY DEF Again
<1>4. CreateTypes' /\ LookedInv' /\ MadeInv'
  BY <1>3, CreateAssumption DEF CreateInv, CreateTypes, LookedInv, MadeInv
<1> QED
  BY <1>2, <1>4 DEF CreateInv

\* The invariant of bulk_create_issues.
THEOREM CreateInvariance == CreateSpec => []CreateInv
<1>1. CreateInv /\ [CreateNext]_allVars => CreateInv'
  <2> SUFFICES ASSUME CreateInv, [CreateNext]_allVars PROVE CreateInv'
    OBVIOUS
  <2>1. ASSUME NEW r \in Runners, CreateStep(r) PROVE CreateInv'
    <3>1. CASE Created(r)
      BY <3>1, EndsKeeps DEF Created, Outcomes
    <3>2. CASE NotCreated(r)
      BY <3>2, FailsKeeps DEF NotCreated
    <3> QED
      BY <2>1, <3>1, <3>2, LoopKeeps, PreCheckKeeps, PostKeeps DEF CreateStep
  <2>2. CASE EndCall
    <3>1. UNCHANGED <<batch, project, checked, blind, since, made, kind, cursor, results, pc, index>>
      BY <2>2 DEF EndCall, createVars, looked, Return, Raise
    <3>2. IInv'
      BY <2>2, NextInv DEF EndCall, Next, CreateInv
    <3> QED
      BY <3>1, <3>2 DEF CreateInv, CreateTypes, LookedInv, MadeInv, Unseen, Subject
  <2>3. CASE UNCHANGED allVars
    <3>1. UNCHANGED vars /\ UNCHANGED createVars
      BY <2>3 DEF allVars
    <3>2. IInv'
      BY <3>1, NextInv DEF CreateInv
    <3> QED
      BY <3>1, <3>2 DEF vars, createVars, looked, CreateInv, CreateTypes, LookedInv, MadeInv,
         Unseen, Subject
  <2> QED
    BY <2>1, <2>2, <2>3, AgainKeeps, ElsewhereKeeps DEF CreateNext
<1> QED
  BY <1>1, CreateInitInv, PTL DEF CreateSpec

\* For any number of items, runners and repetitions: a subject that has an issue gets
\* another one only when the caller asks for it, or its look-up was refused, was shown
\* too few issues, or came before the other issue.
THEOREM CreatesNothingTwice == CreateSpec => RepeatsAreSafe
<1>1. CreateInv /\ [CreateNext]_allVars
      => [\A r \in Runners :
            pc'[r] = "sent" /\ project'[Subject(r)] > project[Subject(r)] /\ project[Subject(r)] > 0
            => pc[r] = "sent" \/ OnDuplicate = "create_anyway" \/ Unseen(r)]_allVars
  <2> SUFFICES ASSUME CreateInv, CreateNext, NEW r \in Runners,
                      pc'[r] = "sent", project[Subject(r)] > 0, pc[r] # "sent",
                      OnDuplicate # "create_anyway"
               PROVE  Unseen(r)
    OBVIOUS
  <2> USE DEF CreateInv, IInv, TypeOK
  <2>1. ~EndCall /\ ~Again /\ ~Elsewhere
    BY DEF EndCall, Return, Raise, Again, Elsewhere, vars
  <2>2. ASSUME NEW s \in Runners, s # r PROVE ~CreateStep(s)
    BY <2>2 DEF CreateStep, Loop, Claim, Leave, Crash, PreCheck, LooksFree, FailsWith, Ends,
       FinishWith, Post, Send, Created, NotCreated, vars
  <2>3. Post(r)
    BY <2>1, <2>2 DEF CreateNext, CreateStep, Loop, Claim, Leave, Crash, PreCheck, LooksFree,
       FailsWith, Ends, FinishWith, Created, NotCreated, vars
  <2>4. r \in checked /\ pc[r] = "claimed"
    BY <2>3 DEF Post, MayPost, Send
  <2> QED
    BY <2>4 DEF LookedInv
<1> QED
  BY <1>1, CreateInvariance, PTL DEF CreateSpec, RepeatsAreSafe

\* For any number of items, runners and repetitions the report of a call that returns
\* agrees with Redmine.
THEOREM ReportsAreTrue == CreateSpec => []ReportIsTrue
<1>1. CreateInv => ReportIsTrue
  BY DEF CreateInv, CreateTypes, IInv, ToolInv, MadeInv, ReportIsTrue
<1> QED
  BY <1>1, CreateInvariance, PTL
=============================================================================
