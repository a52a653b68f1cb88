----------------------------- MODULE BulkCreate -----------------------------
(***************************************************************************)
(* tools/bulk.py: bulk_create_issues.  Each item of the batch runs         *)
(* `process`: look the subject up, then create the issue, on the runners   *)
(* of BulkRunner (one runner is the sequential loop).  The caller may      *)
(* repeat the whole batch after a call that failed.                        *)
(***************************************************************************)
EXTENDS BulkRunner

CONSTANTS
    Subjects,
    Batches,      \* the batches a caller may submit: item -> subject
    OnDuplicate,  \* "skip", "fail" or "create_anyway"
    Crowded,      \* subjects contained in five or more newer ones
    MaxCalls      \* bound on the times the batch is submitted

ASSUME CreateAssumption ==
    /\ Batches \subseteq [Items -> Subjects]
    /\ OnDuplicate \in {"skip", "fail", "create_anyway"}
    /\ Crowded \subseteq Subjects
    /\ NoResult \notin {"created", "skipped", "failed"}
    /\ MaxCalls \in Nat \ {0}

VARIABLES
    batch,     \* the submitted specs
    project,   \* how many issues of each subject Redmine has
    checked,   \* runners whose pre-check found no duplicate
    blind,     \* history: those of them whose look-up Redmine refused
    since,     \* history: subjects that got an issue after a runner's look-up
    made,      \* history: items whose POST Redmine committed in this call
    kind,      \* per-item status: "created", "skipped" or "failed"
    calls

looked == <<checked, blind, since>>
createVars == <<batch, project, looked, made, kind, calls>>
allVars == <<vars, createVars>>

CreateInit ==
    /\ Init
    /\ batch \in Batches
    /\ project \in [Subjects -> 0..1]
    /\ checked = {} /\ blind = {} /\ since = [r \in Runners |-> {}]
    /\ made = {}
    /\ kind = [i \in Items |-> NoResult]
    /\ calls = 1

Subject(r) == batch[index[r]]

\* process returns a result whose status is k
Ends(r, o, k) ==
    /\ FinishWith(r, o)
    /\ kind' = [kind EXCEPT ![index[r]] = k]
    /\ checked' = checked \ {r} /\ blind' = blind \ {r}
    /\ since' = [since EXCEPT ![r] = {}]
    /\ UNCHANGED <<batch, calls>>

FailsWith(r) == \E o \in {"error", "server_error"} : Ends(r, o, "failed")

\* _find_existing_by_subject asks for five substring matches and keeps an
\* exact one; newer look-alikes can push it off the page
Found(r) == project[Subject(r)] > 0
MayOverlook(r) == Subject(r) \in Crowded

TakenForNoneAlways(e) == TRUE   \* mutant: any failure of the look-up is swallowed
\* A 404 or a 422 ("refused"), like an answer that is no object, counts as "no such
\* issue"; any other failure ("broken") does not
TakenForNone(e) == e = "refused"

\* The look-up lets the item go on to its POST
LooksFree(r) == /\ checked' = checked \cup {r}
                /\ UNCHANGED <<vars, batch, kind, since, calls>>

PreCheck(r) ==
    /\ pc[r] = "claimed" /\ r \notin checked /\ client = "open"
    /\ OnDuplicate \in {"skip", "fail"}
    /\ \/ /\ Found(r)
          /\ IF OnDuplicate = "skip" THEN Ends(r, "ok", "skipped") ELSE Ends(r, "error", "failed")
       \/ (~Found(r) \/ MayOverlook(r)) /\ LooksFree(r) /\ UNCHANGED blind
       \/ \E e \in {"refused", "broken"} :
            IF TakenForNone(e)
            THEN LooksFree(r) /\ blind' = IF e = "refused" THEN blind \cup {r} ELSE blind
            ELSE FailsWith(r)   \* refuse to create
    /\ UNCHANGED <<project, made>>

MayPost(r) == r \in checked \/ OnDuplicate = "create_anyway"

\* An issue of subject s appears: those who have looked already do not know
Appears(s, by) ==
    since' = [r \in Runners |-> since[r] \cup IF r \in checked \ by THEN {s} ELSE {}]

\* create_issue: its POST reaches Redmine and is committed, or is not
Post(r) ==
    /\ MayPost(r)
    /\ Send(r)
    /\ \/ /\ project' = [project EXCEPT ![Subject(r)] = @ + 1]
          /\ made' = made \cup {index[r]}
          /\ Appears(Subject(r), {r})
       \/ UNCHANGED <<project, made, since>>
    /\ UNCHANGED <<batch, checked, blind, kind, calls>>

CreatedUnexamined(r) ==   \* mutant: the answer is not searched for an error
    /\ pc[r] = "sent"
    /\ Ends(r, "ok", "created")
    /\ UNCHANGED <<project, made>>

\* create_issue answers; a committed POST may still be reported as failed
\* (lost answer), and validation may fail before any POST
Created(r) == /\ pc[r] = "sent" /\ index[r] \in made
              /\ Ends(r, "ok", "created")
              /\ UNCHANGED <<project, made>>
NotCreated(r) == /\ pc[r] = "sent" \/ MayPost(r)
                 /\ FailsWith(r)
                 /\ UNCHANGED <<project, made>>

\* Steps of the runner itself, and an exception that process lets through
Loop(r) == /\ Claim(r) \/ Leave(r) \/ Crash(r)
           /\ UNCHANGED createVars

EndCall == (Return \/ Raise) /\ UNCHANGED createVars

\* The caller submits the batch again once its runners are gone
Again ==
    /\ tool \in {"returned", "raised"} /\ calls < MaxCalls
    /\ \A r \in Runners : pc[r] \in {"done", "crashed"}
    /\ cursor' = 0 /\ abort' = FALSE
    /\ results' = [i \in Items |-> NoResult] /\ report' = [i \in Items |-> NoResult]
    /\ pc' = [r \in Runners |-> "loop"] /\ index' = [r \in Runners |-> 0]
    /\ tool' = "running" /\ client' = "open"
    /\ checked' = {} /\ blind' = {} /\ since' = [r \in Runners |-> {}]
    /\ made' = {}
    /\ kind' = [i \in Items |-> NoResult]
    /\ calls' = calls + 1
    /\ UNCHANGED <<batch, project>>

\* Somebody else creates the first issue of a subject
Elsewhere ==
    /\ \E s \in Subjects : /\ project[s] = 0
                          /\ project' = [project EXCEPT ![s] = 1]
                          /\ Appears(s, {})
    /\ UNCHANGED <<vars, batch, checked, blind, made, kind, calls>>

CreateStep(r) == Loop(r) \/ PreCheck(r) \/ Post(r) \/ Created(r) \/ NotCreated(r)
CreateNext == (\E r \in Runners : CreateStep(r)) \/ EndCall \/ Again \/ Elsewhere

CreateSpec == CreateInit /\ [][CreateNext]_allVars

-----------------------------------------------------------------------------
(* Properties *)

\* The issue of r's subject may be one that its look-up could not show: Redmine refused
\* the look-up, the page of five was full of look-alikes, or the issue came after it.
Unseen(r) == r \in blind \/ Subject(r) \in Crowded \cup since[r]

\* "subject-based idempotency" (bulk.py:5): however often the batch is repeated, however
\* its items interleave and whatever fails, a subject that has an issue gets another one
\* only when the caller asks for it, or the look-up could not show the issue.
RepeatsAreSafe ==
    [][\A r \in Runners :
          pc'[r] = "sent" /\ project'[Subject(r)] > project[Subject(r)] /\ project[Subject(r)] > 0
          => pc[r] = "sent" \/ OnDuplicate = "create_anyway" \/ Unseen(r)]_allVars

\* The report of a call that returns agrees with Redmine: what it calls created was made
\* by this call; what it calls skipped was not, because an issue is there; what it leaves
\* out as aborted made nothing; and what was made is called created or, when the answer
\* was lost, failed, so that repeating the failed items alone can be right.
ReportIsTrue ==
    tool = "returned" =>
        \A i \in Items :
            /\ kind[i] = "created" => i \in made
            /\ kind[i] = "skipped" => project[batch[i]] > 0
            /\ i \in made => kind[i] \in {"created", "failed"}
=============================================================================
