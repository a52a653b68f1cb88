-------------------------------- MODULE Batch --------------------------------
(***************************************************************************)
(* What a bulk tool promises about its items (tools/bulk.py:19-24, 103-109 *)
(* and 392-395): they start in input order, none starts once a result has  *)
(* asked to stop, each ends at most once, and the call returns only when   *)
(* every started item has ended.  BulkRunner implements this.              *)
(***************************************************************************)
EXTENDS Integers

CONSTANTS
    Count,          \* number of items
    Outcomes,       \* what a per-item result may say
    Stops(_)        \* results after which no further item may start

Items == 0..Count - 1

VARIABLES
    status,         \* "waiting", "running", "lost" (its worker raised) or an outcome
    verdict         \* of the call: "open", "returned" or "raised"

Init == /\ status = [i \in Items |-> "waiting"]
        /\ verdict = "open"

Stopped == \E i \in Items : status[i] \in Outcomes /\ Stops(status[i])

Start(i) ==
    /\ status[i] = "waiting"
    /\ \A j \in Items : j < i => status[j] # "waiting"
    /\ ~Stopped
    /\ status' = [status EXCEPT ![i] = "running"]
    /\ UNCHANGED verdict

Finish(i) ==
    /\ status[i] = "running"
    /\ \E o \in Outcomes \cup {"lost"} : status' = [status EXCEPT ![i] = o]
    /\ UNCHANGED verdict

Return ==
    /\ verdict = "open"
    /\ \A i \in Items : status[i] \notin {"running", "lost"}
    /\ Stopped \/ \A i \in Items : status[i] # "waiting"
    /\ verdict' = "returned"
    /\ UNCHANGED status

Raise ==
    /\ verdict = "open"
    /\ \E i \in Items : status[i] = "lost"
    /\ verdict' = "raised"
    /\ UNCHANGED status

Next == (\E i \in Items : Start(i) \/ Finish(i)) \/ Return \/ Raise

Spec == Init /\ [][Next]_<<status, verdict>>
=============================================================================
