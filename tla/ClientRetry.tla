----------------------------- MODULE ClientRetry -----------------------------
(***************************************************************************)
(* client.py: RedmineClient._request, one call per member of Reqs.  The    *)
(* server may act on an attempt whose answer is lost or is a 5xx; it never *)
(* acts on one it answers with 429.                                        *)
(***************************************************************************)
EXTENDS Integers

CONSTANTS
    Reqs,           \* concurrent requests
    Method,         \* [Reqs -> HTTP methods]
    MaxRetries,     \* MAX_RETRIES
    RetryAfter,     \* Retry-After values in half seconds the server may send
    NoHeader        \* no usable Retry-After (absent, unparsable or not finite)

Writes == {"POST", "PUT", "DELETE"}
Methods == {"GET", "HEAD", "OPTIONS"} \cup Writes

ASSUME RetryAssumption ==
    /\ Method \in [Reqs -> Methods]
    /\ MaxRetries \in Nat
    /\ RetryAfter \subseteq Int \cup {NoHeader}

MaxRetryAfter == 120   \* MAX_RETRY_AFTER_SECONDS, in half seconds

VARIABLES
    reqPc,         \* "send", "sleep", "ok" or "error"
    tries,
    lastAnswer,     \* class of the last answer
    executed,   \* history: attempts the server acted on
    waited      \* history: half seconds slept so far

retryVars == <<reqPc, tries, lastAnswer, executed, waited>>

Answers == {"none", "transport", "rate_limited", "server_error", "refused",
            "success", "garbled"}

RetryInit ==
    /\ reqPc = [r \in Reqs |-> "send"]
    /\ tries = [r \in Reqs |-> 0]
    /\ lastAnswer = [r \in Reqs |-> "none"]
    /\ executed = [r \in Reqs |-> 0]
    /\ waited = [r \in Reqs |-> 0]

IdempotentWithPut(r) ==   \* mutant: PUT is taken to be repeatable
    Method[r] \in {"GET", "HEAD", "OPTIONS", "PUT"}
Idempotent(r) == Method[r] \in {"GET", "HEAD", "OPTIONS"}

\* What the server may have done when it, or the network, answers a
MayExecute(a) == CASE a \in {"success", "garbled"} -> {1}
                   [] a \in {"transport", "server_error"} -> {0, 1}
                   [] a \in {"rate_limited", "refused"} -> {0}

\* A transport error, or a status in RETRYABLE_STATUS
Retryable(a) == a \in {"transport", "rate_limited", "server_error"}

MayRetryLess(r) == Idempotent(r) /\ tries[r] + 1 < MaxRetries    \* mutant: off by one
MayRetry(r) == Idempotent(r) /\ tries[r] < MaxRetries

UncappedDelay(after, n) == IF after = NoHeader THEN 2 ^ n ELSE after   \* mutant: no clamp
\* _retry_delay, in half seconds: Retry-After clamped, else the backoff
RetryDelay(after, n) ==
    IF after = NoHeader THEN 2 ^ n
    ELSE IF after < 0 THEN 0
    ELSE IF after > MaxRetryAfter THEN MaxRetryAfter ELSE after

\* One attempt: what the server does, what comes back, what _request makes of it
SendAttempt(r) ==
    /\ reqPc[r] = "send"
    /\ \E a \in Answers \ {"none"}, after \in RetryAfter \cup {NoHeader} :
        /\ a \in {"transport", "success", "garbled"} => after = NoHeader
        /\ lastAnswer' = [lastAnswer EXCEPT ![r] = a]
        /\ \E n \in MayExecute(a) : executed' = [executed EXCEPT ![r] = @ + n]
        /\ IF Retryable(a) /\ MayRetry(r)
           THEN /\ reqPc' = [reqPc EXCEPT ![r] = "sleep"]
                /\ waited' = [waited EXCEPT ![r] = @ + RetryDelay(after, tries[r])]
           ELSE /\ reqPc' = [reqPc EXCEPT ![r] = IF a = "success" THEN "ok" ELSE "error"]
                /\ UNCHANGED waited
    /\ UNCHANGED tries

\* asyncio.sleep is over: the next turn of the loop
Wake(r) ==
    /\ reqPc[r] = "sleep"
    /\ reqPc' = [reqPc EXCEPT ![r] = "send"]
    /\ tries' = [tries EXCEPT ![r] = @ + 1]
    /\ UNCHANGED <<lastAnswer, executed, waited>>

RetryNext == \E r \in Reqs : SendAttempt(r) \/ Wake(r)

RetrySpec == RetryInit /\ [][RetryNext]_retryVars

-----------------------------------------------------------------------------
(* Properties *)

\* Every variable keeps its type.
TypeOK ==
    /\ reqPc \in [Reqs -> {"send", "sleep", "ok", "error"}]
    /\ tries \in [Reqs -> 0..MaxRetries]
    /\ lastAnswer \in [Reqs -> Answers]
    /\ executed \in [Reqs -> Nat] /\ waited \in [Reqs -> Nat]

\* "Retrying a POST/PUT/DELETE on a 5xx or a transport error can duplicate a
\* write" (client.py:31): the server acts on a write at most once.
NoDuplicateWrite == \A r \in Reqs : Method[r] \in Writes => executed[r] <= 1

\* A call returns normally only if the server acted on it, and a read gives up
\* on a passing failure only after the whole retry budget is spent.
OutcomeIsEarned ==
    \A r \in Reqs :
        /\ reqPc[r] = "ok" => executed[r] > 0
        /\ reqPc[r] = "error" /\ Method[r] \notin Writes /\ Retryable(lastAnswer[r])
             => tries[r] = MaxRetries

\* Whatever Retry-After says, a request sleeps at most a minute per retry.
WaitIsBounded == \A r \in Reqs : waited[r] <= MaxRetries * MaxRetryAfter

=============================================================================
