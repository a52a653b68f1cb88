---------------------------- MODULE IssueUpdate ----------------------------
(***************************************************************************)
(* tools/issues.py: update_issue and close_issue, with the reactive        *)
(* workflow cache of schema/workflow.py and validation/transitions.py.     *)
(* A call is a coroutine that other coroutines, other processes and other  *)
(* Redmine users may overtake at every await; each action below is one     *)
(* stretch of it between two awaits, taken when the awaited reply arrives. *)
(***************************************************************************)
EXTENDS Naturals, FiniteSets

CONSTANTS
    Callers,      \* concurrent tool calls
    Issues,
    Roles,        \* Redmine roles; NoRole stands for role_id 0
    NoRole,
    Statuses,
    Closed,       \* statuses flagged is_closed
    CloseStatus,  \* what close_issue picks: the first closed one, else id 5
    NoStatus,     \* the status argument was not given
    UnknownName,  \* a status name Redmine does not list
    Workflow,     \* <<role, from, to>> rows of Redmine's workflow
    Requests,     \* the calls a client may make
    Starts,       \* what Redmine may hold when the server starts: issues and roles
    MaxCalls, MaxEvents  \* bounds on calls and environment events

RoleKeys == Roles \cup {NoRole}
HeldParam == {"keep", "set", "clear"}
Request == [op : {"update", "close"}, issue : Issues, byName : BOOLEAN,
            status : Statuses \cup {NoStatus, UnknownName},
            held : HeldParam, priority : BOOLEAN]
IssueState == [status : Statuses, held : BOOLEAN]

ASSUME ConstantsAssumption ==
    /\ NoRole \notin Roles
    /\ {NoStatus, UnknownName} \cap Statuses = {}
    /\ Closed \subseteq Statuses /\ CloseStatus \in Statuses
    /\ Workflow \subseteq RoleKeys \X Statuses \X Statuses
    /\ Requests \subseteq Request /\ Requests # {}
    /\ Starts \subseteq [redmine : [Issues -> IssueState], roles : SUBSET Roles]
    /\ Statuses # {}
    /\ MaxCalls \in Nat /\ MaxEvents \in Nat

VARIABLES
    redmine,     \* Redmine's issues: status, and whether Held is non-empty
    roles,       \* the current user's roles on the project, in Redmine
    obs,         \* workflow_transitions: outcome by role, from, to
    statusMeta,  \* is a fresh issue_statuses row in cache_meta?
    userMeta,    \* {R} when a fresh current_user row with roles R is cached, else {}
    pc,          \* where each call is, or how the last one ended
    req,         \* its arguments
    target,      \* target_status_id
    seen,        \* the issue as fetched before the PUT
    applied,     \* history: Redmine committed this call's PUT
    moved,       \* history: that PUT changed the status to the target
    gated,       \* history: the held gate had the list of statuses
    disturbed,   \* history: somebody else edited the issue of a call that was
                 \* under way, or changed roles that were read before
    calls, events

cache == <<obs, statusMeta, userMeta>>
locals == <<req, target, seen>>
history == <<applied, moved, gated, disturbed>>
bounds == <<calls, events>>
vars == <<redmine, roles, cache, pc, locals, history, bounds>>

Ended == {"idle", "ok", "error", "blocked", "held", "ignored"}
Waiting == {"statuses", "get", "resolve", "preflight", "priority", "put",
            "rejected", "failed", "refetch", "record"}
Outcomes == {"none", "allowed", "disallowed"}

Init ==
    /\ \E s \in Starts : redmine = s.redmine /\ roles = s.roles
    /\ obs = [k \in RoleKeys \X Statuses \X Statuses |-> "none"]
    /\ statusMeta = FALSE
    /\ userMeta = {}
    /\ pc = [c \in Callers |-> "idle"]
    /\ req = [c \in Callers |-> CHOOSE r \in Requests : TRUE]
    /\ target = [c \in Callers |-> NoStatus]
    /\ seen = [c \in Callers |-> CHOOSE s \in IssueState : TRUE]
    /\ applied = [c \in Callers |-> FALSE]
    /\ moved = [c \in Callers |-> FALSE]
    /\ gated = [c \in Callers |-> FALSE]
    /\ disturbed = FALSE
    /\ calls = 0 /\ events = 0

-----------------------------------------------------------------------------
(* Pure parts of the call *)

\* role_ids, with role 0 for a user without membership
RoleSet(R) == IF R = {} THEN {NoRole} ELSE R

Permits(R, from, to) == \E r \in RoleSet(R) : <<r, from, to>> \in Workflow

IsDisallowedByAny(R, from, to) ==   \* mutant: one role's failure is enough
    \E r \in RoleSet(R) : obs[<<r, from, to>>] = "disallowed"
\* Redmine is role-union: every role must have a "disallowed" observation
IsDisallowed(R, from, to) == \A r \in RoleSet(R) : obs[<<r, from, to>>] = "disallowed"

\* One observation per role
Recorded(R, from, to, outcome) ==
    [k \in DOMAIN obs |->
        IF k[1] \in RoleSet(R) /\ k[2] = from /\ k[3] = to THEN outcome ELSE obs[k]]

Changing(c, to) == to # NoStatus /\ to # seen[c].status

\* The Held value a call leaves on an issue whose value was `before`
HeldAfter(held, before) == CASE held = "keep" -> before
                             [] held = "set" -> TRUE
                             [] held = "clear" -> FALSE

\* A name that no status matches ends the call
ResolvedTarget(to) == IF to = UnknownName THEN NoStatus ELSE to

GateClosesEarly(to, known) == statusMeta /\ to \in Closed   \* mutant: gate before the refresh
\* The gate knows only the statuses in the cache
GateCloses(to, known) == known /\ to \in Closed

Goto(c, label) == pc' = [pc EXCEPT ![c] = label]

\* The request failed for good: as_structured()
Fails(c) == Goto(c, "error") /\ UNCHANGED <<redmine, roles, cache, locals, history, bounds>>

-----------------------------------------------------------------------------
(* The call *)

Begin(c) ==
    /\ pc[c] \in Ended /\ calls < MaxCalls
    /\ \E r \in Requests :
        /\ req' = [req EXCEPT ![c] = r]
        /\ target' = [target EXCEPT ![c] = NoStatus]
        /\ Goto(c, IF r.op = "close" THEN "statuses" ELSE "get")
    /\ applied' = [applied EXCEPT ![c] = FALSE]
    /\ moved' = [moved EXCEPT ![c] = FALSE]
    /\ gated' = [gated EXCEPT ![c] = FALSE]
    /\ calls' = calls + 1
    /\ UNCHANGED <<redmine, roles, cache, seen, disturbed, events>>

\* close_issue: cached statuses, or refresh_global_enumerations
CloseResolve(c) ==
    /\ pc[c] = "statuses"
    /\ \/ /\ statusMeta' = TRUE
          /\ target' = [target EXCEPT ![c] = CloseStatus]
          /\ Goto(c, "get")
          /\ UNCHANGED <<redmine, roles, obs, userMeta, req, seen, history, bounds>>
       \/ ~statusMeta /\ Fails(c)

\* The first GET of update_issue
Get(c) ==
    /\ pc[c] = "get"
    /\ \/ /\ seen' = [seen EXCEPT ![c] = redmine[req[c].issue]]
          /\ Goto(c, "resolve")
          /\ UNCHANGED <<redmine, roles, cache, req, target, history, bounds>>
       \/ Fails(c)

AskedFor(c) == IF req[c].op = "close" THEN target[c] ELSE req[c].status
\* After a name was looked up, the statuses are cached
StatusesKnown(c) == statusMeta \/ req[c].byName

\* Mutant: the gate judges the issue as it was fetched
AfterResolveAsFetched(c, to, held) ==
    IF to = UnknownName THEN "error"
    ELSE IF ~Changing(c, to) THEN "priority"
    ELSE IF GateCloses(to, StatusesKnown(c)) /\ seen[c].held THEN "held"
    ELSE "preflight"

\* Where a call goes once its target is known; the gate judges the hold that
\* the PUT will leave
AfterResolve(c, to, held) ==
    IF to = UnknownName THEN "error"
    ELSE IF ~Changing(c, to) THEN "priority"
    ELSE IF GateCloses(to, StatusesKnown(c)) /\ HeldAfter(held, seen[c].held) THEN "held"
    ELSE "preflight"

ResolveWith(c, held) ==
    /\ req' = [req EXCEPT ![c].held = held]
    /\ statusMeta' = StatusesKnown(c)
    /\ target' = [target EXCEPT ![c] = ResolvedTarget(AskedFor(c))]
    /\ Goto(c, AfterResolve(c, AskedFor(c), held))
    /\ gated' = [gated EXCEPT ![c] = StatusesKnown(c)]
    /\ UNCHANGED <<redmine, roles, obs, userMeta, seen, applied, moved, disturbed, bounds>>

\* The GET has answered: translate held (skipped, silently, when the field
\* cannot be discovered), resolve the status and run the held gate, with no
\* await between the last two
Resolve(c) ==
    /\ pc[c] = "resolve"
    /\ \/ \E held \in {req[c].held, "keep"} : ResolveWith(c, held)
       \/ req[c].byName /\ ~statusMeta /\ Fails(c)

\* fetch_current_user: the cached row, or a GET that is then cached
FetchUser == userMeta' = IF userMeta = {} THEN {roles} ELSE userMeta

\* Pre-flight against the learned workflow
Preflight(c) ==
    /\ pc[c] = "preflight"
    /\ \/ /\ FetchUser
          /\ Goto(c, IF IsDisallowed(UNION userMeta', seen[c].status, target[c])
                     THEN "blocked" ELSE "priority")
          /\ UNCHANGED <<redmine, roles, obs, statusMeta, locals, history, bounds>>
       \/ userMeta = {} /\ Fails(c)

\* A priority given by name may refresh the enumerations, statuses included
ResolvePriority(c) ==
    /\ pc[c] = "priority"
    /\ \/ /\ statusMeta' = (statusMeta \/ req[c].priority)
          /\ Goto(c, IF target[c] = NoStatus /\ req[c].held = "keep" /\ ~req[c].priority
                     THEN "error" ELSE "put")
          /\ UNCHANGED <<redmine, roles, obs, userMeta, locals, history, bounds>>
       \/ req[c].priority /\ Fails(c)

\* A call other than c works on issue i
AnotherWorksOn(i, c) == \E d \in Callers \ {c} : pc[d] \in Waiting /\ req[d].issue = i

\* Redmine commits the PUT; it may leave the status where it was
\* (open subtasks, or a rule it applies without an error)
Commit(c) ==
    LET i == req[c].issue
        from == redmine[i].status
        move == target[c] # NoStatus /\ target[c] # from
    IN /\ \E to \in {from} \cup IF move /\ Permits(roles, from, target[c])
                                THEN {target[c]} ELSE {} :
            /\ redmine' = [redmine EXCEPT
                 ![i] = [status |-> to, held |-> HeldAfter(req[c].held, redmine[i].held)]]
            /\ moved' = [moved EXCEPT ![c] = to = target[c]]
       /\ applied' = [applied EXCEPT ![c] = TRUE]
       /\ disturbed' = (disturbed \/ AnotherWorksOn(i, c))
       /\ UNCHANGED gated

Put(c) ==
    /\ pc[c] = "put"
    /\ \/ Commit(c) /\ Goto(c, "refetch")
       \/ Commit(c) /\ Goto(c, "failed")          \* committed, the answer was lost
       \/ /\ UNCHANGED <<redmine, history>>
          /\ \/ Goto(c, "failed")                 \* not sent, refused, or another 422
             \/ /\ target[c] \notin {NoStatus, redmine[req[c].issue].status}
                /\ ~Permits(roles, redmine[req[c].issue].status, target[c])
                /\ Goto(c, "rejected")            \* 422 "Status is not allowed"
    /\ UNCHANGED <<roles, cache, locals, bounds>>

LearnsFromAnyFailure(c) == pc[c] \in {"rejected", "failed"}   \* mutant: body not examined
LooksLikeWorkflowDisallowed(c) == pc[c] = "rejected"

Record(c, outcome) ==
    obs' = Recorded(UNION userMeta', seen[c].status, target[c], outcome)

\* The PUT raised: learn from a workflow 422, report the error
PutRaised(c) ==
    /\ pc[c] \in {"rejected", "failed"}
    /\ \/ /\ Changing(c, target[c])
          /\ FetchUser
          /\ IF LooksLikeWorkflowDisallowed(c) THEN Record(c, "disallowed") ELSE UNCHANGED obs
          /\ Goto(c, "error")
          /\ UNCHANGED <<redmine, roles, statusMeta, locals, history, bounds>>
       \/ (~Changing(c, target[c]) \/ userMeta = {}) /\ Fails(c)

MovedUnchecked(c) == TRUE   \* mutant: a 2xx is taken for a status change
Moved(c) == redmine[req[c].issue].status = target[c]

\* The GET after the PUT: a status that did not move ends the call, one that
\* moved is recorded at once when the user is cached
AfterRefetch(c) ==
    IF ~Changing(c, target[c]) THEN "ok"
    ELSE IF ~Moved(c) THEN "ignored"
    ELSE IF userMeta = {} THEN "record" ELSE "ok"

Refetch(c) ==
    /\ pc[c] = "refetch"
    /\ \/ Fails(c)
       \/ /\ Goto(c, AfterRefetch(c))
          /\ obs' = IF Changing(c, target[c]) /\ AfterRefetch(c) = "ok"
                    THEN Recorded(UNION userMeta, seen[c].status, target[c], "allowed")
                    ELSE obs
          /\ UNCHANGED <<redmine, roles, statusMeta, userMeta, locals, history, bounds>>

\* The user had to be fetched before the outcome could be recorded
RecordAllowed(c) ==
    /\ pc[c] = "record"
    /\ \/ /\ FetchUser
          /\ Record(c, "allowed")
          /\ Goto(c, "ok")
          /\ UNCHANGED <<redmine, roles, statusMeta, locals, history, bounds>>
       \/ userMeta = {} /\ Fails(c)

Step(c) == \/ CloseResolve(c) \/ Get(c) \/ Resolve(c) \/ Preflight(c)
           \/ ResolvePriority(c) \/ Put(c) \/ PutRaised(c) \/ Refetch(c) \/ RecordAllowed(c)

-----------------------------------------------------------------------------
(* Everyone else: other Redmine users, administrators, TTLs, other tools *)

Event == events < MaxEvents /\ events' = events + 1
         /\ UNCHANGED <<pc, locals, applied, moved, gated, calls>>

ExternalEdit == /\ Event
                /\ \E i \in Issues, s \in IssueState :
                    /\ redmine' = [redmine EXCEPT ![i] = s]
                    /\ disturbed' = (disturbed \/ \E c \in Callers : pc[c] \in Waiting /\ req[c].issue = i)
                /\ UNCHANGED <<roles, cache>>
\* The roles change; the cached row of the user may run out with that
RoleChange == /\ Event
              /\ roles' \in SUBSET Roles
              /\ userMeta' \in {userMeta, {}}
              /\ disturbed' = (disturbed \/ userMeta' # {} \/ \E c \in Callers : pc[c] \in Waiting)
              /\ UNCHANGED <<redmine, obs, statusMeta>>
Expire == /\ Event
          /\ \/ statusMeta' = FALSE /\ UNCHANGED userMeta
             \/ userMeta' = {} /\ UNCHANGED statusMeta
          /\ UNCHANGED <<redmine, roles, obs, disturbed>>
\* redmine_invalidate_cache: scope "all", or one tracker's observations
Invalidate == /\ Event
              /\ obs' = [k \in DOMAIN obs |-> "none"]
              /\ \/ statusMeta' = FALSE /\ userMeta' = {}
                 \/ UNCHANGED <<statusMeta, userMeta>>
              /\ UNCHANGED <<redmine, roles, disturbed>>
\* another tool, or another process, fills the statuses
Warm == Event /\ statusMeta' = TRUE /\ UNCHANGED <<redmine, roles, obs, userMeta, disturbed>>

Other == ExternalEdit \/ RoleChange \/ Expire \/ Invalidate \/ Warm

Next == (\E c \in Callers : Begin(c) \/ Step(c)) \/ Other

Spec == Init /\ [][Next]_vars

-----------------------------------------------------------------------------
(* Properties *)

\* Every variable keeps its type (all of tools/issues.py:685-1043).
TypeOK ==
    /\ redmine \in [Issues -> IssueState] /\ roles \in SUBSET Roles
    /\ obs \in [RoleKeys \X Statuses \X Statuses -> Outcomes]
    /\ statusMeta \in BOOLEAN /\ userMeta \subseteq SUBSET Roles
    /\ pc \in [Callers -> Ended \cup Waiting]
    /\ req \in [Callers -> Request]
    /\ target \in [Callers -> Statuses \cup {NoStatus}]
    /\ seen \in [Callers -> IssueState]
    /\ applied \in [Callers -> BOOLEAN] /\ moved \in [Callers -> BOOLEAN]
    /\ gated \in [Callers -> BOOLEAN] /\ disturbed \in BOOLEAN
    /\ calls \in Nat /\ events \in Nat

\* A learned "disallowed" row is a transition Redmine really forbids to that
\* role: record_outcome never blames the wrong role, status or kind of failure.
DisallowedIsTrue == \A k \in DOMAIN obs : obs[k] = "disallowed" => k \notin Workflow

\* A learned "allowed" row is a transition Redmine grants to some role: a PUT
\* that was accepted without moving the status teaches nothing.
AllowedIsGranted ==
    \A k \in DOMAIN obs :
        obs[k] = "allowed" => \E r \in RoleKeys : <<r, k[2], k[3]>> \in Workflow

\* What the tool learns from the answers to its PUTs and shares through the
\* cache is true of Redmine's workflow, refusals and grants alike, until somebody
\* edits the issue of a call between its requests, or the roles that it has read
\* change (the refusal then goes to the status and the roles of the call's reads).
LearnedIsTrue == ~disturbed => DisallowedIsTrue /\ AllowedIsGranted

\* The pre-flight stops a call only when Redmine would have refused it, as long
\* as what was learned is true.
BlockedWasForbidden ==
    [][\A c \in Callers : pc[c] = "preflight" /\ pc'[c] = "blocked"
                          => disturbed \/ ~Permits(roles, seen[c].status, target[c])]_vars

\* What the caller is told matches what happened in Redmine: ok means that the PUT
\* moved the status where it was asked to go, ignored that the rest of the PUT was
\* applied and the status was not, unless somebody else moved it before the second
\* look; blocked and held mean that no PUT was committed.  An error says nothing.
OutcomeIsTruthful ==
    \A c \in Callers :
        /\ pc[c] = "ok" /\ Changing(c, target[c]) => applied[c] /\ (moved[c] \/ disturbed)
        /\ pc[c] = "ignored" => applied[c] /\ (~moved[c] \/ disturbed)
        /\ pc[c] \in {"blocked", "held"} => ~applied[c]

\* The held gate of update_issue and close_issue, whether the status is given by name,
\* by number or chosen by close_issue: a PUT that closes an open issue leaves no hold
\* on it, unless the gate found no list of statuses in the cache (the only case in
\* which it lets a close pass unseen), or the issue is not what the call has read.
ClosingLeavesNotHeld ==
    [][\A c \in Callers : LET i == req[c].issue IN
          /\ pc[c] = "put" /\ pc'[c] # "put"
          /\ redmine[i].status \notin Closed /\ redmine'[i].status \in Closed
          /\ redmine'[i].held
          => ~gated[c] \/ redmine[i] # seen[c]]_vars

\* Whatever happens to the issue and the caches meanwhile, a call whose gate had the
\* list of statuses never sends a closing PUT that leaves the hold it has read in place.
GateSawTheHold ==
    \A c \in Callers :
        /\ pc[c] \in {"priority", "preflight", "put"} /\ gated[c]
        /\ target[c] \in Closed /\ Changing(c, target[c])
        => ~HeldAfter(req[c].held, seen[c].held)
=============================================================================
