-------------------------- MODULE IssueUpdateProofs --------------------------
(***************************************************************************)
(* For all issues, roles, statuses, workflows and callers: a gate that has *)
(* the list of statuses judges the hold that a close would leave, and what *)
(* the cache learns is true until somebody disturbs a call.                *)
(***************************************************************************)
EXTENDS IssueUpdate, TLAPS

\* Init gives every variable its type.
LEMMA InitTypes == Init => TypeOK
<1> SUFFICES ASSUME Init PROVE TypeOK
  OBVIOUS
<1> USE ConstantsAssumption DEF Init
<1>1. (CHOOSE r \in Requests : TRUE) \in Request
  <2>1. (CHOOSE r \in Requests : TRUE) \in Requests
    OBVIOUS
  <2> QED
    BY <2>1
<1>2. (CHOOSE s \in IssueState : TRUE) \in IssueState
  <2>1. PICK s \in Statuses : TRUE
    OBVIOUS
  <2>2. [status |-> s, held |-> FALSE] \in IssueState
    BY <2>1 DEF IssueState
  <2> QED
    BY <2>2
<1>3. req \in [Callers -> Request] /\ seen \in [Callers -> IssueState]
  BY <1>1, <1>2
<1>4. pc \in [Callers -> Ended \cup Waiting]
  BY DEF Ended
<1>5. obs \in [RoleKeys \X Statuses \X Statuses -> Outcomes]
  BY DEF Outcomes
<1>6. /\ applied \in [Callers -> BOOLEAN] /\ moved \in [Callers -> BOOLEAN]
      /\ gated \in [Callers -> BOOLEAN] /\ disturbed \in BOOLEAN /\ statusMeta \in BOOLEAN
  OBVIOUS
<1>7. redmine \in [Issues -> IssueState] /\ roles \in SUBSET Roles
  OBVIOUS
<1> QED
  BY <1>3, <1>4, <1>5, <1>6, <1>7 DEF TypeOK

\* Recording writes an outcome over some rows of the table.
LEMMA RecordedType ==
    ASSUME TypeOK, NEW R, NEW f, NEW t, NEW o \in Outcomes
    PROVE  Recorded(R, f, t, o) \in [RoleKeys \X Statuses \X Statuses -> Outcomes]
<1>1. DOMAIN obs = RoleKeys \X Statuses \X Statuses
  BY DEF TypeOK
<1>2. \A k \in RoleKeys \X Statuses \X Statuses : obs[k] \in Outcomes
  BY DEF TypeOK
<1> QED
  BY <1>1, <1>2 DEF Recorded

\* Every step of a call keeps the types.
LEMMA StepTypes == ASSUME TypeOK, NEW c \in Callers, Begin(c) \/ Step(c) PROVE TypeOK'
<1> USE ConstantsAssumption DEF cache, locals, history, bounds, Goto, Fails
<1>1. CASE Begin(c)
  BY <1>1 DEF Begin, TypeOK, Waiting, Ended
<1>2. CASE CloseResolve(c)
  <2>1. statusMeta' \in BOOLEAN
    BY <1>2 DEF CloseResolve, TypeOK
  <2>2. pc' \in [Callers -> Ended \cup Waiting] /\ target' \in [Callers -> Statuses \cup {NoStatus}]
    BY <1>2 DEF CloseResolve, TypeOK, Waiting, Ended
  <2>3. UNCHANGED <<redmine, roles, obs, userMeta, req, seen, applied, moved, gated, disturbed,
                    calls, events>>
    BY <1>2 DEF CloseResolve
  <2> QED
    BY <2>1, <2>2, <2>3 DEF TypeOK
<1>3. CASE Get(c)
  BY <1>3 DEF Get, TypeOK, Waiting, Ended, Request
<1>4. CASE Resolve(c)
  <2>1. CASE Fails(c)
    BY <2>1 DEF TypeOK, Ended
  <2>2. CASE ~Fails(c)
    <3>1. PICK held \in {req[c].held, "keep"} : ResolveWith(c, held)
      BY <1>4, <2>2 DEF Resolve
    <3>2. statusMeta' \in BOOLEAN
      BY <3>1 DEF ResolveWith, StatusesKnown
    <3>3. req' \in [Callers -> Request]
      <4>1. req[c] \in Request /\ held \in HeldParam
        BY DEF TypeOK, Request, HeldParam
      <4>2. [req[c] EXCEPT !.held = held] \in Request
        BY <4>1 DEF Request
      <4> QED
        BY <3>1, <4>2 DEF ResolveWith, TypeOK
    <3>4. target' \in [Callers -> Statuses \cup {NoStatus}]
      <4>1. ResolvedTarget(AskedFor(c)) \in Statuses \cup {NoStatus}
        BY DEF ResolvedTarget, AskedFor, TypeOK, Request
      <4> QED
        BY <3>1, <4>1 DEF ResolveWith, TypeOK
    <3>5. pc' \in [Callers -> Ended \cup Waiting]
      <4>1. AfterResolve(c, AskedFor(c), held) \in Ended \cup Waiting
        BY DEF AfterResolve, Ended, Waiting
      <4> QED
        BY <3>1, <4>1 DEF ResolveWith, TypeOK
    <3>6. UNCHANGED <<redmine, roles, obs, userMeta, seen, applied, moved, disturbed, calls,
                      events>>
      BY <3>1 DEF ResolveWith
    <3>7. gated' \in [Callers -> BOOLEAN]
      BY <3>1 DEF ResolveWith, StatusesKnown, TypeOK, Request
    <3> QED
      BY <3>2, <3>3, <3>4, <3>5, <3>6, <3>7 DEF TypeOK
  <2> QED
    BY <2>1, <2>2
<1>5. CASE Preflight(c)
  BY <1>5 DEF Preflight, FetchUser, TypeOK, Waiting, Ended
<1>6. CASE ResolvePriority(c)
  BY <1>6 DEF ResolvePriority, TypeOK, Waiting, Ended, Request
<1>7. CASE Put(c)
  <2>1. pc' \in [Callers -> Ended \cup Waiting]
    BY <1>7 DEF Put, TypeOK, Waiting, Ended
  <2>2. ASSUME Commit(c)
        PROVE  /\ redmine' \in [Issues -> IssueState]
               /\ applied' \in [Callers -> BOOLEAN] /\ moved' \in [Callers -> BOOLEAN]
               /\ gated' \in [Callers -> BOOLEAN] /\ disturbed' \in BOOLEAN
    <3>1. req[c] \in Request /\ req[c].issue \in Issues
      BY DEF TypeOK, Request
    <3> DEFINE from == redmine[req[c].issue].status
               To == {from} \cup IF target[c] # NoStatus /\ target[c] # from
                                  /\ Permits(roles, from, target[c])
                                 THEN {target[c]} ELSE {}
    <3>7. To \subseteq Statuses
      BY <3>1 DEF TypeOK, IssueState
    <3>2. PICK to \in To :
            /\ redmine' = [redmine EXCEPT ![req[c].issue] =
                 [status |-> to, held |-> HeldAfter(req[c].held, redmine[req[c].issue].held)]]
            /\ moved' = [moved EXCEPT ![c] = to = target[c]]
      BY <2>2 DEF Commit
    <3>3. HeldAfter(req[c].held, redmine[req[c].issue].held) \in BOOLEAN
      BY <3>1 DEF HeldAfter, TypeOK, Request, HeldParam, IssueState
    <3>4. redmine' \in [Issues -> IssueState]
      BY <3>1, <3>2, <3>3, <3>7 DEF TypeOK, IssueState
    <3>5. moved' \in [Callers -> BOOLEAN]
      BY <3>2 DEF TypeOK
    <3>6. applied' \in [Callers -> BOOLEAN]
      BY <2>2 DEF Commit, TypeOK
    <3>8. gated' \in [Callers -> BOOLEAN] /\ disturbed' \in BOOLEAN
      BY <2>2 DEF Commit, AnotherWorksOn, TypeOK
    <3> QED
      BY <3>4, <3>5, <3>6, <3>8
  <2>3. UNCHANGED <<roles, obs, statusMeta, userMeta, req, target, seen, calls, events>>
    BY <1>7 DEF Put
  <2>4. Commit(c) \/ UNCHANGED <<redmine, applied, moved, gated, disturbed>>
    BY <1>7 DEF Put
  <2> QED
    BY <2>1, <2>2, <2>3, <2>4 DEF TypeOK
<1>8. CASE PutRaised(c)
  BY <1>8, RecordedType DEF PutRaised, FetchUser, Record, TypeOK, Waiting, Ended, Outcomes
<1>9. CASE Refetch(c)
  <2>1. pc' \in [Callers -> Ended \cup Waiting]
    BY <1>9 DEF Refetch, AfterRefetch, TypeOK, Waiting, Ended
  <2>2. obs' \in [RoleKeys \X Statuses \X Statuses -> Outcomes]
    <3>1. obs' = obs \/ obs' = Recorded(UNION userMeta, seen[c].status, target[c], "allowed")
      BY <1>9 DEF Refetch
    <3> QED
      BY <3>1, RecordedType DEF TypeOK, Outcomes
  <2>3. UNCHANGED <<redmine, roles, statusMeta, userMeta, req, target, seen, applied, moved,
                    gated, disturbed, calls, events>>
    BY <1>9 DEF Refetch
  <2> QED
    BY <2>1, <2>2, <2>3 DEF TypeOK
<1>10. CASE RecordAllowed(c)
  BY <1>10, RecordedType DEF RecordAllowed, FetchUser, Record, TypeOK, Waiting, Ended, Outcomes
<1> QED
  BY <1>1, <1>2, <1>3, <1>4, <1>5, <1>6, <1>7, <1>8, <1>9, <1>10 DEF Step

LEMMA OtherTypes == ASSUME TypeOK, Other PROVE TypeOK'
<1> USE ConstantsAssumption DEF cache, locals, history, bounds, Event
<1>1. CASE ExternalEdit
  BY <1>1 DEF ExternalEdit, TypeOK
<1>2. CASE RoleChange
  BY <1>2 DEF RoleChange, TypeOK
<1>3. CASE Expire \/ Warm
  <2>1. statusMeta' \in BOOLEAN
    BY <1>3 DEF Expire, Warm, TypeOK
  <2>2. userMeta' \subseteq SUBSET Roles /\ events' \in Nat
    BY <1>3 DEF Expire, Warm, TypeOK
  <2>3. UNCHANGED <<redmine, roles, obs, pc, req, target, seen, applied, moved, gated, disturbed,
                    calls>>
    BY <1>3 DEF Expire, Warm
  <2> QED
    BY <2>1, <2>2, <2>3 DEF TypeOK
<1>4. CASE Invalidate
  <2>1. statusMeta' \in BOOLEAN
    BY <1>4 DEF Invalidate, TypeOK
  <2>2. /\ userMeta' \subseteq SUBSET Roles /\ events' \in Nat
        /\ obs' \in [RoleKeys \X Statuses \X Statuses -> Outcomes]
    BY <1>4 DEF Invalidate, TypeOK, Outcomes
  <2>3. UNCHANGED <<redmine, roles, pc, req, target, seen, applied, moved, gated, disturbed,
                    calls>>
    BY <1>4 DEF Invalidate
  <2> QED
    BY <2>1, <2>2, <2>3 DEF TypeOK
<1> QED
  BY <1>1, <1>2, <1>3, <1>4 DEF Other

\* Every variable keeps its type.
THEOREM TypeCorrect == Spec => []TypeOK
<1>1. TypeOK /\ [Next]_vars => TypeOK'
  <2> SUFFICES ASSUME TypeOK, [Next]_vars PROVE TypeOK'
    OBVIOUS
  <2>1. CASE UNCHANGED vars
    BY <2>1 DEF vars, cache, locals, history, bounds, TypeOK
  <2> QED
    BY <2>1, StepTypes, OtherTypes DEF Next
<1> QED
  BY <1>1, InitTypes, PTL DEF Spec

-----------------------------------------------------------------------------
(* The held gate *)

\* A call's step leaves the other calls' local state alone.
LEMMA OthersKeepLocals ==
    ASSUME TypeOK, NEW c \in Callers, NEW d \in Callers, d # c, Begin(c) \/ Step(c)
    PROVE  UNCHANGED <<pc[d], req[d], target[d], seen[d], gated[d]>>
<1> USE DEF TypeOK, Goto, Fails, locals, history
<1>1. CASE Begin(c)
  BY <1>1 DEF Begin
<1>2. CASE CloseResolve(c) \/ Get(c) \/ Preflight(c) \/ ResolvePriority(c)
  BY <1>2 DEF CloseResolve, Get, Preflight, ResolvePriority
<1>3. CASE Resolve(c)
  BY <1>3 DEF Resolve, ResolveWith
<1>4. CASE Put(c)
  BY <1>4 DEF Put, Commit
<1>5. CASE PutRaised(c) \/ Refetch(c) \/ RecordAllowed(c)
  BY <1>5 DEF PutRaised, Refetch, RecordAllowed
<1> QED
  BY <1>1, <1>2, <1>3, <1>4, <1>5 DEF Step

GateHolds(c) ==
    /\ pc[c] \in {"priority", "preflight", "put"} /\ gated[c]
    /\ target[c] \in Closed /\ Changing(c, target[c])
    => ~HeldAfter(req[c].held, seen[c].held)

\* When the gate knows the statuses, a close with a hold does not get past it.
LEMMA ResolveGate == ASSUME TypeOK, NEW c \in Callers, Resolve(c) PROVE GateHolds(c)'
<1>1. CASE Fails(c)
  BY <1>1 DEF Fails, Goto, TypeOK, GateHolds
<1>2. ASSUME NEW held, ResolveWith(c, held) PROVE GateHolds(c)'
  <2>1. /\ pc'[c] = AfterResolve(c, AskedFor(c), held)
        /\ target'[c] = ResolvedTarget(AskedFor(c)) /\ seen'[c] = seen[c]
        /\ req'[c].held = held /\ gated'[c] = StatusesKnown(c)
    BY <1>2 DEF ResolveWith, Goto, TypeOK, Request
  <2>2. CASE AskedFor(c) = UnknownName
    BY <2>1, <2>2 DEF AfterResolve, GateHolds
  <2>3. CASE AskedFor(c) # UnknownName
    BY <2>1, <2>3 DEF AfterResolve, GateHolds, ResolvedTarget, Changing, GateCloses,
       StatusesKnown, HeldAfter
  <2> QED
    BY <2>2, <2>3
<1> QED
  BY <1>1, <1>2 DEF Resolve

LEMMA StepGate ==
    ASSUME TypeOK, NEW c \in Callers, NEW d \in Callers, GateHolds(d), Begin(c) \/ Step(c)
    PROVE  GateHolds(d)'
<1> USE DEF TypeOK, Goto, Fails, locals, history, GateHolds
<1>1. CASE d # c
  BY <1>1, OthersKeepLocals DEF Changing, HeldAfter
<1>2. CASE d = c /\ Resolve(c)
  BY <1>2, ResolveGate
<1>3. CASE d = c /\ (Begin(c) \/ CloseResolve(c) \/ Get(c))
  BY <1>3 DEF Begin, CloseResolve, Get
<1>4. CASE d = c /\ (Preflight(c) \/ ResolvePriority(c))
  BY <1>4 DEF Preflight, ResolvePriority, Changing, HeldAfter
<1>5. CASE d = c /\ Put(c)
  BY <1>5 DEF Put
<1>6. CASE d = c /\ (PutRaised(c) \/ RecordAllowed(c))
  BY <1>6 DEF PutRaised, RecordAllowed
<1>7. CASE d = c /\ Refetch(c)
  BY <1>7 DEF Refetch, AfterRefetch
<1> QED
  BY <1>1, <1>2, <1>3, <1>4, <1>5, <1>6, <1>7 DEF Step

\* Whatever other callers, users and processes do meanwhile, a close whose gate had
\* the list of statuses never gets past it with the hold it has read in place.
THEOREM GateIsNeverBlind == Spec => []GateSawTheHold
<1>1. GateSawTheHold <=> \A c \in Callers : GateHolds(c)
  BY DEF GateSawTheHold, GateHolds
<1>2. Init => \A c \in Callers : GateHolds(c)
  BY DEF Init, GateHolds
<1>3. TypeOK /\ (\A c \in Callers : GateHolds(c)) /\ [Next]_vars
      => (\A c \in Callers : GateHolds(c))'
  <2> SUFFICES ASSUME TypeOK, \A c \in Callers : GateHolds(c), [Next]_vars,
                      NEW d \in Callers
               PROVE  GateHolds(d)'
    OBVIOUS
  <2>1. ASSUME NEW c \in Callers, Begin(c) \/ Step(c) PROVE GateHolds(d)'
    BY <2>1, StepGate
  <2>2. CASE Other \/ UNCHANGED vars
    BY <2>2 DEF Other, ExternalEdit, RoleChange, Expire, Invalidate, Warm, Event,
       vars, locals, history, GateHolds, Changing, HeldAfter
  <2> QED
    BY <2>1, <2>2 DEF Next
<1> QED
  BY <1>1, <1>2, <1>3, TypeCorrect, PTL DEF Spec

-----------------------------------------------------------------------------
(* What the cache learns *)

Granted(from, to) == \E r \in RoleKeys : <<r, from, to>> \in Workflow

\* While a call is under way, what it has read is still so, and what it is about
\* to record follows from what Redmine did.
CallInv(c) ==
    /\ pc[c] \in {"resolve", "preflight", "priority", "put"}
         => seen[c] = redmine[req[c].issue]
    /\ pc[c] = "rejected" => ~Permits(roles, seen[c].status, target[c])
    /\ pc[c] = "refetch" /\ Moved(c) /\ Changing(c, target[c])
         => Granted(seen[c].status, target[c])
    /\ pc[c] = "record" => Granted(seen[c].status, target[c])

\* The learned rows are true and a cached user is the current one.
LearnedInv == DisallowedIsTrue /\ AllowedIsGranted /\ userMeta \subseteq {roles}

\* All of it until somebody disturbs a call: a disturbance is never forgotten, so
\* nothing has to be known of the behaviour after one.
IInv == TypeOK /\ (~disturbed => LearnedInv /\ \A c \in Callers : CallInv(c))

\* Rows recorded for the current roles stay true when the outcome was.
LEMMA RecordDisallowed ==
    ASSUME TypeOK, LearnedInv, NEW f, NEW t, ~Permits(roles, f, t), userMeta' = {roles},
           obs' = Recorded(UNION userMeta', f, t, "disallowed"), UNCHANGED roles
    PROVE  LearnedInv'
<1>1. UNION userMeta' = roles
  OBVIOUS
<1>2. DOMAIN obs' = DOMAIN obs
  BY DEF Recorded
<1>3. ASSUME NEW k \in DOMAIN obs
      PROVE  /\ obs'[k] = "disallowed" => k \notin Workflow
             /\ obs'[k] = "allowed" => Granted(k[2], k[3])
  <2>1. CASE k[1] \in RoleSet(roles) /\ k[2] = f /\ k[3] = t
    <3>1. k = <<k[1], f, t>>
      BY <2>1 DEF TypeOK
    <3> QED
      BY <1>1, <2>1, <3>1 DEF Recorded, Permits
  <2>2. CASE ~(k[1] \in RoleSet(roles) /\ k[2] = f /\ k[3] = t)
    BY <1>1, <2>2 DEF Recorded, LearnedInv, DisallowedIsTrue, AllowedIsGranted, Granted
  <2> QED
    BY <2>1, <2>2
<1> QED
  BY <1>2, <1>3 DEF LearnedInv, DisallowedIsTrue, AllowedIsGranted, Granted

LEMMA RecordAllowedRows ==
    ASSUME TypeOK, LearnedInv, NEW R, NEW f, NEW t, Granted(f, t), userMeta' \subseteq {roles},
           obs' = Recorded(R, f, t, "allowed"), UNCHANGED roles
    PROVE  LearnedInv'
<1>1. DOMAIN obs' = DOMAIN obs
  BY DEF Recorded
<1>2. ASSUME NEW k \in DOMAIN obs
      PROVE  /\ obs'[k] = "disallowed" => k \notin Workflow
             /\ obs'[k] = "allowed" => Granted(k[2], k[3])
  BY DEF Recorded, LearnedInv, DisallowedIsTrue, AllowedIsGranted, Granted
<1> QED
  BY <1>1, <1>2 DEF LearnedInv, DisallowedIsTrue, AllowedIsGranted, Granted

\* A step of a call changes an issue by its PUT only, and is a disturbance when another
\* call works on that issue.
LEMMA StepOnRedmine ==
    ASSUME NEW c \in Callers, Begin(c) \/ Step(c)
    PROVE  \/ UNCHANGED <<redmine, disturbed>>
           \/ pc[c] = "put" /\ Commit(c)
<1> USE DEF cache, locals, history, bounds, Goto
<1>1. CASE Put(c)
  BY <1>1 DEF Put
<1>2. CASE Begin(c) \/ CloseResolve(c) \/ Get(c) \/ Preflight(c) \/ ResolvePriority(c)
  BY <1>2 DEF Begin, CloseResolve, Get, Preflight, ResolvePriority, Fails
<1>3. CASE Resolve(c)
  BY <1>3 DEF Resolve, ResolveWith, Fails
<1>4. CASE PutRaised(c) \/ Refetch(c) \/ RecordAllowed(c)
  BY <1>4 DEF PutRaised, Refetch, RecordAllowed, Fails
<1> QED
  BY <1>1, <1>2, <1>3, <1>4 DEF Step

\* A disturbance is never forgotten.
LEMMA DisturbedStays == ASSUME [Next]_vars, disturbed PROVE disturbed'
<1>1. ASSUME NEW c \in Callers, Begin(c) \/ Step(c) PROVE disturbed'
  BY <1>1, StepOnRedmine DEF Commit
<1>2. CASE Other \/ UNCHANGED vars
  BY <1>2 DEF Other, ExternalEdit, RoleChange, Expire, Invalidate, Warm, vars, history
<1> QED
  BY <1>1, <1>2 DEF Next

\* An undisturbing step changes no issue that another call works on.
LEMMA OthersKeepIssue ==
    ASSUME TypeOK, ~disturbed', NEW c \in Callers, NEW d \in Callers, d # c,
           Begin(c) \/ Step(c)
    PROVE  pc[d] \in Waiting => redmine'[req[d].issue] = redmine[req[d].issue]
<1>1. CASE redmine' = redmine
  BY <1>1
<1>2. CASE pc[c] = "put" /\ Commit(c) /\ pc[d] \in Waiting
  <2>1. req[c].issue # req[d].issue
    BY <1>2 DEF Commit, AnotherWorksOn
  <2>2. req[d].issue \in Issues
    BY DEF TypeOK, Request
  <2> QED
    BY <1>2, <2>1, <2>2 DEF Commit, TypeOK
<1> QED
  BY <1>1, <1>2, StepOnRedmine

LEMMA OthersUndisturbed ==
    ASSUME TypeOK, ~disturbed', NEW c \in Callers, NEW d \in Callers, d # c,
           CallInv(d), Begin(c) \/ Step(c)
    PROVE  CallInv(d)'
<1>1. UNCHANGED <<pc[d], req[d], target[d], seen[d]>>
  BY OthersKeepLocals
<1>2. UNCHANGED roles
  BY DEF Step, Begin, CloseResolve, Get, Resolve, ResolveWith, Preflight, ResolvePriority, Put,
     PutRaised, Refetch, RecordAllowed, Fails
<1>3. pc[d] \in Waiting => redmine'[req[d].issue] = redmine[req[d].issue]
  BY OthersKeepIssue
<1> QED
  BY <1>1, <1>2, <1>3 DEF CallInv, Moved, Changing, Permits, Granted, Waiting

\* Steps before the PUT read; none of them changes an issue or a learned row.
LEMMA ReadingSteps ==
    ASSUME TypeOK, LearnedInv, NEW c \in Callers, CallInv(c),
           \/ Begin(c) \/ CloseResolve(c) \/ Get(c) \/ Resolve(c) \/ Preflight(c)
           \/ ResolvePriority(c)
    PROVE  LearnedInv' /\ CallInv(c)'
<1> USE DEF TypeOK, Goto, Fails, locals, history, bounds, cache
<1>1. UNCHANGED <<redmine, roles, obs>> /\ userMeta' \subseteq {roles}
  BY DEF Begin, CloseResolve, Get, Resolve, ResolveWith, Preflight, FetchUser, ResolvePriority,
     LearnedInv
<1>2. LearnedInv'
  BY <1>1 DEF LearnedInv, DisallowedIsTrue, AllowedIsGranted
<1>3. CASE Begin(c)
  BY <1>2, <1>3 DEF Begin, CallInv, Waiting, Moved, Changing, Permits, Granted
<1>4. CASE CloseResolve(c) \/ Get(c)
  BY <1>1, <1>2, <1>4 DEF CloseResolve, Get, CallInv, Waiting, Moved, Changing, Permits, Granted
<1>5. CASE Resolve(c)
  <2>1. ASSUME NEW held, ResolveWith(c, held) PROVE CallInv(c)'
    <3>1. pc'[c] \in {"error", "priority", "held", "preflight"}
      BY <2>1 DEF ResolveWith, AfterResolve
    <3>2. req'[c].issue = req[c].issue /\ seen' = seen /\ pc[c] = "resolve"
      BY <1>5, <2>1 DEF ResolveWith, Resolve, Request
    <3> QED
      BY <1>1, <3>1, <3>2 DEF CallInv, Waiting
  <2>2. CASE Fails(c)
    BY <1>1, <1>2, <2>2 DEF CallInv, Waiting
  <2> QED
    BY <1>2, <1>5, <2>1, <2>2 DEF Resolve
<1>6. CASE Preflight(c) \/ ResolvePriority(c)
  BY <1>1, <1>2, <1>6 DEF Preflight, ResolvePriority, CallInv, Waiting
<1> QED
  BY <1>2, <1>3, <1>4, <1>5, <1>6

\* The PUT moves the issue only along a transition Redmine grants.
LEMMA PutStep ==
    ASSUME TypeOK, LearnedInv, NEW c \in Callers, CallInv(c), Put(c)
    PROVE  LearnedInv' /\ CallInv(c)'
<1> USE ConstantsAssumption DEF TypeOK, Goto, locals, cache
<1>1. LearnedInv'
  BY DEF Put, LearnedInv, DisallowedIsTrue, AllowedIsGranted
<1>2. /\ pc[c] = "put" /\ UNCHANGED <<roles, req, target, seen>>
      /\ seen[c] = redmine[req[c].issue] /\ req[c].issue \in Issues
  BY DEF Put, CallInv, Waiting, Request
<1>3. CASE Commit(c) /\ pc'[c] \in {"refetch", "failed"}
  <2>1. PICK to : /\ redmine'[req[c].issue].status = to
                  /\ to = seen[c].status \/ (to = target[c] /\ Permits(roles, seen[c].status, to))
    BY <1>2, <1>3 DEF Commit
  <2>2. Permits(roles, seen[c].status, to) => Granted(seen[c].status, to)
    BY DEF Permits, Granted, RoleSet, RoleKeys
  <2> QED
    BY <1>1, <1>2, <1>3, <2>1, <2>2 DEF CallInv, Moved, Changing, Granted
<1>4. CASE redmine' = redmine /\ pc'[c] = "failed"
  BY <1>1, <1>2, <1>4 DEF CallInv
<1>5. CASE /\ redmine' = redmine /\ pc'[c] = "rejected"
           /\ ~Permits(roles, redmine[req[c].issue].status, target[c])
  BY <1>1, <1>2, <1>5 DEF CallInv, Permits
<1>6. \/ Commit(c) /\ pc'[c] \in {"refetch", "failed"}
      \/ redmine' = redmine /\ pc'[c] = "failed"
      \/ /\ redmine' = redmine /\ pc'[c] = "rejected"
         /\ ~Permits(roles, redmine[req[c].issue].status, target[c])
  BY DEF Put
<1> QED
  BY <1>1, <1>3, <1>4, <1>5, <1>6

\* The steps after the PUT record what the PUT showed.
LEMMA RecordingSteps ==
    ASSUME TypeOK, LearnedInv, NEW c \in Callers, CallInv(c),
           PutRaised(c) \/ Refetch(c) \/ RecordAllowed(c)
    PROVE  LearnedInv' /\ CallInv(c)'
<1> USE DEF TypeOK, Goto, Fails, locals, history, bounds, cache
<1>1. CASE Fails(c)
  BY <1>1 DEF LearnedInv, DisallowedIsTrue, AllowedIsGranted, CallInv, Waiting
<1>2. CASE PutRaised(c) /\ ~Fails(c)
  <2>1. FetchUser /\ UNCHANGED roles /\ pc'[c] = "error" /\ userMeta' = {roles}
    BY <1>2 DEF PutRaised, FetchUser, LearnedInv
  <2>2. CASE pc[c] = "rejected"
    BY <1>2, <2>1, <2>2, RecordDisallowed DEF PutRaised, Record, LooksLikeWorkflowDisallowed,
       CallInv, Waiting
  <2>3. CASE pc[c] # "rejected"
    BY <1>2, <2>1, <2>3 DEF PutRaised, LooksLikeWorkflowDisallowed, LearnedInv,
       DisallowedIsTrue, AllowedIsGranted, CallInv, Waiting
  <2> QED
    BY <2>1, <2>2, <2>3
<1>3. CASE Refetch(c) /\ ~Fails(c)
  <2>1. /\ pc[c] = "refetch" /\ pc'[c] = AfterRefetch(c)
        /\ obs' = IF Changing(c, target[c]) /\ AfterRefetch(c) = "ok"
                  THEN Recorded(UNION userMeta, seen[c].status, target[c], "allowed") ELSE obs
        /\ UNCHANGED <<redmine, roles, userMeta, req, target, seen>>
    BY <1>3 DEF Refetch
  <2>2. Changing(c, target[c]) /\ AfterRefetch(c) \in {"ok", "record"}
        => Granted(seen[c].status, target[c])
    BY <2>1 DEF AfterRefetch, CallInv
  <2>3. LearnedInv'
    <3>1. CASE Changing(c, target[c]) /\ AfterRefetch(c) = "ok"
      BY <2>1, <2>2, <3>1, RecordAllowedRows DEF LearnedInv
    <3>2. CASE ~(Changing(c, target[c]) /\ AfterRefetch(c) = "ok")
      BY <2>1, <3>2 DEF LearnedInv, DisallowedIsTrue, AllowedIsGranted
    <3> QED
      BY <3>1, <3>2
  <2>4. CallInv(c)'
    BY <2>1, <2>2 DEF AfterRefetch, CallInv, Waiting, Granted
  <2> QED
    BY <2>3, <2>4
<1>4. CASE RecordAllowed(c) /\ ~Fails(c)
  <2>1. /\ Granted(seen[c].status, target[c]) /\ UNCHANGED roles /\ pc'[c] = "ok"
        /\ userMeta' = {roles}
    BY <1>4 DEF RecordAllowed, CallInv, FetchUser, LearnedInv
  <2> QED
    BY <1>4, <2>1, RecordAllowedRows DEF RecordAllowed, Record, CallInv, Waiting
<1> QED
  BY <1>1, <1>2, <1>3, <1>4

\* Nor does somebody else's edit, unless it is a disturbance.
LEMMA EditKeepsIssue ==
    ASSUME TypeOK, ~disturbed', ExternalEdit, NEW c \in Callers, pc[c] \in Waiting
    PROVE  redmine'[req[c].issue] = redmine[req[c].issue]
<1>1. PICK i \in Issues, s \in IssueState :
        /\ redmine' = [redmine EXCEPT ![i] = s]
        /\ disturbed' = (disturbed \/ \E d \in Callers : pc[d] \in Waiting /\ req[d].issue = i)
  BY DEF ExternalEdit
<1>2. req[c].issue # i
  BY <1>1
<1>3. req[c].issue \in Issues
  BY DEF TypeOK, Request
<1> QED
  BY <1>1, <1>2, <1>3 DEF TypeOK

\* The rest of the world, while it disturbs no call.
LEMMA OtherSteps ==
    ASSUME TypeOK, LearnedInv, \A c \in Callers : CallInv(c), Other, ~disturbed'
    PROVE  LearnedInv' /\ \A c \in Callers : CallInv(c)'
<1> USE DEF TypeOK, Event, locals
<1>1. CASE ExternalEdit
  <2>1. UNCHANGED <<roles, obs, userMeta, pc, req, target, seen>>
    BY <1>1 DEF ExternalEdit, cache
  <2>2. ASSUME NEW c \in Callers
        PROVE  pc[c] \in Waiting => redmine'[req[c].issue] = redmine[req[c].issue]
    BY <1>1, EditKeepsIssue
  <2>3. LearnedInv'
    BY <2>1 DEF LearnedInv, DisallowedIsTrue, AllowedIsGranted
  <2>4. \A c \in Callers : CallInv(c)'
    BY <2>1, <2>2 DEF CallInv, Moved, Changing, Permits, Granted, Waiting
  <2> QED
    BY <2>3, <2>4
<1>2. CASE RoleChange
  <2>1. userMeta' = {} /\ UNCHANGED <<obs, pc>> /\ \A c \in Callers : pc[c] \notin Waiting
    BY <1>2 DEF RoleChange
  <2>2. LearnedInv'
    BY <2>1 DEF LearnedInv, DisallowedIsTrue, AllowedIsGranted
  <2>3. \A c \in Callers : CallInv(c)'
    BY <2>1 DEF CallInv, Waiting
  <2> QED
    BY <2>2, <2>3
<1>3. CASE Expire \/ Invalidate \/ Warm
  <2>1. LearnedInv'
    BY <1>3 DEF Expire, Invalidate, Warm, LearnedInv, DisallowedIsTrue, AllowedIsGranted
  <2>2. UNCHANGED <<redmine, roles, pc, req, target, seen>>
    BY <1>3 DEF Expire, Invalidate, Warm
  <2>3. \A c \in Callers : CallInv(c)'
    BY <2>2 DEF CallInv, Waiting, Moved, Changing, Permits, Granted
  <2> QED
    BY <2>1, <2>3
<1> QED
  BY <1>1, <1>2, <1>3 DEF Other

\* The inductive invariant holds of every behaviour.
THEOREM LearnedInvariance == Spec => []IInv
<1>1. Init => IInv
  <2> SUFFICES ASSUME Init PROVE IInv
    OBVIOUS
  <2>1. LearnedInv
    BY DEF Init, LearnedInv, DisallowedIsTrue, AllowedIsGranted
  <2>2. \A c \in Callers : CallInv(c)
    BY DEF Init, CallInv, Waiting
  <2> QED
    BY <2>1, <2>2, InitTypes DEF IInv
<1>2. IInv /\ [Next]_vars => IInv'
  <2> SUFFICES ASSUME IInv, [Next]_vars PROVE IInv'
    OBVIOUS
  <2>1. TypeOK'
    BY StepTypes, OtherTypes DEF IInv, Next, vars, cache, locals, history, bounds, TypeOK
  <2>2. ASSUME ~disturbed' PROVE LearnedInv' /\ \A c \in Callers : CallInv(c)'
    <3>1. TypeOK /\ LearnedInv /\ \A c \in Callers : CallInv(c)
      BY <2>2, DisturbedStays DEF IInv
    <3>2. ASSUME NEW c \in Callers, Begin(c) \/ Step(c)
          PROVE  LearnedInv' /\ \A d \in Callers : CallInv(d)'
      <4>1. LearnedInv' /\ CallInv(c)'
        BY <3>1, <3>2, ReadingSteps, PutStep, RecordingSteps DEF Step
      <4>2. \A d \in Callers : d # c => CallInv(d)'
        BY <2>2, <3>1, <3>2, OthersUndisturbed
      <4> QED
        BY <4>1, <4>2
    <3>3. CASE Other
      BY <2>2, <3>1, <3>3, OtherSteps
    <3>4. CASE UNCHANGED vars
      BY <3>1, <3>4 DEF vars, cache, locals, history, bounds, TypeOK, LearnedInv,
         DisallowedIsTrue, AllowedIsGranted, CallInv, Moved, Changing, Permits, Granted
    <3> QED
      BY <3>2, <3>3, <3>4 DEF Next
  <2> QED
    BY <2>1, <2>2 DEF IInv
<1> QED
  BY <1>1, <1>2, PTL DEF Spec

\* Every learned row is true of Redmine's workflow: a "disallowed" one is a
\* transition forbidden to that role, an "allowed" one is granted to some role, until
\* a call is disturbed.
THEOREM LearnedRowsAreTrue == Spec => []LearnedIsTrue
<1>1. IInv => LearnedIsTrue
  BY DEF IInv, LearnedInv, LearnedIsTrue
<1> QED
  BY <1>1, LearnedInvariance, PTL

\* Until a call is disturbed, the pre-flight turns one away only when Redmine would
\* have refused it.
THEOREM BlocksAreJustified == Spec => BlockedWasForbidden
<1>1. IInv /\ [Next]_vars
      => [\A c \in Callers : pc[c] = "preflight" /\ pc'[c] = "blocked"
                             => disturbed \/ ~Permits(roles, seen[c].status, target[c])]_vars
  <2> SUFFICES ASSUME IInv, Next, NEW c \in Callers, pc[c] = "preflight", pc'[c] = "blocked",
                      ~disturbed
               PROVE  ~Permits(roles, seen[c].status, target[c])
    OBVIOUS
  <2> USE DEF IInv
  <2>1. ~Other
    BY DEF Other, ExternalEdit, RoleChange, Expire, Invalidate, Warm, Event
  <2>2. ASSUME NEW d \in Callers, d # c PROVE ~(Begin(d) \/ Step(d))
    BY <2>2, OthersKeepLocals
  <2>3. Preflight(c)
    BY <2>1, <2>2 DEF Next, Step, Begin, CloseResolve, Get, Resolve, ResolvePriority, Put,
       PutRaised, Refetch, RecordAllowed, Ended
  <2>4. UNION userMeta' = roles /\ IsDisallowed(UNION userMeta', seen[c].status, target[c])
    BY <2>3 DEF Preflight, Fails, Goto, FetchUser, TypeOK, LearnedInv
  <2>5. ASSUME NEW r \in RoleSet(roles)
        PROVE  <<r, seen[c].status, target[c]>> \notin Workflow
    <3>1. CASE <<r, seen[c].status, target[c]>> \in DOMAIN obs
      BY <2>4, <2>5, <3>1 DEF IsDisallowed, LearnedInv, DisallowedIsTrue
    <3>2. CASE <<r, seen[c].status, target[c]>> \notin DOMAIN obs
      BY <3>2, ConstantsAssumption DEF TypeOK
    <3> QED
      BY <3>1, <3>2
  <2> QED
    BY <2>5 DEF Permits
<1> QED
  BY <1>1, LearnedInvariance, PTL DEF Spec, BlockedWasForbidden

-----------------------------------------------------------------------------
(* What a caller is told *)

\* What a call has done to Redmine, by where it is.
OutcomeInv(c) ==
    /\ pc[c] \in Waiting \ {"failed", "refetch", "record"} => ~applied[c]
    /\ pc[c] \in {"blocked", "held"} => ~applied[c]
    /\ pc[c] = "refetch" => applied[c] /\ (disturbed \/ (moved[c] <=> Moved(c)))
    /\ pc[c] = "record" \/ (pc[c] = "ok" /\ Changing(c, target[c]))
         => applied[c] /\ (disturbed \/ moved[c])
    /\ pc[c] = "ignored" => applied[c] /\ (disturbed \/ ~moved[c])

\* A call's own steps.
LEMMA OwnOutcome ==
    ASSUME TypeOK, NEW c \in Callers, OutcomeInv(c), Begin(c) \/ Step(c)
    PROVE  OutcomeInv(c)'
<1> USE DEF TypeOK, Goto, locals, history, bounds, cache
<1>1. CASE Begin(c)
  BY <1>1 DEF Begin, OutcomeInv, Waiting
<1>2. CASE Fails(c)
  BY <1>2 DEF Fails, OutcomeInv, Waiting
<1>3. CASE (CloseResolve(c) \/ Get(c)) /\ ~Fails(c)
  BY <1>3 DEF CloseResolve, Get, OutcomeInv, Waiting
<1>4. CASE Resolve(c) /\ ~Fails(c)
  <2>1. /\ pc[c] = "resolve" /\ pc'[c] \in {"error", "priority", "held", "preflight"}
        /\ applied' = applied
    BY <1>4 DEF Resolve, ResolveWith, AfterResolve
  <2> QED
    BY <2>1 DEF OutcomeInv, Waiting
<1>5. CASE (Preflight(c) \/ ResolvePriority(c)) /\ ~Fails(c)
  BY <1>5 DEF Preflight, ResolvePriority, OutcomeInv, Waiting
<1>6. CASE Put(c)
  <2>1. CASE Commit(c) /\ pc'[c] = "refetch"
    <3>1. PICK to : redmine'[req[c].issue].status = to /\ moved'[c] = (to = target[c])
      BY <2>1 DEF Commit, Request
    <3> QED
      BY <1>6, <2>1, <3>1 DEF Put, Commit, OutcomeInv, Waiting, Moved
  <2>2. CASE pc'[c] = "failed"
    BY <2>2 DEF OutcomeInv, Waiting
  <2>3. CASE pc[c] = "put" /\ pc'[c] = "rejected" /\ applied' = applied
    BY <2>3 DEF OutcomeInv, Waiting
  <2> QED
    BY <1>6, <2>1, <2>2, <2>3 DEF Put
<1>7. CASE PutRaised(c) /\ ~Fails(c)
  BY <1>7 DEF PutRaised, OutcomeInv, Waiting
<1>8. CASE Refetch(c) /\ ~Fails(c)
  <2>1. /\ pc[c] = "refetch" /\ pc'[c] = AfterRefetch(c)
        /\ UNCHANGED <<redmine, req, target, seen, applied, moved, disturbed>>
    BY <1>8 DEF Refetch
  <2> QED
    BY <2>1 DEF AfterRefetch, OutcomeInv, Waiting, Moved, Changing
<1>9. CASE RecordAllowed(c) /\ ~Fails(c)
  BY <1>9 DEF RecordAllowed, OutcomeInv, Waiting, Changing
<1> QED
  BY <1>1, <1>2, <1>3, <1>4, <1>5, <1>6, <1>7, <1>8, <1>9 DEF Step

\* The other callers'.
LEMMA OthersOutcome ==
    ASSUME TypeOK, NEW c \in Callers, NEW d \in Callers, d # c,
           disturbed => disturbed', OutcomeInv(d), Begin(c) \/ Step(c)
    PROVE  OutcomeInv(d)'
<1>1. UNCHANGED <<pc[d], req[d], target[d], seen[d]>>
  BY OthersKeepLocals
<1>2. disturbed' \/ (pc[d] \in Waiting => redmine'[req[d].issue] = redmine[req[d].issue])
  BY OthersKeepIssue
<1>3. UNCHANGED <<applied[d], moved[d]>>
  <2> USE DEF TypeOK, history
  <2>1. CASE Begin(c) \/ CloseResolve(c) \/ Get(c) \/ Preflight(c) \/ ResolvePriority(c)
    BY <2>1 DEF Begin, CloseResolve, Get, Preflight, ResolvePriority, Fails
  <2>2. CASE Resolve(c)
    BY <2>2 DEF Resolve, ResolveWith, Fails
  <2>3. CASE Put(c)
    BY <2>3 DEF Put, Commit
  <2>4. CASE PutRaised(c) \/ Refetch(c) \/ RecordAllowed(c)
    BY <2>4 DEF PutRaised, Refetch, RecordAllowed, Fails
  <2> QED
    BY <2>1, <2>2, <2>3, <2>4 DEF Step
<1> QED
  BY <1>1, <1>2, <1>3 DEF OutcomeInv, Moved, Changing, Waiting

\* "ok", "ignored", "blocked" and "held" say what the call did in Redmine.
THEOREM OutcomesAreTruthful == Spec => []OutcomeIsTruthful
<1> DEFINE AllOutcomes == \A c \in Callers : OutcomeInv(c)
<1>1. Init => AllOutcomes
  BY DEF Init, OutcomeInv, Waiting
<1>2. TypeOK /\ AllOutcomes /\ [Next]_vars => AllOutcomes'
  <2> SUFFICES ASSUME TypeOK, AllOutcomes, [Next]_vars PROVE AllOutcomes'
    OBVIOUS
  <2>1. ASSUME NEW c \in Callers, Begin(c) \/ Step(c) PROVE AllOutcomes'
    BY <2>1, OwnOutcome, OthersOutcome, DisturbedStays
  <2>2. CASE Other \/ UNCHANGED vars
    <3>1. UNCHANGED <<pc, req, target, seen, applied, moved>>
      BY <2>2 DEF Other, ExternalEdit, RoleChange, Expire, Invalidate, Warm, Event,
         vars, locals, history
    <3>2. ASSUME NEW c \in Callers, ~disturbed', pc[c] \in Waiting
          PROVE  redmine'[req[c].issue] = redmine[req[c].issue]
      BY <2>2, <3>2, EditKeepsIssue DEF Other, RoleChange, Expire, Invalidate, Warm, vars
    <3> QED
      BY <3>1, <3>2, DisturbedStays DEF OutcomeInv, Moved, Changing, Waiting
  <2> QED
    BY <2>1, <2>2 DEF Next
<1>3. AllOutcomes => OutcomeIsTruthful
  BY DEF OutcomeInv, OutcomeIsTruthful
<1> QED
  BY <1>1, <1>2, <1>3, TypeCorrect, PTL DEF Spec

-----------------------------------------------------------------------------
(* The gate and the issue itself *)

\* No PUT closes an open issue and leaves a hold on it, when the gate had the list of
\* statuses and the issue is as the call has read it.
THEOREM ClosesLeaveNoHold == Spec => ClosingLeavesNotHeld
<1>1. TypeOK /\ GateSawTheHold /\ [Next]_vars
      => [\A c \in Callers : LET i == req[c].issue IN
            /\ pc[c] = "put" /\ pc'[c] # "put"
            /\ redmine[i].status \notin Closed /\ redmine'[i].status \in Closed
            /\ redmine'[i].held
            => ~gated[c] \/ redmine[i] # seen[c]]_vars
  <2> SUFFICES ASSUME TypeOK, GateSawTheHold, Next, NEW c \in Callers,
                      pc[c] = "put", pc'[c] # "put",
                      redmine[req[c].issue].status \notin Closed,
                      redmine'[req[c].issue].status \in Closed,
                      gated[c], redmine[req[c].issue] = seen[c]
               PROVE  ~redmine'[req[c].issue].held
    OBVIOUS
  <2> DEFINE i == req[c].issue
  <2>1. ~Other
    BY DEF Other, ExternalEdit, RoleChange, Expire, Invalidate, Warm, Event
  <2>2. ASSUME NEW d \in Callers, d # c PROVE ~(Begin(d) \/ Step(d))
    BY <2>2, OthersKeepLocals
  <2>3. Begin(c) \/ Step(c)
    BY <2>1, <2>2 DEF Next
  <2>4. Commit(c)
    BY <2>3, StepOnRedmine
  <2>5. i \in Issues
    BY DEF TypeOK, Request
  <2>6. PICK to \in {redmine[i].status, target[c]} :
          /\ redmine' = [redmine EXCEPT
               ![i] = [status |-> to, held |-> HeldAfter(req[c].held, redmine[i].held)]]
          /\ to = redmine[i].status \/ (target[c] # NoStatus /\ target[c] # redmine[i].status)
    BY <2>4 DEF Commit
  <2>7. /\ redmine'[i].held = HeldAfter(req[c].held, seen[c].held)
        /\ redmine'[i].status = target[c] /\ target[c] # NoStatus
        /\ target[c] # seen[c].status
    BY <2>5, <2>6 DEF TypeOK
  <2>8. target[c] \in Closed /\ Changing(c, target[c])
    BY <2>7 DEF Changing
  <2>9. ~HeldAfter(req[c].held, seen[c].held)
    BY <2>8 DEF GateSawTheHold
  <2> QED
    BY <2>7, <2>9
<1> QED
  BY <1>1, TypeCorrect, GateIsNeverBlind, PTL DEF Spec, ClosingLeavesNotHeld
=============================================================================
