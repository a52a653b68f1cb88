----------------------------- MODULE EditProofs -----------------------------
(***************************************************************************)
(* Proofs about Wiki for any number of callers and of calls, about         *)
(* TimeEntries for any call, any activities and whatever others do, and    *)
(* about IssueFields for any call, any definition and any list of entries. *)
(***************************************************************************)
EXTENDS Writes, TransferProofs, RelationsProofs, FiniteSetTheorems, SequenceTheorems, TLAPS

WikiTypeOK ==
    /\ wikiPage \in PageState \cup {NoPage} /\ revisions \in Nat
    /\ wikiStep \in [Editors -> {"idle", "get", "put", "refetch", "delete"}]
    /\ wikiOp \in [Editors -> WikiOps]
    /\ seen \in [Editors -> PageState \cup {NoPage}]
    /\ base \in [Editors -> Nat] /\ misled \in [Editors -> BOOLEAN]
    /\ wrote \in [Editors -> Nat] /\ reply \in [Editors -> WikiReplies]
    /\ wikiCalls \in Nat

\* The version counts the revisions since the one that created the page
VersionIsSound(p) == /\ 1 <= p.born /\ p.born <= p.rev /\ p.rev <= revisions
            /\ p.version + p.born = p.rev + 1

PageInv == wikiPage # NoPage => VersionIsSound(wikiPage) /\ wikiPage.rev = revisions

\* What a caller was shown is an earlier revision of the page, or of one before it
SeenInv ==
    \A e \in Editors : seen[e] # NoPage =>
        /\ VersionIsSound(seen[e])
        /\ wikiPage # NoPage =>
              wikiPage.born > seen[e].rev \/ wikiPage.born = seen[e].born

\* While a call runs, what it has written and what it was told before
CallInv ==
    \A e \in Editors :
        /\ wikiOp[e].locked /\ wikiStep[e] # "idle" => seen[e] # NoPage
        /\ wikiStep[e] \in {"get", "put"} => wrote[e] = 0
        /\ wikiStep[e] = "refetch" => wrote[e] # 0
        /\ wikiStep[e] = "delete" => wikiOp[e].kind = "delete"
        /\ wrote[e] <= revisions

\* A page that is there when create_page writes was created after it looked
BaseInv ==
    \A e \in Editors : wikiStep[e] = "put" /\ wikiOp[e].kind = "create" =>
        \/ misled[e]
        \/ base[e] <= revisions /\ (wikiPage # NoPage => wikiPage.born > base[e])

WikiInv == WikiTypeOK /\ PageInv /\ SeenInv /\ CallInv /\ BaseInv /\ AnswersShowTheWrite

-----------------------------------------------------------------------------
\* A state's page is a record of naturals.
LEMMA PageFields ==
    ASSUME NEW p \in PageState
    PROVE  p.rev \in Nat /\ p.born \in Nat /\ p.version \in Nat
    BY DEF PageState

\* WikiInit establishes the invariant.
LEMMA WikiInitInv == WikiInit => WikiInv
<1> SUFFICES ASSUME WikiInit PROVE WikiInv
    OBVIOUS
<1>1. [rev |-> 1, born |-> 1, version |-> 1] \in PageState
    BY DEF PageState
<1>2. [kind |-> "get", locked |-> FALSE] \in WikiOps
    BY DEF WikiOps
<1>3. WikiTypeOK
    BY <1>1, <1>2 DEF WikiInit, WikiTypeOK, WikiReplies
<1>4. PageInv /\ SeenInv /\ CallInv /\ BaseInv /\ AnswersShowTheWrite
    BY DEF WikiInit, PageInv, SeenInv, CallInv, BaseInv, AnswersShowTheWrite, VersionIsSound
<1> QED
    BY <1>3, <1>4 DEF WikiInv

\* What WikiWrite makes of the page keeps it sound.
LEMMA WriteKeepsPages ==
    ASSUME WikiTypeOK, PageInv, SeenInv, NEW e \in Editors, WikiWrite(e)
    PROVE  /\ wikiPage' \in PageState /\ revisions' = revisions + 1
           /\ wikiPage'.rev = revisions' /\ PageInv'
           /\ wikiPage # NoPage => wikiPage'.born = wikiPage.born
           /\ wikiPage = NoPage => wikiPage'.born = revisions'
<1>1. CASE wikiPage = NoPage
    BY <1>1 DEF WikiTypeOK, WikiWrite, PageState, PageInv, VersionIsSound
<1>2. CASE wikiPage # NoPage
  <2>1. wikiPage \in PageState
    BY <1>2 DEF WikiTypeOK
  <2>2. wikiPage' = [rev |-> revisions + 1, born |-> wikiPage.born,
                     version |-> wikiPage.version + 1]
    BY <1>2, <2>1 DEF WikiWrite, PageState
  <2> QED
    BY <1>2, <2>1, <2>2, PageFields DEF WikiTypeOK, WikiWrite, PageState, PageInv, VersionIsSound
<1> QED
    BY <1>1, <1>2

\* WikiCall preserves the invariant.
LEMMA CallStep ==
    ASSUME WikiInv, NEW e \in Editors, WikiCall(e)
    PROVE  WikiInv'
<1> USE DEF WikiInv
<1>1. PICK o \in WikiOps :
        /\ o.locked => seen[e] # NoPage
        /\ wikiOp' = [wikiOp EXCEPT ![e] = o]
        /\ \/ WikiGoes(e, "idle", WikiFirstStep(o.kind)) /\ UNCHANGED seen
              /\ reply' = [reply EXCEPT ![e] = "none"]
           \/ o.kind \in {"create", "update"} /\ UNCHANGED wikiPage
              /\ WikiEnds(e, "invalid")
    BY DEF WikiCall
<1>2. /\ o.kind \in {"get", "create", "update", "delete"} /\ o.locked \in BOOLEAN
      /\ wikiStep[e] = "idle"
    BY <1>1 DEF WikiOps, WikiCall
<1>3. UNCHANGED seen
    BY <1>1 DEF WikiEnds, WikiTypeOK
<1>4. /\ UNCHANGED <<wikiPage, revisions>> /\ wrote' = [wrote EXCEPT ![e] = 0]
      /\ base' = [base EXCEPT ![e] = 0] /\ misled' = [misled EXCEPT ![e] = FALSE]
      /\ wikiCalls' = wikiCalls + 1
    BY DEF WikiCall
<1>5. /\ \/ wikiStep' = [wikiStep EXCEPT ![e] = WikiFirstStep(o.kind)]
            /\ reply' = [reply EXCEPT ![e] = "none"]
         \/ wikiStep' = [wikiStep EXCEPT ![e] = "idle"]
            /\ reply' = [reply EXCEPT ![e] = "invalid"]
      /\ WikiFirstStep(o.kind) \in {"get", "put", "delete"}
      /\ WikiFirstStep(o.kind) = "delete" => o.kind = "delete"
      /\ WikiFirstStep(o.kind) = "put" => o.kind = "update"
    BY <1>1, <1>2 DEF WikiGoes, WikiEnds, WikiFirstStep
<1> HIDE DEF WikiInv
<1>6. WikiTypeOK'
    BY <1>1, <1>3, <1>4, <1>5 DEF WikiInv, WikiTypeOK, WikiReplies
<1>7. PageInv' /\ SeenInv'
    BY <1>3, <1>4 DEF WikiInv, PageInv, SeenInv, VersionIsSound
<1>8. CallInv'
    BY <1>1, <1>2, <1>3, <1>4, <1>5 DEF WikiInv, WikiTypeOK, CallInv
<1>9. BaseInv'
    BY <1>1, <1>2, <1>4, <1>5 DEF WikiInv, WikiTypeOK, BaseInv
<1>10. AnswersShowTheWrite'
    BY <1>1, <1>2, <1>3, <1>4, <1>5 DEF WikiInv, WikiTypeOK, AnswersShowTheWrite
<1> QED
    BY <1>6, <1>7, <1>8, <1>9, <1>10 DEF WikiInv

\* WikiPreflight preserves the invariant.
LEMMA PreflightStep ==
    ASSUME WikiInv, NEW e \in Editors, WikiPreflight(e)
    PROVE  WikiInv'
<1>1. PICK look \in {"page", "absent", "null", "error"} :
        /\ WikiLookup(e, look)
        /\ IF ClearToCreate(look)
           THEN /\ WikiGoes(e, "get", "put") /\ UNCHANGED <<reply, seen>>
                /\ base' = [base EXCEPT ![e] = revisions]
                /\ misled' = [misled EXCEPT ![e] = look = "null"]
           ELSE /\ WikiEnds(e, IF look = "page" THEN "exists" ELSE "api_error")
                /\ UNCHANGED <<base, misled>>
    BY DEF WikiPreflight
<1>2. UNCHANGED <<wikiPage, revisions, wikiOp, wrote, wikiCalls>>
    BY <1>1 DEF WikiLookup
<1>3. wikiStep[e] = "get" /\ wikiOp[e].kind = "create"
    BY DEF WikiPreflight
<1>4. CASE ClearToCreate(look)
  <2>1. /\ wikiStep' = [wikiStep EXCEPT ![e] = "put"] /\ UNCHANGED <<reply, seen>>
        /\ base' = [base EXCEPT ![e] = revisions]
        /\ misled' = [misled EXCEPT ![e] = look = "null"]
    BY <1>1, <1>4 DEF WikiGoes
  <2>2. look = "null" \/ wikiPage = NoPage
    BY <1>1, <1>4 DEF ClearToCreate, WikiLookup
  <2>3. WikiTypeOK'
    <3>1. misled' \in [Editors -> BOOLEAN]
        BY <2>1 DEF WikiInv, WikiTypeOK
    <3> QED
        BY <1>2, <2>1, <3>1 DEF WikiInv, WikiTypeOK
  <2>4. PageInv' /\ SeenInv'
    BY <1>2, <2>1 DEF WikiInv, PageInv, SeenInv, VersionIsSound
  <2>5. CallInv'
    BY <1>2, <1>3, <2>1 DEF WikiInv, WikiTypeOK, CallInv
  <2>6. misled'[e] \/ wikiPage = NoPage
    BY <2>1, <2>2 DEF WikiInv, WikiTypeOK
  <2>7. BaseInv'
    BY <1>2, <1>3, <2>1, <2>6 DEF WikiInv, WikiTypeOK, BaseInv
  <2>8. AnswersShowTheWrite'
    BY <1>2, <2>1 DEF WikiInv, WikiTypeOK, AnswersShowTheWrite
  <2> QED
    BY <2>3, <2>4, <2>5, <2>7, <2>8 DEF WikiInv
<1>5. CASE ~ClearToCreate(look)
  <2>1. PICK kind \in {"exists", "api_error"} :
            /\ wikiStep' = [wikiStep EXCEPT ![e] = "idle"]
            /\ reply' = [reply EXCEPT ![e] = kind]
            /\ UNCHANGED <<seen, base, misled>>
    BY <1>1, <1>5 DEF WikiEnds, WikiInv, WikiTypeOK
  <2>2. WikiTypeOK'
    BY <1>2, <2>1 DEF WikiInv, WikiTypeOK, WikiReplies
  <2>3. PageInv' /\ SeenInv'
    BY <1>2, <2>1 DEF WikiInv, PageInv, SeenInv, VersionIsSound
  <2>4. CallInv' /\ BaseInv'
    BY <1>2, <2>1 DEF WikiInv, WikiTypeOK, CallInv, BaseInv
  <2>5. AnswersShowTheWrite'
    BY <1>2, <1>3, <2>1 DEF WikiInv, WikiTypeOK, CallInv, AnswersShowTheWrite
  <2> QED
    BY <2>2, <2>3, <2>4, <2>5 DEF WikiInv
<1> QED
    BY <1>4, <1>5

\* WikiGet preserves the invariant.
LEMMA GetStep ==
    ASSUME WikiInv, NEW e \in Editors, WikiGet(e)
    PROVE  WikiInv'
<1>1. PICK kind \in {"page", "api_error", "not_found"} :
        /\ kind = "page" => wikiPage # NoPage
        /\ WikiEnds(e, kind)
    BY DEF WikiGet, WikiLookup
<1>2. UNCHANGED <<wikiPage, revisions, wikiOp, wrote, wikiCalls, base, misled>>
    BY DEF WikiGet, WikiLookup
<1>3. \/ wikiStep[e] = "refetch"
      \/ wikiStep[e] = "get" /\ wikiOp[e].kind = "get"
    BY DEF WikiGet
<1>4. /\ wikiStep' = [wikiStep EXCEPT ![e] = "idle"]
      /\ reply' = [reply EXCEPT ![e] = kind]
      /\ seen' = [seen EXCEPT ![e] = IF kind = "page" THEN wikiPage ELSE @]
    BY <1>1, <1>2 DEF WikiEnds
<1>5. WikiTypeOK'
    BY <1>2, <1>4 DEF WikiInv, WikiTypeOK, WikiReplies
<1>6. PageInv' /\ SeenInv'
    BY <1>1, <1>2, <1>4 DEF WikiInv, WikiTypeOK, PageInv, SeenInv, VersionIsSound
<1>7. CallInv' /\ BaseInv'
    BY <1>1, <1>2, <1>4 DEF WikiInv, WikiTypeOK, CallInv, BaseInv
<1>8. AnswersShowTheWrite'
    BY <1>1, <1>2, <1>3, <1>4 DEF WikiInv, WikiTypeOK, CallInv, PageInv, AnswersShowTheWrite
<1> QED
    BY <1>5, <1>6, <1>7, <1>8 DEF WikiInv

\* WikiPut preserves the invariant.
LEMMA WikiPutStep ==
    ASSUME WikiInv, NEW e \in Editors, WikiPut(e)
    PROVE  WikiInv'
<1>1. wikiStep[e] = "put" /\ UNCHANGED <<wikiOp, base, misled, wikiCalls>>
    BY DEF WikiPut
<1>2. CASE WikiWrite(e)
  <2>1. /\ wikiPage' \in PageState /\ revisions' = revisions + 1
        /\ wikiPage'.rev = revisions' /\ PageInv' /\ wikiPage' # NoPage
        /\ wikiPage # NoPage => wikiPage'.born = wikiPage.born
        /\ wikiPage = NoPage => wikiPage'.born = revisions'
        /\ wrote' = [wrote EXCEPT ![e] = revisions + 1]
    BY <1>2, WriteKeepsPages, NoPageAssumption DEF WikiInv, WikiWrite
  <2>2. \/ WikiEnds(e, "page")
        \/ WikiGoes(e, "put", "refetch") /\ UNCHANGED <<reply, seen>>
        \/ WikiEnds(e, "api_error")
    <3>1. wrote' # wrote
        BY <2>1, <1>1 DEF WikiInv, WikiTypeOK, CallInv
    <3> QED
        BY <3>1 DEF WikiPut
  <2>3. PICK to \in {"idle", "refetch"}, kind \in {"page", "api_error"} :
            /\ wikiStep' = [wikiStep EXCEPT ![e] = to]
            /\ reply' = [reply EXCEPT ![e] = IF to = "idle" THEN kind ELSE @]
            /\ seen' = [seen EXCEPT ![e] =
                            IF to = "idle" /\ kind = "page" THEN wikiPage' ELSE @]
    BY <2>2 DEF WikiEnds, WikiGoes, WikiInv, WikiTypeOK
  <2>4. WikiTypeOK'
    BY <1>1, <2>1, <2>3 DEF WikiInv, WikiTypeOK, WikiReplies
  <2>5. SeenInv'
    <3> SUFFICES ASSUME NEW f \in Editors, seen'[f] # NoPage
                 PROVE  /\ VersionIsSound(seen[f])'
                        /\ wikiPage'.born > seen'[f].rev \/ wikiPage'.born = seen'[f].born
        BY DEF SeenInv
    <3>1. CASE seen'[f] = wikiPage'
        BY <2>1, <3>1 DEF PageInv, VersionIsSound
    <3>2. CASE seen'[f] = seen[f]
      <4>1. /\ seen[f] \in PageState /\ VersionIsSound(seen[f])
            /\ wikiPage # NoPage =>
                  wikiPage.born > seen[f].rev \/ wikiPage.born = seen[f].born
        BY <3>2 DEF WikiInv, WikiTypeOK, SeenInv
      <4> QED
        BY <2>1, <3>2, <4>1, PageFields DEF WikiInv, WikiTypeOK, VersionIsSound
    <3> QED
        BY <2>3, <3>1, <3>2 DEF WikiInv, WikiTypeOK
  <2>6. CallInv'
    BY <1>1, <2>1, <2>3 DEF WikiInv, WikiTypeOK, CallInv
  <2>7. BaseInv'
    BY <1>1, <2>1, <2>3 DEF WikiInv, WikiTypeOK, BaseInv
  <2>8. AnswersShowTheWrite'
    BY <1>1, <2>1, <2>3 DEF WikiInv, WikiTypeOK, AnswersShowTheWrite
  <2> QED
    BY <2>1, <2>4, <2>5, <2>6, <2>7, <2>8 DEF WikiInv
<1>3. CASE /\ UNCHANGED <<wikiPage, revisions, wrote>>
           /\ WikiEnds(e, "api_error") \/ WikiEnds(e, "conflict")
  <2>1. PICK kind \in {"api_error", "conflict"} :
            /\ wikiStep' = [wikiStep EXCEPT ![e] = "idle"]
            /\ reply' = [reply EXCEPT ![e] = kind] /\ UNCHANGED seen
    BY <1>3 DEF WikiEnds, WikiInv, WikiTypeOK
  <2>2. WikiTypeOK'
    BY <1>1, <1>3, <2>1 DEF WikiInv, WikiTypeOK, WikiReplies
  <2>3. PageInv' /\ SeenInv'
    BY <1>3, <2>1 DEF WikiInv, PageInv, SeenInv, VersionIsSound
  <2>4. CallInv' /\ BaseInv' /\ AnswersShowTheWrite'
    BY <1>1, <1>3, <2>1 DEF WikiInv, WikiTypeOK, CallInv, BaseInv, AnswersShowTheWrite
  <2> QED
    BY <2>2, <2>3, <2>4 DEF WikiInv
<1> QED
    BY <1>2, <1>3 DEF WikiPut

\* WikiDelete preserves the invariant.
LEMMA DeleteStep ==
    ASSUME WikiInv, NEW e \in Editors, WikiDelete(e)
    PROVE  WikiInv'
<1>1. /\ wikiStep[e] = "delete" /\ wikiPage' \in {wikiPage, NoPage}
      /\ UNCHANGED <<revisions, wikiOp, base, misled, wrote, wikiCalls>>
    BY DEF WikiDelete
<1>2. PICK kind \in {"deleted", "api_error", "not_found"} :
        /\ wikiStep' = [wikiStep EXCEPT ![e] = "idle"]
        /\ reply' = [reply EXCEPT ![e] = kind] /\ UNCHANGED seen
    BY DEF WikiDelete, WikiEnds, WikiInv, WikiTypeOK
<1>3. WikiTypeOK'
    BY <1>1, <1>2 DEF WikiInv, WikiTypeOK, WikiReplies
<1>4. PageInv' /\ SeenInv'
    BY <1>1, <1>2 DEF WikiInv, PageInv, SeenInv, VersionIsSound
<1>5. CallInv' /\ BaseInv' /\ AnswersShowTheWrite'
    BY <1>1, <1>2 DEF WikiInv, WikiTypeOK, CallInv, BaseInv, AnswersShowTheWrite
<1> QED
    BY <1>3, <1>4, <1>5 DEF WikiInv

-----------------------------------------------------------------------------
\* The invariant holds in every state of every behaviour.
THEOREM WikiInvariant == WikiSpec => []WikiInv
<1>1. WikiInv /\ [WikiNext]_wikiVars => WikiInv'
  <2>1. ASSUME WikiInv, UNCHANGED wikiVars PROVE WikiInv'
    BY <2>1 DEF wikiVars, WikiInv, WikiTypeOK, PageInv, SeenInv, CallInv, BaseInv,
                AnswersShowTheWrite, VersionIsSound
  <2> QED
    BY <2>1, CallStep, PreflightStep, GetStep, WikiPutStep, DeleteStep
    DEF WikiNext, WikiStep
<1> QED
    BY <1>1, WikiInitInv, PTL DEF WikiSpec

\* A write that is answered with a page was committed, and the page shows it; a
\* refused call has written nothing.
THEOREM AnswersAreTrue == WikiSpec => []AnswersShowTheWrite
    BY WikiInvariant, PTL DEF WikiInv

\* Only the PUT of a call writes for it.
LEMMA OnlyPutWrites ==
    ASSUME WikiInv, NEW e \in Editors, WikiNext, WikiWrites(e)
    PROVE  wikiStep[e] = "put" /\ WikiWrite(e)
<1>1. PICK f \in Editors : WikiStep(f)
    BY DEF WikiNext
<1>2. CASE WikiCall(f)
    BY <1>2 DEF WikiCall, WikiWrites, WikiInv, WikiTypeOK
<1>3. CASE WikiPreflight(f) \/ WikiGet(f) \/ WikiDelete(f)
    BY <1>3 DEF WikiPreflight, WikiGet, WikiDelete, WikiLookup, WikiWrites
<1>4. CASE WikiPut(f)
    BY <1>4 DEF WikiPut, WikiWrite, WikiWrites, WikiInv, WikiTypeOK
<1> QED
    BY <1>1, <1>2, <1>3, <1>4 DEF WikiStep

\* An update that names a version replaces what its caller was shown, or a page that
\* is newer altogether; create_page replaces only what was created after it looked.
THEOREM NothingIsOverwrittenBlindly == WikiSpec => NoBlindOverwrite
<1> DEFINE Blameless(e) ==
        /\ WikiReplaces(e, "update") /\ wikiOp[e].locked =>
              wikiPage.rev = seen[e].rev \/ wikiPage.born > seen[e].rev
        /\ WikiReplaces(e, "create") => misled[e] \/ wikiPage.born > base[e]
<1>1. ASSUME WikiInv, WikiNext, NEW e \in Editors PROVE Blameless(e)
  <2>1. ASSUME WikiReplaces(e, "update"), wikiOp[e].locked
        PROVE  wikiPage.rev = seen[e].rev \/ wikiPage.born > seen[e].rev
    <3>1. wikiStep[e] = "put" /\ ~Conflict(e) /\ wikiPage # NoPage
        BY <1>1, <2>1, OnlyPutWrites DEF WikiReplaces, WikiWrite
    <3>2. seen[e] # NoPage /\ seen[e] \in PageState /\ wikiPage \in PageState
        BY <1>1, <2>1, <3>1 DEF WikiInv, WikiTypeOK, CallInv
    <3>3. seen[e].version = wikiPage.version
        BY <2>1, <3>1 DEF Conflict
    <3> QED
        BY <1>1, <3>1, <3>2, <3>3, PageFields DEF WikiInv, WikiTypeOK, PageInv, SeenInv, VersionIsSound
  <2>2. ASSUME WikiReplaces(e, "create") PROVE misled[e] \/ wikiPage.born > base[e]
    BY <1>1, <2>2, OnlyPutWrites DEF WikiReplaces, WikiInv, BaseInv
  <2> QED
    BY <2>1, <2>2
<1>2. ASSUME UNCHANGED wikiVars, NEW e \in Editors PROVE Blameless(e)
    BY <1>2 DEF wikiVars, WikiReplaces, WikiWrites
<1>3. WikiInv /\ [WikiNext]_wikiVars => [\A e \in Editors : Blameless(e)]_wikiVars
    BY <1>1
<1> QED
    BY <1>3, WikiInvariant, PTL DEF WikiSpec, NoBlindOverwrite

-----------------------------------------------------------------------------
(* Time entries *)

ResultKinds ==
    {"entry_not_object", "required_field_missing", "hours_invalid", "activity_not_found",
     "nothing_to_update", "api_error", "created", "updated", "deleted"}

LoggedEntries ==
    [item : Nat, on : {"issue", "project", "default", "nowhere"}, minutes : Int,
     activity : ActivityIds \cup {Unsaid}, live : BOOLEAN]

TimeTypes ==
    /\ timeCall \in TimeCalls
    /\ timePc \in {"begin", "item", "lookup", "post", "put", "refetch", "delete", "done"}
    /\ item \in Nat \ {0}
    /\ activityId \in ActivityIds \cup {Unsaid}
    /\ report \in Seq(ResultKinds)
    /\ timeAnswer \in ResultKinds \cup {"none", "report", "batch_too_large"}
    /\ activityList \in ActivityTables \cup {NoList} /\ activities \in ActivityTables
    /\ logged \in Seq(LoggedEntries) /\ logged # <<>>
    /\ bore \in [ActivityIds -> SUBSET (ActivityNames \cup {Gone})]

\* No list, old or new, has a name that its activity has never borne.
NamesInv ==
    /\ \A i \in ActivityIds : activities[i] \in bore[i]
    /\ activityList # NoList => \A i \in ActivityIds : activityList[i] \in bore[i] \cup {Gone}

\* How far the call is: an entry that is being worked on has no result yet, and a batch
\* is cut off by a failure it was to stop at.
ProgressInv ==
    /\ timePc \in {"item", "lookup", "post", "put", "refetch"} =>
        item \in DOMAIN timeCall.specs /\ Len(report) = item - 1 /\ timeCall.op # "delete"
    /\ timePc = "post" => timeCall.op \in {"create", "bulk"}
    /\ timePc \in {"put", "refetch"} => timeCall.op = "update"
    /\ timePc = "delete" => timeCall.op = "delete"
    /\ timePc \in {"begin", "delete"} => report = <<>>
    /\ timePc # "done" => timeAnswer = "none"
    /\ timePc = "begin" \/ timeCall.op # "bulk" => item = 1
    /\ timeAnswer = "report" /\ Len(report) < Len(timeCall.specs) =>
        timeCall.stop /\ report # <<>> /\ report[Len(report)] # "created"

\* The payload is what the entry asks for.
Suits(ref, id) ==
    /\ ref \in ActivityIds => id = ref
    /\ ref \in ActivityNames => id \in ActivityIds /\ ref \in bore[id]

CheckedInv ==
    /\ timePc \in {"lookup", "post"} /\ timeCall.op # "update" =>
        ThisEntry # Junk /\ HoursAreValid(ThisEntry.hours)
    /\ timePc \in {"lookup", "put"} /\ timeCall.op = "update" =>
        ThisEntry.hours = Unsaid \/ HoursAreValid(ThisEntry.hours)
    /\ timePc = "lookup" => ThisEntry.activity \in ActivityNames
    /\ timePc \in {"post", "put"} => Suits(ThisEntry.activity, activityId)

\* What is logged has a result that does not deny it.
Reported(e) ==
    LET i == logged[e].item IN
    /\ timeCall.op \in {"create", "bulk"}
    /\ i \in DOMAIN report /\ i \in DOMAIN timeCall.specs
    /\ report[i] \in {"api_error", "created"}
    /\ AsAsked(timeCall.specs[i], logged[e]) /\ logged[e].on = Place(timeCall.specs[i])

LoggedInv ==
    /\ logged[1].item = 0
    /\ \A e \in DOMAIN logged : e # 1 => Reported(e)
    /\ \A e, f \in DOMAIN logged : e # f => logged[e].item # logged[f].item
    /\ \A i \in DOMAIN report : report[i] = "created" => LoggedFor(i) # {}

\* The entry that was there is as it was until the PUT, and then as asked.
TouchedInv ==
    /\ timeCall.op = "update" =>
        /\ timePc \in {"begin", "item", "lookup", "put"} \/ (timePc = "done" /\ timeAnswer \notin Unanswered) =>
            logged[1].minutes = Existing.minutes /\ logged[1].activity = Existing.activity
        /\ timePc = "refetch" \/ timeAnswer = "updated" => AsAsked(timeCall.specs[1], logged[1])
    /\ timeAnswer = "deleted" => ~logged[1].live

TimeInv ==
    /\ TimeTypes /\ NamesInv /\ ProgressInv /\ CheckedInv /\ LoggedInv /\ TouchedInv

\* What a call may be.
LEMMA CallShape ==
    ASSUME TimeTypes
    PROVE  /\ timeCall.op \in {"create", "bulk", "update", "delete"}
           /\ timeCall.specs \in Seq(EntrySpec \cup {Junk})
           /\ timeCall.op \in {"create", "update"} => Len(timeCall.specs) = 1 /\ timeCall.specs[1] # Junk
           /\ timeCall.op = "delete" => timeCall.specs = <<>>
BY TimeAssumption DEF TimeTypes

\* Hours that pass the check are booked as they were said.
LEMMA ValidHours ==
    ASSUME NEW s \in EntrySpec, HoursAreValid(s.hours)
    PROVE  /\ Minutes(s.hours) \in Int
           /\ (s.hours.neg /\ s.hours.h = 0)
              \/ (Minutes(s.hours) = 60 * s.hours.h + s.hours.m /\ (s.hours.neg => Minutes(s.hours) = 0))
<1>1. s.hours \in Hours
  BY DEF EntrySpec, HoursAreValid
<1> QED
  BY <1>1 DEF Hours, HoursAreValid, Minutes, Invalid

\* An entry whose payload suits it is as it was asked for.
LEMMA SuitsAsAsked ==
    ASSUME NEW s \in EntrySpec, NEW e, HoursAreValid(s.hours), e.minutes = Minutes(s.hours),
           Suits(s.activity, e.activity)
    PROVE  AsAsked(s, e)
BY ValidHours DEF AsAsked, Suits

\* What follows the end of an entry.
LEMMA ResultSteps ==
    ASSUME TimeTypes, ProgressInv, timeCall' = timeCall, NEW kind \in ResultKinds, Result(kind),
           timePc \in {"item", "lookup", "post", "put", "refetch", "delete"}
    PROVE  /\ report' \in Seq(ResultKinds) /\ item' \in Nat \ {0}
           /\ timePc' \in {"item", "done"}
           /\ timeAnswer' \in ResultKinds \cup {"none", "report"}
           /\ DOMAIN report' = DOMAIN report \cup {Len(report) + 1}
           /\ report'[Len(report) + 1] = kind
           /\ \A i \in DOMAIN report : report'[i] = report[i]
           /\ timeCall.op # "bulk" => timePc' = "done" /\ timeAnswer' = kind
           /\ timeCall.op = "bulk" => timeAnswer' \in {"none", "report"}
           /\ timePc \in {"item", "lookup", "post", "put", "refetch"} => Len(report) + 1 = item
           /\ ProgressInv'
<1>1. report' = Append(report, kind) /\ report \in Seq(ResultKinds) /\ item \in Nat \ {0}
  BY DEF Result, TimeTypes
<1>2. /\ report' \in Seq(ResultKinds) /\ Len(report') = Len(report) + 1
      /\ DOMAIN report' = DOMAIN report \cup {Len(report) + 1}
      /\ report'[Len(report) + 1] = kind
      /\ \A i \in DOMAIN report : report'[i] = report[i]
      /\ report' # <<>>
  BY <1>1
<1>3. Len(timeCall.specs) \in Nat /\ DOMAIN timeCall.specs = 1 .. Len(timeCall.specs)
  BY CallShape
<1>4. CASE timeCall.op # "bulk"
  <2>1. timePc' = "done" /\ timeAnswer' = kind /\ item' = item
    BY <1>4 DEF Result, Done
  <2>2. ProgressInv'
    BY <1>2, <1>4, <2>1 DEF ProgressInv, ResultKinds
  <2> QED
    BY <1>1, <1>2, <1>4, <2>1, <2>2 DEF ProgressInv
<1>5. CASE timeCall.op = "bulk"
  <2>1. timePc \in {"item", "lookup", "post", "put", "refetch"}
    BY <1>5 DEF ProgressInv
  <2>2. Len(report) + 1 = item /\ item \in 1 .. Len(timeCall.specs)
    BY <1>1, <1>3, <2>1 DEF ProgressInv
  <2>3. CASE item = Len(timeCall.specs) \/ (timeCall.stop /\ kind # "created")
    <3>1. timePc' = "done" /\ timeAnswer' = "report" /\ item' = item
      BY <1>5, <2>3 DEF Result, Done
    <3>2. ProgressInv'
      BY <1>2, <1>3, <1>5, <2>2, <2>3, <3>1 DEF ProgressInv
    <3> QED
      BY <1>1, <1>2, <1>5, <2>2, <3>1, <3>2
  <2>4. CASE ~(item = Len(timeCall.specs) \/ (timeCall.stop /\ kind # "created"))
    <3>1. timePc' = "item" /\ item' = item + 1 /\ timeAnswer' = "none"
      BY <1>5, <2>1, <2>4 DEF Result, ProgressInv
    <3>2. ProgressInv'
      BY <1>1, <1>2, <1>3, <1>5, <2>2, <2>4, <3>1 DEF ProgressInv
    <3> QED
      BY <1>1, <1>2, <1>5, <2>2, <3>1, <3>2
  <2> QED
    BY <2>3, <2>4
<1> QED
  BY <1>4, <1>5

\* An entry that ends without a request, or with one that did nothing.
LEMMA NothingLogged ==
    ASSUME TimeInv, timeCall' = timeCall, NEW kind \in ResultKinds \ {"created"}, Result(kind),
           timePc \in {"item", "lookup", "post", "put", "refetch", "delete"},
           UNCHANGED <<logged, bore, activities>>,
           activityList' \in ActivityTables \cup {NoList}, activityId' \in ActivityIds \cup {Unsaid},
           NamesInv',
           kind = "updated" => timePc = "refetch", kind = "deleted" => ~logged[1].live,
           timePc = "refetch" => kind \in Unanswered
    PROVE  TimeInv'
<1> USE DEF TimeInv
<1>1. TimeTypes' /\ ProgressInv'
  BY ResultSteps DEF TimeTypes
<1>2. CheckedInv'
  BY ResultSteps DEF CheckedInv
<1>3. LoggedInv'
  <2>1. \A i \in DOMAIN report : report'[i] = report[i]
    BY ResultSteps
  <2>2. DOMAIN report' = DOMAIN report \cup {Len(report) + 1} /\ report'[Len(report) + 1] = kind
    BY ResultSteps
  <2>3. \A i \in DOMAIN report' : report'[i] = "created" => LoggedFor(i)' # {}
    BY <2>1, <2>2 DEF LoggedInv, LoggedFor
  <2>4. ASSUME NEW e \in DOMAIN logged, e # 1 PROVE Reported(e)'
    <3>1. Reported(e)
      BY <2>4 DEF LoggedInv
    <3> QED
      BY <2>1, <2>2, <3>1 DEF Reported, AsAsked, Place
  <2> QED
    BY <2>3, <2>4 DEF LoggedInv
<1>4. TouchedInv'
  <2>1. timePc' \in {"item", "done"} /\ (timeCall.op # "bulk" => timePc' = "done" /\ timeAnswer' = kind)
        /\ (timeCall.op = "bulk" => timeAnswer' \in {"none", "report"})
    BY ResultSteps
  <2>2. CASE timeCall.op = "update"
    <3>1. kind \notin Unanswered => timePc \in {"item", "lookup", "put"}
      BY <2>2 DEF ProgressInv
    <3> QED
      BY <2>1, <2>2, <3>1 DEF TouchedInv, AsAsked
  <2>3. CASE timeCall.op # "update"
    BY <2>1, <2>3 DEF TouchedInv
  <2> QED
    BY <2>2, <2>3
<1> QED
  BY <1>1, <1>2, <1>3, <1>4

\* The hours of the entry that is being worked on have passed the check.
Passed ==
    /\ timeCall.op # "update" => ThisEntry # Junk /\ HoursAreValid(ThisEntry.hours)
    /\ timeCall.op = "update" => ThisEntry.hours = Unsaid \/ HoursAreValid(ThisEntry.hours)

\* A step that leaves Redmine and the results alone denies nothing.
LEMMA ReportKept ==
    ASSUME TimeInv, UNCHANGED <<timeCall, report, logged, bore>>
    PROVE  LoggedInv'
<1>1. ASSUME NEW e \in DOMAIN logged, e # 1 PROVE Reported(e)'
  <2>1. Reported(e)
    BY <1>1 DEF TimeInv, LoggedInv
  <2> QED
    BY <2>1 DEF Reported, AsAsked, Place
<1> QED
  BY <1>1 DEF TimeInv, LoggedInv, LoggedFor

\* The payload of an entry is complete.
LEMMA SendKeeps ==
    ASSUME TimeInv, timePc \in {"item", "lookup"}, Passed,
           NEW id \in ActivityIds \cup {Unsaid}, Suits(ThisEntry.activity, id), SendEntry(id),
           UNCHANGED <<timeCall, timeRedmine>>,
           activityList' \in ActivityTables \cup {NoList}, NamesInv'
    PROVE  TimeInv'
<1> USE DEF TimeInv
<1>1. /\ activityId' = id /\ item' = item /\ report' = report /\ timeAnswer' = timeAnswer
      /\ timePc' = (IF timeCall.op = "update" THEN "put" ELSE "post")
      /\ timeCall' = timeCall /\ activities' = activities /\ logged' = logged /\ bore' = bore
  BY DEF SendEntry, timeRedmine
<1>2. TimeTypes'
  BY <1>1 DEF TimeTypes
<1>3. ProgressInv'
  BY <1>1, CallShape DEF ProgressInv
<1>4. CheckedInv'
  BY <1>1 DEF CheckedInv, Passed, Suits, ThisEntry
<1>5. LoggedInv'
  BY <1>1, ReportKept
<1>6. TouchedInv'
  BY <1>1 DEF TouchedInv, AsAsked, ProgressInv
<1> QED
  BY <1>2, <1>3, <1>4, <1>5, <1>6

\* The name of an activity is found in a list, or is not.
LEMMA FindKeeps ==
    ASSUME TimeInv, timePc \in {"item", "lookup"}, Passed,
           NEW list \in ActivityTables, \A i \in ActivityIds : list[i] \in bore[i] \cup {Gone},
           ThisEntry.activity \in ActivityNames, FindActivity(ThisEntry.activity, list),
           UNCHANGED <<timeCall, timeRedmine>>,
           activityList' \in ActivityTables \cup {NoList}, NamesInv'
    PROVE  TimeInv'
<1>1. CASE \E i \in ActivityIds : list[i] = ThisEntry.activity /\ SendEntry(i)
  <2>1. PICK i \in ActivityIds : list[i] = ThisEntry.activity /\ SendEntry(i)
    BY <1>1
  <2>2. Suits(ThisEntry.activity, i)
    BY <2>1, TimeAssumption DEF Suits
  <2> QED
    BY <2>1, <2>2, SendKeeps
<1>2. CASE Result("activity_not_found") /\ UNCHANGED activityId
  BY <1>2, NothingLogged DEF timeRedmine, ResultKinds, Unanswered, TimeInv, TimeTypes
<1> QED
  BY <1>1, <1>2 DEF FindActivity

\* The activity of an entry is a number, or a name that is looked up.
LEMMA ResolveKeeps ==
    ASSUME TimeInv, timePc = "item", Passed, ThisEntry \in EntrySpec,
           ResolveActivity(ThisEntry.activity),
           UNCHANGED <<timeCall, activityList, timeRedmine>>
    PROVE  TimeInv'
<1>1. NamesInv' /\ activityList' \in ActivityTables \cup {NoList}
  BY DEF TimeInv, NamesInv, TimeTypes, timeRedmine
<1>2. CASE ThisEntry.activity \in ActivityIds \cup {Unsaid} /\ SendEntry(ThisEntry.activity)
  <2>1. Suits(ThisEntry.activity, ThisEntry.activity)
    BY <1>2, TimeAssumption DEF Suits
  <2> QED
    BY <1>1, <1>2, <2>1, SendKeeps
<1>3. CASE /\ ThisEntry.activity \in ActivityNames /\ activityList # NoList
           /\ FindActivity(ThisEntry.activity, activityList)
  BY <1>1, <1>3, FindKeeps DEF TimeInv, NamesInv, TimeTypes
<1>4. CASE /\ ThisEntry.activity \in ActivityNames /\ timePc' = "lookup"
           /\ UNCHANGED <<item, activityId, report, timeAnswer>>
  <2> USE <1>4 DEF TimeInv, timeRedmine
  <2>1. TimeTypes'
    BY DEF TimeTypes
  <2>2. ProgressInv' /\ CheckedInv'
    BY DEF ProgressInv, CheckedInv, Passed, ThisEntry
  <2>3. LoggedInv'
    BY ReportKept
  <2>4. TouchedInv'
    BY DEF TouchedInv, AsAsked, ProgressInv
  <2> QED
    BY <1>1, <2>1, <2>2, <2>3, <2>4
<1> QED
  BY <1>2, <1>3, <1>4 DEF ResolveActivity

\* The start.
LEMMA TimeInitInv == TimeInit => TimeInv
<1> SUFFICES ASSUME TimeInit PROVE TimeInv
  OBVIOUS
<1> USE TimeAssumption DEF TimeInit
<1>1. logged = <<Existing>> /\ Existing \in LoggedEntries
  BY DEF Existing, LoggedEntries
<1>2. activities \in ActivityTables
  OBVIOUS
<1>3. TimeTypes
  BY <1>1, <1>2 DEF TimeTypes, ActivityTables
<1>4. NamesInv /\ ProgressInv /\ CheckedInv
  BY <1>2 DEF NamesInv, ProgressInv, CheckedInv
<1>5. LoggedInv /\ TouchedInv
  BY <1>1 DEF LoggedInv, TouchedInv, Existing
<1> QED
  BY <1>3, <1>4, <1>5 DEF TimeInv

\* The batch is too large, empty or begun.
LEMMA BeginKeeps == ASSUME TimeInv, BeginTime PROVE TimeInv'
<1> USE DEF TimeInv
<1>1. /\ UNCHANGED <<timeCall, item, activityId, report, activityList, timeRedmine>>
      /\ timePc = "begin"
      /\ \/ timePc' = "done" /\ timeAnswer' = "batch_too_large"
         \/ timePc' = "done" /\ timeAnswer' = "report" /\ timeCall.specs = <<>>
         \/ timePc' = "item" /\ timeAnswer' = timeAnswer /\ timeCall.specs # <<>>
         \/ timePc' = "delete" /\ timeAnswer' = timeAnswer /\ timeCall.op = "delete"
      /\ timePc' = "done" => timeCall.op = "bulk"
  BY DEF BeginTime, Done
<1>2. TimeTypes' /\ NamesInv' /\ CheckedInv'
  BY <1>1 DEF TimeTypes, NamesInv, CheckedInv, timeRedmine
<1>3. ProgressInv'
  BY <1>1, CallShape DEF ProgressInv
<1>4. LoggedInv'
  BY <1>1, ReportKept DEF timeRedmine
<1>5. TouchedInv'
  BY <1>1 DEF TouchedInv, AsAsked, ProgressInv, timeRedmine
<1> QED
  BY <1>2, <1>3, <1>4, <1>5

\* What ends an entry without a request.
LEMMA FailsAtOnce ==
    ASSUME TimeInv, timePc \in {"item", "lookup", "post", "put", "refetch", "delete"},
           NEW kind \in ResultKinds \ {"created", "updated", "deleted"},
           timePc = "refetch" => kind = "api_error", Result(kind),
           UNCHANGED <<timeCall, activityId, activityList, timeRedmine>>
    PROVE  TimeInv'
<1>1. NamesInv' /\ activityList' \in ActivityTables \cup {NoList}
      /\ activityId' \in ActivityIds \cup {Unsaid}
  BY DEF TimeInv, NamesInv, TimeTypes, timeRedmine
<1> QED
  BY <1>1, NothingLogged DEF timeRedmine, Unanswered

\* An entry fails a check, or its activity is resolved.
LEMMA CreateKeeps == ASSUME TimeInv, CreateTimeEntry PROVE TimeInv'
<1>1. timePc = "item" /\ timeCall.op # "update"
      /\ UNCHANGED <<timeCall, activityList, timeRedmine>>
  BY DEF CreateTimeEntry
<1>2. CASE /\ ThisEntry # Junk /\ HoursAreValid(ThisEntry.hours)
           /\ ResolveActivity(ThisEntry.activity)
  <2>1. ThisEntry \in EntrySpec
    <3>1. item \in DOMAIN timeCall.specs
      BY <1>1 DEF TimeInv, ProgressInv
    <3>2. timeCall.specs \in Seq(EntrySpec \cup {Junk})
      BY CallShape DEF TimeInv
    <3> QED
      BY <1>2, <3>1, <3>2 DEF ThisEntry
  <2>2. Passed
    BY <1>1, <1>2 DEF Passed
  <2> QED
    BY <1>1, <1>2, <2>1, <2>2, ResolveKeeps DEF timeRedmine
<1>3. CASE \E kind \in {"entry_not_object", "required_field_missing", "hours_invalid"} :
              Result(kind) /\ UNCHANGED activityId
  BY <1>1, <1>3, FailsAtOnce DEF ResultKinds
<1> QED
  BY <1>2, <1>3 DEF CreateTimeEntry

\* An update fails a check, or its activity is resolved.
LEMMA UpdateKeeps == ASSUME TimeInv, UpdateTimeEntry PROVE TimeInv'
<1>1. timePc = "item" /\ timeCall.op = "update"
      /\ UNCHANGED <<timeCall, activityList, timeRedmine>>
  BY DEF UpdateTimeEntry
<1>2. CASE /\ ThisEntry.hours = Unsaid \/ HoursAreValid(ThisEntry.hours)
           /\ ResolveActivity(ThisEntry.activity)
  <2>1. ThisEntry \in EntrySpec
    <3>1. item = 1 /\ item \in DOMAIN timeCall.specs
      BY <1>1 DEF TimeInv, ProgressInv
    <3>2. timeCall.specs \in Seq(EntrySpec \cup {Junk}) /\ timeCall.specs[1] # Junk
      BY <1>1, CallShape DEF TimeInv
    <3> QED
      BY <3>1, <3>2 DEF ThisEntry
  <2>2. Passed
    BY <1>1, <1>2 DEF Passed
  <2> QED
    BY <1>1, <1>2, <2>1, <2>2, ResolveKeeps DEF timeRedmine
<1>3. CASE \E kind \in {"hours_invalid", "nothing_to_update"} :
              Result(kind) /\ UNCHANGED activityId
  BY <1>1, <1>3, FailsAtOnce DEF ResultKinds
<1> QED
  BY <1>2, <1>3 DEF UpdateTimeEntry

\* A fetched list is the one Redmine has, or counts as empty.
LEMMA LookUpKeeps == ASSUME TimeInv, LookUp PROVE TimeInv'
<1>1. timePc = "lookup" /\ UNCHANGED <<timeCall, timeRedmine>>
  BY DEF LookUp
<1>2. CASE RaiseOut /\ UNCHANGED <<activityId, activityList>>
  <2>1. /\ timePc' = "done" /\ timeAnswer' = "api_error" /\ item' = item /\ report' = report
        /\ activityId' = activityId /\ activityList' = activityList
    BY <1>2 DEF RaiseOut, Done
  <2> USE <1>1, <2>1 DEF TimeInv, timeRedmine
  <2>2. TimeTypes' /\ NamesInv' /\ CheckedInv'
    BY DEF TimeTypes, NamesInv, CheckedInv, ResultKinds
  <2>3. ProgressInv'
    BY DEF ProgressInv
  <2>4. LoggedInv'
    BY ReportKept
  <2>5. TouchedInv'
    BY DEF TouchedInv, AsAsked, Unanswered
  <2> QED
    BY <2>2, <2>3, <2>4, <2>5
<1>3. CASE \E list \in {activities, Nothing} :
              activityList' = list /\ FindActivity(ThisEntry.activity, list)
  <2>1. PICK list \in {activities, Nothing} :
            activityList' = list /\ FindActivity(ThisEntry.activity, list)
    BY <1>3
  <2>2. Nothing \in ActivityTables /\ \A i \in ActivityIds : Nothing[i] = Gone
    BY DEF Nothing, ActivityTables
  <2>3. list \in ActivityTables /\ \A i \in ActivityIds : list[i] \in bore[i] \cup {Gone}
    BY <2>1, <2>2 DEF TimeInv, TimeTypes, NamesInv
  <2>4. NamesInv'
    BY <1>1, <2>1, <2>3 DEF TimeInv, NamesInv, timeRedmine
  <2>5. Passed /\ ThisEntry.activity \in ActivityNames
    BY <1>1 DEF TimeInv, CheckedInv, Passed
  <2> QED
    BY <1>1, <2>1, <2>3, <2>4, <2>5, FindKeeps
<1> QED
  BY <1>1, <1>2, <1>3 DEF LookUp

\* A new time entry is the only one of its place in the batch, and as it was asked for.
LEMMA PostKeeps == ASSUME TimeInv, PostTimeEntry PROVE TimeInv'
<1>1. timePc = "post"
      /\ UNCHANGED <<timeCall, activityId, activityList, activities, bore>>
  BY DEF PostTimeEntry
<1>2. CASE Result("api_error") /\ UNCHANGED logged
  BY <1>1, <1>2, FailsAtOnce DEF ResultKinds, timeRedmine
<1>3. ASSUME NEW kind \in {"api_error", "created"}, Result(kind),
             logged' = Append(logged, [item |-> item, on |-> Place(ThisEntry), activity |-> activityId,
                                       minutes |-> Minutes(ThisEntry.hours), live |-> TRUE])
      PROVE  TimeInv'
  <2> DEFINE entry == [item |-> item, on |-> Place(ThisEntry), activity |-> activityId,
                       minutes |-> Minutes(ThisEntry.hours), live |-> TRUE]
  <2>1. /\ timeCall.op \in {"create", "bulk"} /\ item \in DOMAIN timeCall.specs
        /\ Len(report) = item - 1 /\ Len(report) + 1 = item /\ item \in Nat \ {0}
        /\ ThisEntry # Junk /\ HoursAreValid(ThisEntry.hours)
        /\ Suits(ThisEntry.activity, activityId)
    BY <1>1 DEF TimeInv, TimeTypes, ProgressInv, CheckedInv
  <2>2. ThisEntry \in EntrySpec /\ ThisEntry = timeCall.specs[item]
    <3>1. timeCall.specs \in Seq(EntrySpec \cup {Junk})
      BY CallShape DEF TimeInv
    <3> QED
      BY <2>1, <3>1 DEF ThisEntry
  <2>3. /\ report' \in Seq(ResultKinds) /\ timePc' \in {"item", "done"} /\ ProgressInv'
        /\ item' \in Nat \ {0} /\ timeAnswer' \in ResultKinds \cup {"none", "report"}
        /\ DOMAIN report' = DOMAIN report \cup {item} /\ report'[item] = kind
        /\ \A i \in DOMAIN report : report'[i] = report[i]
        /\ timeCall.op # "bulk" => timePc' = "done" /\ timeAnswer' = kind
        /\ timeCall.op = "bulk" => timeAnswer' \in {"none", "report"}
    <3>1. kind \in ResultKinds
      BY DEF ResultKinds
    <3> QED
      BY <1>1, <1>3, <2>1, <3>1, ResultSteps DEF TimeInv
  <2>4. entry \in LoggedEntries
    <3>1. Minutes(ThisEntry.hours) \in Int
      BY <2>1, <2>2, ValidHours
    <3>2. Place(ThisEntry) \in {"issue", "project", "default", "nowhere"}
      BY <2>2 DEF Place, EntrySpec, Target
    <3>3. item \in Nat /\ activityId \in ActivityIds \cup {Unsaid}
      BY DEF TimeInv, TimeTypes
    <3> QED
      BY <3>1, <3>2, <3>3 DEF LoggedEntries
  <2>5. /\ logged \in Seq(LoggedEntries) /\ logged # <<>>
        /\ logged' \in Seq(LoggedEntries) /\ logged' # <<>>
        /\ DOMAIN logged' = DOMAIN logged \cup {Len(logged) + 1}
        /\ Len(logged) + 1 \notin DOMAIN logged /\ 1 \in DOMAIN logged
        /\ logged'[Len(logged) + 1] = entry
        /\ \A e \in DOMAIN logged : logged'[e] = logged[e]
    <3>1. logged' = Append(logged, entry) /\ logged \in Seq(LoggedEntries) /\ logged # <<>>
      BY <1>3 DEF TimeInv, TimeTypes
    <3> QED
      BY <2>4, <3>1
  <2>6. TimeTypes' /\ NamesInv' /\ CheckedInv'
    BY <1>1, <2>3, <2>5 DEF TimeInv, TimeTypes, NamesInv, CheckedInv
  <2>7. item \notin DOMAIN report /\ 0 \notin DOMAIN report
    BY <2>1 DEF TimeInv, TimeTypes
  <2>8. ASSUME NEW e \in DOMAIN logged, e # 1 PROVE Reported(e)'
    <3>1. Reported(e)
      BY <2>8 DEF TimeInv, LoggedInv
    <3> QED
      BY <1>1, <2>3, <2>5, <2>7, <3>1 DEF Reported, AsAsked, Place
  <2>9. ASSUME NEW e, e = Len(logged) + 1 PROVE Reported(e)'
    <3>1. AsAsked(ThisEntry, entry)
      BY <2>1, <2>2, SuitsAsAsked
    <3>2. entry.item = item /\ entry.on = Place(timeCall.specs[item])
      BY <2>2
    <3> HIDE DEF entry
    <3> QED
      BY <1>1, <2>1, <2>2, <2>3, <2>5, <2>9, <3>1, <3>2 DEF Reported, AsAsked, Place
  <2>10. ASSUME NEW e \in DOMAIN logged PROVE logged[e].item # item
    <3>1. CASE e = 1
      BY <2>1, <3>1 DEF TimeInv, LoggedInv
    <3>2. CASE e # 1
      <4>1. Reported(e)
        BY <3>2 DEF TimeInv, LoggedInv
      <4> QED
        BY <2>7, <4>1 DEF Reported
    <3> QED
      BY <3>1, <3>2
  <2>11. LoggedInv'
    <3>1. logged'[1].item = 0
      BY <2>5 DEF TimeInv, LoggedInv
    <3>2. \A e \in DOMAIN logged' : e # 1 => Reported(e)'
      BY <2>5, <2>8, <2>9
    <3>3. entry.item = item
      OBVIOUS
    <3>4. \A e, f \in DOMAIN logged' : e # f => logged'[e].item # logged'[f].item
      <4> HIDE DEF entry
      <4> QED
        BY <2>5, <2>10, <3>3 DEF TimeInv, LoggedInv
    <3>5. \A i \in DOMAIN report' : report'[i] = "created" => LoggedFor(i)' # {}
      <4> HIDE DEF entry
      <4>1. ASSUME NEW i, i = item PROVE LoggedFor(i)' # {}
        BY <2>5, <3>3, <4>1 DEF LoggedFor
      <4>2. ASSUME NEW i, LoggedFor(i) # {} PROVE LoggedFor(i)' # {}
        BY <2>5, <4>2 DEF LoggedFor
      <4> QED
        BY <2>3, <4>1, <4>2 DEF TimeInv, LoggedInv
    <3> QED
      BY <3>1, <3>2, <3>4, <3>5 DEF LoggedInv
  <2>12. TouchedInv'
    BY <1>1, <2>1, <2>3, <2>5 DEF TouchedInv
  <2> QED
    BY <2>3, <2>6, <2>11, <2>12 DEF TimeInv
<1> QED
  BY <1>1, <1>2, <1>3 DEF PostTimeEntry


\* A PUT that was committed leaves the entry as it was asked for.
LEMMA PutKeeps == ASSUME TimeInv, PutTimeEntry PROVE TimeInv'
<1>1. timePc = "put"
      /\ UNCHANGED <<timeCall, activityId, activityList, activities, bore>>
  BY DEF PutTimeEntry
<1>2. CASE Result("api_error") /\ UNCHANGED logged
  BY <1>1, <1>2, FailsAtOnce DEF ResultKinds, timeRedmine
<1>3. CASE /\ logged' = [logged EXCEPT
                  ![1].minutes = IF ThisEntry.hours = Unsaid THEN @ ELSE Minutes(ThisEntry.hours),
                  ![1].activity = IF activityId = Unsaid THEN @ ELSE activityId]
           /\ \/ Result("api_error")
              \/ timePc' = "refetch" /\ UNCHANGED <<item, report, timeAnswer>>
  <2>1. /\ timeCall.op = "update" /\ item = 1 /\ report = <<>> /\ timeAnswer = "none"
        /\ ThisEntry = timeCall.specs[1] /\ ThisEntry \in EntrySpec
        /\ ThisEntry.hours = Unsaid \/ HoursAreValid(ThisEntry.hours)
        /\ Suits(ThisEntry.activity, activityId)
        /\ 1 \in DOMAIN timeCall.specs
    <3>1. /\ timeCall.op = "update" /\ item = 1 /\ Len(report) = 0 /\ timeAnswer = "none"
          /\ item \in DOMAIN timeCall.specs
      BY <1>1 DEF TimeInv, ProgressInv
    <3>2. timeCall.specs \in Seq(EntrySpec \cup {Junk}) /\ timeCall.specs[1] # Junk
      BY <3>1, CallShape DEF TimeInv
    <3>3. report = <<>>
      BY <3>1 DEF TimeInv, TimeTypes
    <3>4. /\ ThisEntry.hours = Unsaid \/ HoursAreValid(ThisEntry.hours)
          /\ Suits(ThisEntry.activity, activityId)
      BY <1>1, <3>1 DEF TimeInv, CheckedInv
    <3> QED
      BY <3>1, <3>2, <3>3, <3>4 DEF ThisEntry
  <2>2. /\ logged \in Seq(LoggedEntries) /\ 1 \in DOMAIN logged /\ logged[1] \in LoggedEntries
        /\ DOMAIN logged' = DOMAIN logged /\ Len(logged') = Len(logged)
        /\ \A e \in DOMAIN logged : e # 1 => logged'[e] = logged[e]
        /\ logged'[1] = [logged[1] EXCEPT
              !.minutes = IF ThisEntry.hours = Unsaid THEN @ ELSE Minutes(ThisEntry.hours),
              !.activity = IF activityId = Unsaid THEN @ ELSE activityId]
    <3>1. logged \in Seq(LoggedEntries) /\ 1 \in DOMAIN logged /\ logged[1] \in LoggedEntries
      BY DEF TimeInv, TimeTypes
    <3>2. logged[1] = [item |-> logged[1].item, on |-> logged[1].on, minutes |-> logged[1].minutes,
                       activity |-> logged[1].activity, live |-> logged[1].live]
      BY <3>1 DEF LoggedEntries
    <3> QED
      BY <1>3, <3>1, <3>2
  <2>3. /\ logged'[1] \in LoggedEntries /\ logged'[1].item = 0
        /\ ThisEntry.hours # Unsaid => logged'[1].minutes = Minutes(ThisEntry.hours)
        /\ activityId # Unsaid => logged'[1].activity = activityId
    <3>1. ThisEntry.hours # Unsaid => Minutes(ThisEntry.hours) \in Int
      BY <2>1, ValidHours
    <3>2. activityId \in ActivityIds \cup {Unsaid} /\ logged[1].item = 0
      BY DEF TimeInv, TimeTypes, LoggedInv
    <3> QED
      BY <2>2, <3>1, <3>2 DEF LoggedEntries
  <2>4. logged' \in Seq(LoggedEntries) /\ logged' # <<>>
    BY <1>3, <2>2, <2>3
  <2>5. AsAsked(timeCall.specs[1], logged[1])'
    <3>1. ThisEntry.activity \in ActivityIds \cup ActivityNames => activityId # Unsaid
      BY <2>1, TimeAssumption DEF Suits
    <3> QED
      BY <1>1, <2>1, <2>3, <3>1, ValidHours DEF AsAsked, Suits
  <2>6. DOMAIN logged = {1}
    <3>1. ASSUME NEW e \in DOMAIN logged, e # 1 PROVE FALSE
      <4>1. Reported(e)
        BY <3>1 DEF TimeInv, LoggedInv
      <4> QED
        BY <2>1, <4>1 DEF Reported
    <3> QED
      BY <2>2, <3>1
  <2>7. CASE timePc' = "refetch" /\ UNCHANGED <<item, report, timeAnswer>>
    <3>1. TimeTypes' /\ NamesInv' /\ ProgressInv' /\ CheckedInv'
      BY <1>1, <2>1, <2>4, <2>7
      DEF TimeInv, TimeTypes, NamesInv, ProgressInv, CheckedInv
    <3>2. LoggedInv'
      BY <2>1, <2>2, <2>3, <2>6, <2>7 DEF LoggedInv
    <3>3. TouchedInv'
      BY <1>1, <2>1, <2>5, <2>7 DEF TouchedInv
    <3> QED
      BY <3>1, <3>2, <3>3 DEF TimeInv
  <2>8. CASE Result("api_error")
    <3>1. /\ report' \in Seq(ResultKinds) /\ item' \in Nat \ {0} /\ ProgressInv'
          /\ timePc' = "done" /\ timeAnswer' = "api_error"
          /\ DOMAIN report' = DOMAIN report \cup {1} /\ report'[1] = "api_error"
      BY <1>1, <2>1, <2>8, ResultSteps DEF TimeInv, ResultKinds
    <3>2. TimeTypes' /\ NamesInv' /\ CheckedInv'
      BY <1>1, <2>4, <3>1 DEF TimeInv, TimeTypes, NamesInv, CheckedInv, ResultKinds
    <3>3. LoggedInv'
      BY <2>1, <2>2, <2>3, <2>6, <3>1 DEF LoggedInv
    <3>4. TouchedInv'
      BY <1>1, <2>1, <3>1 DEF TouchedInv, Unanswered
    <3> QED
      BY <3>1, <3>2, <3>3, <3>4 DEF TimeInv
  <2> QED
    BY <1>3, <2>7, <2>8
<1> QED
  BY <1>1, <1>2, <1>3 DEF PutTimeEntry

\* The entry that is fetched again is as asked.
LEMMA RefetchKeeps == ASSUME TimeInv, RefetchTimeEntry PROVE TimeInv'
<1>1. timePc = "refetch"
      /\ UNCHANGED <<timeCall, activityId, activityList, timeRedmine>>
  BY DEF RefetchTimeEntry
<1>2. NamesInv' /\ activityList' \in ActivityTables \cup {NoList}
      /\ activityId' \in ActivityIds \cup {Unsaid}
  BY <1>1 DEF TimeInv, NamesInv, TimeTypes, timeRedmine
<1>3. ASSUME NEW kind \in {"api_error", "updated"}, Result(kind) PROVE TimeInv'
  BY <1>1, <1>2, <1>3, NothingLogged DEF timeRedmine, ResultKinds, Unanswered
<1> QED
  BY <1>3 DEF RefetchTimeEntry

\* Taking a time entry away changes neither what it was nor what was said of it.
LEMMA RemovalKeeps ==
    ASSUME TimeInv, NEW k \in DOMAIN logged, logged' = [logged EXCEPT ![k].live = FALSE],
           UNCHANGED <<timeCall, bore>>
    PROVE  /\ logged' \in Seq(LoggedEntries) /\ logged' # <<>> /\ DOMAIN logged' = DOMAIN logged
           /\ \A e \in DOMAIN logged :
                /\ logged'[e].item = logged[e].item /\ logged'[e].on = logged[e].on
                /\ logged'[e].minutes = logged[e].minutes
                /\ logged'[e].activity = logged[e].activity
                /\ logged'[e].live => logged[e].live
           /\ ~logged'[k].live
           /\ report' = report => LoggedInv'
<1>1. /\ logged \in Seq(LoggedEntries) /\ logged # <<>>
      /\ \A e \in DOMAIN logged : logged[e] \in LoggedEntries
  BY DEF TimeInv, TimeTypes
<1>2. /\ DOMAIN logged' = DOMAIN logged
      /\ \A e \in DOMAIN logged :
            logged'[e] = IF e = k THEN [logged[e] EXCEPT !.live = FALSE] ELSE logged[e]
  BY <1>1
<1>3. \A e \in DOMAIN logged :
        /\ logged'[e] \in LoggedEntries
        /\ logged'[e].item = logged[e].item /\ logged'[e].on = logged[e].on
        /\ logged'[e].minutes = logged[e].minutes
        /\ logged'[e].activity = logged[e].activity
        /\ logged'[e].live => logged[e].live
  BY <1>1, <1>2 DEF LoggedEntries
<1>4. logged' \in Seq(LoggedEntries) /\ logged' # <<>>
  BY <1>1, <1>2, <1>3
<1>5. ~logged'[k].live
  BY <1>1, <1>2 DEF LoggedEntries
<1>6. ASSUME report' = report PROVE LoggedInv'
  <2>1. ASSUME NEW e \in DOMAIN logged, e # 1 PROVE Reported(e)'
    <3>1. Reported(e)
      BY <2>1 DEF TimeInv, LoggedInv
    <3> QED
      BY <1>3, <1>6, <3>1 DEF Reported, AsAsked, Place
  <2>2. 1 \in DOMAIN logged
    BY <1>1
  <2>3. ASSUME NEW i, LoggedFor(i) # {} PROVE LoggedFor(i)' # {}
    BY <1>2, <1>3, <2>3 DEF LoggedFor
  <2> QED
    BY <1>2, <1>3, <1>6, <2>1, <2>2, <2>3 DEF TimeInv, LoggedInv
<1> QED
  BY <1>2, <1>3, <1>4, <1>5, <1>6


\* An entry that is reported as deleted is gone.
LEMMA DeleteKeeps == ASSUME TimeInv, DeleteTimeEntry PROVE TimeInv'
<1>1. timePc = "delete"
      /\ UNCHANGED <<timeCall, activityId, activityList, activities, bore>>
  BY DEF DeleteTimeEntry
<1>2. CASE Result("api_error") /\ UNCHANGED logged
  BY <1>1, <1>2, FailsAtOnce DEF ResultKinds, timeRedmine
<1>3. ASSUME NEW kind \in {"api_error", "deleted"}, Result(kind),
             logged' = [logged EXCEPT ![1].live = FALSE]
      PROVE  TimeInv'
  <2>1. timeCall.op = "delete" /\ report = <<>> /\ kind \in ResultKinds
    BY <1>1 DEF TimeInv, ProgressInv, ResultKinds
  <2>2. /\ logged' \in Seq(LoggedEntries) /\ logged' # <<>> /\ DOMAIN logged' = DOMAIN logged
        /\ logged'[1].item = logged[1].item /\ ~logged'[1].live /\ 1 \in DOMAIN logged
    <3>1. 1 \in DOMAIN logged
      BY DEF TimeInv, TimeTypes
    <3> QED
      BY <1>1, <1>3, <3>1, RemovalKeeps
  <2>3. /\ report' \in Seq(ResultKinds) /\ item' \in Nat \ {0} /\ ProgressInv'
        /\ timePc' = "done" /\ timeAnswer' = kind
        /\ DOMAIN report' = DOMAIN report \cup {1} /\ report'[1] = kind
    BY <1>1, <1>3, <2>1, ResultSteps DEF TimeInv
  <2>4. TimeTypes' /\ NamesInv' /\ CheckedInv'
    BY <1>1, <2>1, <2>2, <2>3 DEF TimeInv, TimeTypes, NamesInv, CheckedInv
  <2>5. \A e \in DOMAIN logged : e = 1
    BY <2>1 DEF TimeInv, LoggedInv, Reported
  <2>6. LoggedInv'
    BY <2>1, <2>2, <2>3, <2>5 DEF TimeInv, LoggedInv
  <2>7. TouchedInv'
    BY <1>1, <2>1, <2>2, <2>3 DEF TouchedInv
  <2> QED
    BY <2>3, <2>4, <2>6, <2>7 DEF TimeInv
<1> QED
  BY <1>1, <1>2, <1>3 DEF DeleteTimeEntry

\* Whatever happens to the activities, the names that were borne stay borne.
LEMMA ActivitiesKeep == ASSUME TimeInv, ActivitiesChange PROVE TimeInv'
<1>1. /\ UNCHANGED <<timeCall, timePc, item, activityId, report, timeAnswer, activityList, logged>>
      /\ activities' \in ActivityTables
      /\ bore' = [i \in ActivityIds |-> bore[i] \cup {activities'[i]}]
  BY DEF ActivitiesChange, Meanwhile
<1>2. \A i \in ActivityIds :
        bore[i] \subseteq bore'[i] /\ activities'[i] \in bore'[i]
        /\ activities'[i] \in ActivityNames \cup {Gone}
  BY <1>1 DEF ActivityTables
<1>3. TimeTypes' /\ NamesInv' /\ ProgressInv'
  BY <1>1, <1>2 DEF TimeInv, TimeTypes, NamesInv, ProgressInv
<1>4. CheckedInv'
  BY <1>1, <1>2 DEF TimeInv, CheckedInv, Suits, ThisEntry
<1>5. ASSUME NEW s, NEW e, AsAsked(s, e)
      PROVE  /\ s.hours # Unsaid =>
                  \/ s.hours.neg /\ s.hours.h = 0
                  \/ e.minutes = 60 * s.hours.h + s.hours.m /\ (s.hours.neg => e.minutes = 0)
             /\ s.activity \in ActivityIds => e.activity = s.activity
             /\ s.activity \in ActivityNames =>
                    e.activity \in ActivityIds /\ s.activity \in bore'[e.activity]
  BY <1>2, <1>5 DEF AsAsked
<1>6. ASSUME NEW e \in DOMAIN logged, e # 1 PROVE Reported(e)'
  <2>1. Reported(e)
    BY <1>6 DEF TimeInv, LoggedInv
  <2> QED
    BY <1>1, <1>5, <2>1 DEF Reported, AsAsked, Place
<1>7. LoggedInv'
  BY <1>1, <1>6 DEF TimeInv, LoggedInv, LoggedFor
<1>8. TouchedInv'
  BY <1>1, <1>5 DEF TimeInv, TouchedInv, AsAsked
<1> QED
  BY <1>3, <1>4, <1>7, <1>8 DEF TimeInv

\* A list that is fetched or dropped has only names that were borne.
LEMMA ListKeeps == ASSUME TimeInv, ListChanges PROVE TimeInv'
<1>1. /\ UNCHANGED <<timeCall, timePc, item, activityId, report, timeAnswer, timeRedmine>>
      /\ activityList' \in {NoList, activities}
  BY DEF ListChanges, Meanwhile
<1>2. TimeTypes' /\ NamesInv' /\ ProgressInv' /\ CheckedInv'
  BY <1>1 DEF TimeInv, TimeTypes, NamesInv, ProgressInv, CheckedInv, timeRedmine, Suits, ThisEntry
<1>3. LoggedInv' /\ TouchedInv'
  BY <1>1, ReportKept DEF TimeInv, TouchedInv, AsAsked, timeRedmine
<1> QED
  BY <1>2, <1>3 DEF TimeInv

\* A time entry that another user deletes stays as it was otherwise.
LEMMA OtherKeeps == ASSUME TimeInv, OtherDeletesEntry PROVE TimeInv'
<1>1. PICK k \in DOMAIN logged : logged' = [logged EXCEPT ![k].live = FALSE]
  BY DEF OtherDeletesEntry
<1>2. UNCHANGED <<timeCall, timePc, item, activityId, report, timeAnswer, activityList, activities, bore>>
  BY DEF OtherDeletesEntry, Meanwhile
<1>3. /\ logged' \in Seq(LoggedEntries) /\ logged' # <<>> /\ 1 \in DOMAIN logged
      /\ logged'[1].minutes = logged[1].minutes /\ logged'[1].activity = logged[1].activity
      /\ logged'[1].live => logged[1].live
      /\ LoggedInv'
  <2>1. 1 \in DOMAIN logged
    BY DEF TimeInv, TimeTypes
  <2> QED
    BY <1>1, <1>2, <2>1, RemovalKeeps
<1>4. TimeTypes' /\ NamesInv' /\ ProgressInv' /\ CheckedInv'
  BY <1>2, <1>3 DEF TimeInv, TimeTypes, NamesInv, ProgressInv, CheckedInv, Suits, ThisEntry
<1>5. TouchedInv'
  BY <1>2, <1>3 DEF TimeInv, TouchedInv, AsAsked
<1> QED
  BY <1>3, <1>4, <1>5 DEF TimeInv

\* The invariant holds in every state of every behaviour.
THEOREM TimeInvariant == TimeSpec => []TimeInv
<1>1. ASSUME TimeInv, UNCHANGED timeVars PROVE TimeInv'
  <2>1. UNCHANGED <<timeCall, timePc, item, activityId, report, timeAnswer, activityList,
                    activities, logged, bore>>
    BY <1>1 DEF timeVars, timeRedmine
  <2>2. TimeTypes' /\ NamesInv' /\ ProgressInv' /\ CheckedInv'
    BY <1>1, <2>1 DEF TimeInv, TimeTypes, NamesInv, ProgressInv, CheckedInv, Suits, ThisEntry
  <2>3. LoggedInv' /\ TouchedInv'
    BY <1>1, <2>1, ReportKept DEF TimeInv, TouchedInv, AsAsked
  <2> QED
    BY <2>2, <2>3 DEF TimeInv
<1>2. TimeInv /\ [TimeNext]_timeVars => TimeInv'
  BY <1>1, BeginKeeps, CreateKeeps, UpdateKeeps, LookUpKeeps, PostKeeps, PutKeeps,
     RefetchKeeps, DeleteKeeps, ActivitiesKeep, ListKeeps, OtherKeeps
  DEF TimeNext
<1> QED
  BY <1>2, TimeInitInv, PTL DEF TimeSpec

\* What is reported of time entries is what Redmine has, whatever calls, activities
\* and other users there are.
THEOREM TimeIsBooked == TimeSpec => []TimeIsBookedAsReported
<1>1. TimeInv => TimeIsBookedAsReported
  <2> SUFFICES ASSUME TimeInv, timePc = "done" PROVE TimeIsBookedAsReported
    BY DEF TimeIsBookedAsReported
  <2>1. ASSUME NEW i \in DOMAIN timeCall.specs
        PROVE  /\ i # 0
               /\ Cardinality(LoggedFor(i)) <= 1
               /\ \A e \in LoggedFor(i) : Reported(e) /\ logged[e].item = i
               /\ i \in DOMAIN report /\ report[i] = "created" => LoggedFor(i) # {}
    <3>1. i # 0 /\ logged[1].item = 0
      <4>1. timeCall.specs \in Seq(EntrySpec \cup {Junk})
        BY CallShape DEF TimeInv
      <4> QED
        BY <4>1 DEF TimeInv, LoggedInv
    <3>2. \A e \in LoggedFor(i) : Reported(e) /\ logged[e].item = i
      BY <3>1 DEF TimeInv, LoggedInv, LoggedFor
    <3>3. Cardinality(LoggedFor(i)) <= 1
      <4>1. CASE LoggedFor(i) = {}
        BY <4>1, FS_EmptySet
      <4>2. CASE LoggedFor(i) # {}
        <5>1. PICK e : e \in LoggedFor(i)
          BY <4>2
        <5>2. LoggedFor(i) = {e}
          BY <5>1 DEF TimeInv, LoggedInv, LoggedFor
        <5>3. Cardinality({e}) = 1
          BY FS_Singleton
        <5> QED
          BY <5>2, <5>3
      <4> QED
        BY <4>1, <4>2
    <3> QED
      BY <3>1, <3>2, <3>3 DEF TimeInv, LoggedInv
  <2>2. ASSUME NEW i \in DOMAIN timeCall.specs, timeCall.op \in {"create", "bulk"},
               i \notin DOMAIN report, timeAnswer = "report"
        PROVE  timeCall.stop /\ report[Len(report)] # "created"
    <3>1. timeCall.specs \in Seq(EntrySpec \cup {Junk}) /\ report \in Seq(ResultKinds)
      BY CallShape DEF TimeInv, TimeTypes
    <3>2. Len(report) < Len(timeCall.specs)
      BY <2>2, <3>1
    <3> QED
      BY <2>2, <3>2 DEF TimeInv, ProgressInv
  <2>3. ASSUME NEW i \in DOMAIN timeCall.specs, timeCall.op \in {"create", "bulk"}
        PROVE  LET s == timeCall.specs[i] IN
               /\ Cardinality(LoggedFor(i)) <= 1
               /\ \A e \in LoggedFor(i) : AsAsked(s, logged[e]) /\ logged[e].on = Place(s)
               /\ i \in DOMAIN report =>
                   /\ report[i] = "created" => LoggedFor(i) # {}
                   /\ report[i] \notin Unanswered => LoggedFor(i) = {}
               /\ i \notin DOMAIN report =>
                   /\ LoggedFor(i) = {}
                   /\ timeAnswer = "report" => timeCall.stop /\ report[Len(report)] # "created"
    BY <2>1, <2>2, <2>3 DEF Reported, Unanswered
  <2>4. timeCall.op = "update" =>
            /\ timeAnswer = "updated" => AsAsked(timeCall.specs[1], logged[1])
            /\ timeAnswer \notin Unanswered =>
                logged[1].minutes = Existing.minutes /\ logged[1].activity = Existing.activity
    BY DEF TimeInv, TouchedInv
  <2>5. timeAnswer = "deleted" => ~logged[1].live
    BY DEF TimeInv, TouchedInv
  <2> QED
    BY <2>3, <2>4, <2>5 DEF TimeIsBookedAsReported
<1> QED
  BY <1>1, TimeInvariant, PTL

-----------------------------------------------------------------------------
(***************************************************************************)
(* The custom fields of an issue, for lists of any length.  FieldsInv is   *)
(* inductive: up to the correction the last entry for a field is the one   *)
(* that has precedence among the sources looked at so far (a field not yet *)
(* resolved is not in found); merging a field moves none of the others,    *)
(* whose entries keep their order; after the correction each entry is the  *)
(* merged one or its only variant; and at "send" a closing call whose gate *)
(* ran has passed it on the entries it sends.                              *)
(***************************************************************************)
\* The last entry for field f gives it value v; there is no entry for it.
GivesLast(s, f, v) ==
    \E i \in DOMAIN s :
        s[i].field = f /\ s[i].value = v /\ \A j \in DOMAIN s : s[j].field = f => j <= i
GivesNone(s, f) == \A i \in DOMAIN s : s[i].field # f

Told(f) == Parameter(f) # NotGiven /\ f \in found

\* What precedence says the list has to give field f.
Precedence(s, f) ==
    IF f = Diff /\ Told(f) THEN GivesLast(s, f, Parameter(f))
    ELSE IF Explicit(f) # {} THEN GivesLast(s, f, LastExplicit(f))
    ELSE IF Told(f) THEN GivesLast(s, f, Parameter(f))
    ELSE IF f = Diff /\ asked.op = "create" /\ f \in found THEN GivesLast(s, f, Unclassified)
    ELSE GivesNone(s, f)

Merging == {"check", "difficulty", "held", "until", "correct"}
\* The steps up to the one that resolves field f.
Unresolved(f) ==
    {"check", "difficulty"} \cup (IF f # Diff THEN {"held"} ELSE {})
                            \cup (IF f = Until THEN {"until"} ELSE {})

Known(f) == \A i \in DOMAIN entries : entries[i].field = f => Matches(entries[i], f)

Corrected(e, m) == e.field = m.field /\ Meant(e.value, m.value)

FieldTypes ==
    /\ fieldStep \in Merging \cup {"gate", "send", "done"}
    /\ asked \in FieldCalls /\ had \in Had /\ found \subseteq IssueField /\ defined \in BOOLEAN
    /\ fieldStep \in Merging => entries \in Seq(FieldEntry) /\ merged = <<>>
    /\ fieldStep \in {"difficulty", "held"} => asked.held # "flag"
    /\ fieldStep # "done" => verdict = "none" /\ has = had

PrecedenceInv ==
    \A f \in IssueField :
        /\ fieldStep \in Unresolved(f) => f \notin found
        /\ fieldStep \in Merging /\ Recognised(f) => Known(f) /\ Precedence(entries, f)
        /\ fieldStep \in {"gate", "send"} /\ Recognised(f) => Precedence(merged, f)

CorrectionInv ==
    fieldStep \in {"gate", "send"} =>
        /\ DOMAIN entries = DOMAIN merged /\ DOMAIN merged \subseteq Nat
        /\ \A i \in DOMAIN merged : Corrected(entries[i], merged[i])

GateInv == fieldStep = "send" /\ asked.op = "close" /\ gated => HeldAfter = Empty

FieldsInv ==
    /\ FieldTypes /\ PrecedenceInv /\ CorrectionInv /\ GateInv
    /\ PrecedenceIsKept /\ GateJudgesThePut /\ CorrectionsAreSafe

Rank(S, i) == Cardinality({k \in S : k <= i})

\* A finite set of numbers is counted in its order.
LEMMA Ranks ==
    ASSUME NEW S \in SUBSET Nat, IsFiniteSet(S)
    PROVE  /\ Cardinality(S) \in Nat
           /\ \A i \in S : Rank(S, i) \in 1 .. Cardinality(S)
           /\ \A i \in S, j \in S : i < j => Rank(S, i) < Rank(S, j)
           /\ \A r \in 1 .. Cardinality(S) : \E i \in S : Rank(S, i) = r
<1> DEFINE n == Cardinality(S)
           Up(i) == {k \in S : k <= i}
<1>1. n \in Nat
  BY FS_CardinalityType
<1>2. \A i \in S : IsFiniteSet(Up(i)) /\ Cardinality(Up(i)) \in Nat /\ Cardinality(Up(i)) <= n
  <2> TAKE i \in S
  <2>1. Up(i) \in SUBSET S
    OBVIOUS
  <2> HIDE DEF Up
  <2> QED
    BY <2>1, FS_Subset, FS_CardinalityType
<1>3. \A i \in S : Cardinality(Up(i)) # 0
  <2> TAKE i \in S
  <2>1. i \in Up(i)
    OBVIOUS
  <2> HIDE DEF Up
  <2> QED
    BY <1>2, <2>1, FS_EmptySet
<1>4. \A i \in S, j \in S : i < j => Cardinality(Up(i)) < Cardinality(Up(j))
  <2> SUFFICES ASSUME NEW i \in S, NEW j \in S, i < j
               PROVE  Cardinality(Up(i)) < Cardinality(Up(j))
    OBVIOUS
  <2>1. Up(i) \in SUBSET Up(j) /\ j \in Up(j) /\ j \notin Up(i)
    <3>1. i \in Nat /\ j \in Nat /\ \A k \in S : k \in Nat
      OBVIOUS
    <3>2. j <= j /\ ~(j <= i) /\ \A k \in S : k <= i => k <= j
      BY <3>1
    <3> QED
      BY <3>2
  <2> HIDE DEF Up
  <2>2. Cardinality(Up(i)) <= Cardinality(Up(j)) /\ Cardinality(Up(i)) # Cardinality(Up(j))
    BY <1>2, <2>1, FS_Subset
  <2> QED
    BY <1>2, <2>2
<1> DEFINE rank == [i \in S |-> Rank(S, i)]
<1>5. \A i \in S : rank[i] = Cardinality(Up(i))
  BY DEF Rank
<1> HIDE DEF Up, rank, n
<1>6. rank \in [S -> 1 .. n]
  <2>1. \A i \in S : rank[i] \in 1 .. n
    BY <1>1, <1>2, <1>3, <1>5
  <2> QED
    BY <2>1 DEF rank
<1>7. \A i \in S, j \in S : rank[i] = rank[j] => i = j
  <2> SUFFICES ASSUME NEW i \in S, NEW j \in S, rank[i] = rank[j]
               PROVE  i = j
    OBVIOUS
  <2>1. rank[i] \in Nat /\ ~(i < j) /\ ~(j < i)
    BY <1>2, <1>4, <1>5
  <2> QED
    BY <2>1
<1>8. rank \in Injection(S, 1 .. n)
  BY <1>6, <1>7 DEF Injection, IsInjective
<1>9. IsFiniteSet(1 .. n) /\ Cardinality(1 .. n) = n
  BY <1>1, FS_Interval
<1>10. rank \in Surjection(S, 1 .. n)
  BY <1>8, <1>9, FS_Injection DEF n
<1>11. \A r \in 1 .. n : \E i \in S : rank[i] = r
  BY <1>10 DEF Surjection
<1> QED
  BY <1>1, <1>4, <1>5, <1>6, <1>11 DEF rank, n

\* ... so unless it is empty it has a last member.
LEMMA LastMember ==
    ASSUME NEW S \in SUBSET Nat, IsFiniteSet(S), S # {}
    PROVE  \E i \in S : \A j \in S : j <= i
<1>1. Cardinality(S) \in Nat /\ Cardinality(S) # 0
  BY FS_CardinalityType, FS_EmptySet
<1>2. PICK i \in S : Rank(S, i) = Cardinality(S)
  BY <1>1, Ranks
<1> DEFINE U == {k \in S : k <= i}
<1>3. U \in SUBSET S /\ Cardinality(U) = Cardinality(S)
  BY <1>2 DEF Rank
<1> HIDE DEF U
<1>4. U = S
  BY <1>3, FS_Subset
<1> QED
  BY <1>4 DEF U

\* What _merge_custom_field keeps, and where.
LEMMA Filtered ==
    ASSUME entries \in Seq(FieldEntry), NEW f
    PROVE  /\ Without(f) \in Seq(FieldEntry) /\ Len(Without(f)) \in Nat
           /\ \A j \in 1 .. Len(Without(f)) :
                  At(f, j) \in Kept(f) /\ Without(f)[j] = entries[At(f, j)]
           /\ \A i \in Kept(f) : \E j \in 1 .. Len(Without(f)) : At(f, j) = i
           /\ \A j \in 1 .. Len(Without(f)), k \in 1 .. Len(Without(f)) :
                  At(f, j) <= At(f, k) => j <= k
<1> DEFINE S == Kept(f)
           n == Cardinality(S)
           w == Without(f)
<1>1. /\ Len(entries) \in Nat /\ DOMAIN entries = 1 .. Len(entries)
      /\ \A i \in DOMAIN entries : entries[i] \in FieldEntry
  BY LenProperties, ElementOfSeq
<1>2. S \in SUBSET DOMAIN entries /\ S \in SUBSET Nat
  BY <1>1 DEF Kept
<1>3. IsFiniteSet(S)
  <2>1. IsFiniteSet(DOMAIN entries)
    BY <1>1, FS_Interval
  <2> QED
    BY <1>2, <2>1, FS_Subset
<1>4. \A j : At(f, j) = CHOOSE i \in S : Rank(S, i) = j
  BY DEF At, Rank
<1>5. w = [j \in 1 .. n |-> entries[At(f, j)]]
  BY DEF Without
<1> HIDE DEF S, w
<1>6. /\ n \in Nat
      /\ \A i \in S : Rank(S, i) \in 1 .. n
      /\ \A i \in S, j \in S : i < j => Rank(S, i) < Rank(S, j)
      /\ \A r \in 1 .. n : \E i \in S : Rank(S, i) = r
  BY <1>2, <1>3, Ranks
<1> HIDE DEF n
<1>7. \A j \in 1 .. n : At(f, j) \in S /\ Rank(S, At(f, j)) = j
  BY <1>4, <1>6
<1>8. \A i \in S, j \in S : Rank(S, i) = Rank(S, j) => i = j
  <2> SUFFICES ASSUME NEW i \in S, NEW j \in S, Rank(S, i) = Rank(S, j) PROVE i = j
    OBVIOUS
  <2>1. Rank(S, i) \in Nat /\ i \in Nat /\ j \in Nat /\ ~(i < j) /\ ~(j < i)
    BY <1>2, <1>6
  <2> QED
    BY <2>1
<1>9. \A i \in S : \E j \in 1 .. n : At(f, j) = i
  BY <1>6, <1>7, <1>8
<1>10. \A j \in 1 .. n, k \in 1 .. n : At(f, j) <= At(f, k) => j <= k
  <2> SUFFICES ASSUME NEW j \in 1 .. n, NEW k \in 1 .. n, At(f, j) <= At(f, k) PROVE j <= k
    OBVIOUS
  <2> DEFINE a == At(f, j)
             b == At(f, k)
  <2>1. a \in S /\ b \in S /\ Rank(S, a) = j /\ Rank(S, b) = k
    BY <1>7
  <2>2. a \in Nat /\ b \in Nat /\ a <= b
    BY <1>2, <2>1
  <2> HIDE DEF a, b
  <2>3. CASE a = b
    BY <1>6, <2>1, <2>3
  <2>4. CASE a < b
    BY <1>6, <2>1, <2>4
  <2> QED
    BY <2>2, <2>3, <2>4
<1>11. \A j \in 1 .. n : entries[At(f, j)] \in FieldEntry
  BY <1>1, <1>2, <1>7
<1>12. w \in [1 .. n -> FieldEntry] /\ \A j \in 1 .. n : w[j] = entries[At(f, j)]
  BY <1>5, <1>11
<1>13. w \in Seq(FieldEntry) /\ Len(w) = n
  BY <1>6, <1>12, SeqDef, LenProperties
<1> QED
  BY <1>6, <1>7, <1>9, <1>10, <1>12, <1>13 DEF S, w

\* _merge_custom_field: the field's entry is the last one, the others' are as before.
LEMMA Merges ==
    ASSUME entries \in Seq(FieldEntry), NEW f \in IssueField, NEW v \in FieldValues,
           MergeField(f, v)
    PROVE  /\ entries' \in Seq(FieldEntry)
           /\ GivesLast(entries', f, v) /\ (Known(f) => Known(f)')
           /\ \A g \in IssueField \ {f} :
                /\ Known(g) => Known(g)'
                /\ \A u : GivesLast(entries, g, u) => GivesLast(entries', g, u)
                /\ GivesNone(entries, g) => GivesNone(entries', g)
<1> DEFINE w == Without(f)
           e == [field |-> f, key |-> "int", named |-> FALSE, value |-> v]
           n == Len(w)
<1>1. /\ w \in Seq(FieldEntry) /\ n \in Nat
      /\ \A j \in 1 .. n : At(f, j) \in Kept(f) /\ w[j] = entries[At(f, j)]
      /\ \A i \in Kept(f) : \E j \in 1 .. n : At(f, j) = i
      /\ \A j \in 1 .. n, k \in 1 .. n : At(f, j) <= At(f, k) => j <= k
  BY Filtered
<1>2. e \in FieldEntry /\ e.field = f /\ e.value = v /\ Matches(e, f)
  BY DEF FieldEntry, Matches
<1>3. entries' = Append(w, e)
  BY DEF MergeField
<1>4. \A i \in Kept(f) : i \in DOMAIN entries /\ ~Matches(entries[i], f)
  BY DEF Kept
<1> HIDE DEF w, e, n
<1>5. /\ entries' \in Seq(FieldEntry) /\ Len(entries') = n + 1
      /\ \A j \in 1 .. n : entries'[j] = w[j]
      /\ entries'[n + 1] = e
  BY <1>1, <1>2, <1>3, AppendProperties DEF n
<1>6. DOMAIN entries' = 1 .. n + 1 /\ n + 1 \in DOMAIN entries'
  BY <1>1, <1>5, LenProperties
<1>7. \A j \in DOMAIN entries' : j \in 1 .. n \/ j = n + 1
  BY <1>1, <1>6
<1>8. \A j \in 1 .. n : j \in DOMAIN entries' /\ entries'[j] = entries[At(f, j)]
  BY <1>1, <1>5, <1>6
<1>9. GivesLast(entries', f, v)
  <2>1. \A j \in DOMAIN entries' : j <= n + 1
    BY <1>1, <1>6
  <2> QED
    BY <1>2, <1>5, <1>6, <2>1 DEF GivesLast
<1>10. \A g : Known(g) => Known(g)'
  BY <1>1, <1>2, <1>4, <1>5, <1>7, <1>8 DEF Known, Matches
<1>11. ASSUME NEW g \in IssueField \ {f}
       PROVE  /\ \A u : GivesLast(entries, g, u) => GivesLast(entries', g, u)
              /\ GivesNone(entries, g) => GivesNone(entries', g)
  <2>1. GivesNone(entries, g) => GivesNone(entries', g)
    BY <1>1, <1>2, <1>4, <1>5, <1>7, <1>8, <1>11 DEF GivesNone
  <2>2. ASSUME NEW u, GivesLast(entries, g, u) PROVE GivesLast(entries', g, u)
    <3>1. PICK i \in DOMAIN entries :
            /\ entries[i].field = g /\ entries[i].value = u
            /\ \A j \in DOMAIN entries : entries[j].field = g => j <= i
      BY <2>2 DEF GivesLast
    <3>2. i \in Kept(f)
      BY <1>11, <3>1 DEF Kept, Matches
    <3>3. PICK k \in 1 .. n : At(f, k) = i
      BY <1>1, <3>2
    <3>4. k \in DOMAIN entries' /\ entries'[k].field = g /\ entries'[k].value = u
      BY <1>8, <3>1, <3>3
    <3>5. ASSUME NEW j \in DOMAIN entries', entries'[j].field = g PROVE j <= k
      <4>1. j \in 1 .. n
        BY <1>2, <1>5, <1>7, <1>11, <3>5
      <4>2. At(f, j) \in DOMAIN entries /\ entries[At(f, j)].field = g
        BY <1>1, <1>4, <1>8, <3>5, <4>1
      <4> QED
        BY <1>1, <3>1, <3>3, <4>1, <4>2
    <3> QED
      BY <3>4, <3>5 DEF GivesLast
  <2> QED
    BY <2>1, <2>2
<1> QED
  BY <1>5, <1>9, <1>10, <1>11

\* What a call says in its parameters.
LEMMA CallSays ==
    ASSUME asked \in FieldCalls
    PROVE  /\ asked.entries \in Seq(FieldEntry) /\ Empty # NotGiven
           /\ Parameter(Diff) = asked.difficulty /\ Parameter(Until) = asked.until
           /\ Parameter(Held) = IF asked.held = "clear" THEN Empty ELSE asked.held
           /\ asked.difficulty # NotGiven => asked.difficulty \in FieldValues
           /\ asked.until # NotGiven => asked.until \in FieldValues
           /\ asked.held # NotGiven /\ asked.held # "flag" => Parameter(Held) \in FieldValues
           /\ asked.held = NotGiven <=> Parameter(Held) = NotGiven
BY FieldsAssumption DEF Parameter, Diff, Held, Until, NotGiven

\* Between two steps before the correction only precedence is at stake.
LEMMA StillMerging ==
    ASSUME FieldTypes', fieldStep' \in Merging, PrecedenceInv'
    PROVE  FieldsInv'
<1>1. fieldStep' \notin {"gate", "send", "done"}
  BY DEF Merging
<1>2. verdict' = "none"
  BY <1>1 DEF FieldTypes
<1> QED
  BY <1>1, <1>2 DEF FieldsInv, CorrectionInv, GateInv, PrecedenceIsKept, GateJudgesThePut,
                    CorrectionsAreSafe

\* An ended call that wrote nothing has only its refusal to justify.
LEMMA RefusedCall ==
    ASSUME FieldTypes', fieldStep' = "done", verdict' # "written",
           verdict' = "issue_held" => GateJudgesThePut',
           verdict' = "validation_failed" => CorrectionsAreSafe'
    PROVE  FieldsInv'
BY DEF FieldsInv, PrecedenceInv, Unresolved, Merging, CorrectionInv, GateInv, PrecedenceIsKept,
       GateJudgesThePut, CorrectionsAreSafe

\* One of the three parameters, as its step applies it.
LEMMA ApplyStep ==
    ASSUME FieldsInv, NEW f \in IssueField, NEW from, NEW to, NEW given \in BOOLEAN,
           NEW yields \in BOOLEAN, NEW v, Apply(f, from, to, given, yields, v),
           from \in Unresolved(f), to \in Merging \ Unresolved(f),
           to # "difficulty", to = "held" => from = "difficulty",
           \A g \in IssueField \ {f} : to \in Unresolved(g) => from \in Unresolved(g),
           given => v \in FieldValues,
           Parameter(f) # NotGiven => given /\ v = Parameter(f) /\ (yields <=> f # Diff),
           Parameter(f) = NotGiven /\ given =>
               f = Diff /\ asked.op = "create" /\ yields /\ v = Unclassified,
           ~given => Parameter(f) = NotGiven /\ (f = Diff => asked.op # "create")
    PROVE  FieldsInv'
<1>1. /\ fieldStep = from /\ fieldStep' = to /\ from \in Merging
      /\ UNCHANGED <<verdict, asked, had, merged, has>>
  BY DEF Apply, FieldGoes, Unresolved, Merging
<1>2. /\ entries \in Seq(FieldEntry) /\ merged = <<>> /\ verdict = "none" /\ has = had
      /\ asked \in FieldCalls /\ had \in Had /\ found \subseteq IssueField /\ defined \in BOOLEAN
      /\ f \notin found
  BY <1>1 DEF FieldsInv, FieldTypes, PrecedenceInv, Merging
<1>3. PICK m \in BOOLEAN :
        /\ IF m THEN given /\ MergeField(f, v) ELSE UNCHANGED entries
        /\ found' = found \/ found' = found \cup {f}
        /\ defined' \in BOOLEAN
        /\ f \in found' => given /\ (m \/ (yields /\ HasEntry(f)))
        /\ m => f \in found' /\ ~(yields /\ HasEntry(f))
  <2>1. CASE ~given
    BY <1>2, <2>1 DEF Apply
  <2>2. CASE given
    <3>1. PICK ok \in BOOLEAN :
            /\ Resolve(f, ok)
            /\ IF ~ok \/ (yields /\ HasEntry(f)) THEN UNCHANGED entries ELSE MergeField(f, v)
      BY <2>2 DEF Apply
    <3>2. /\ found' = found \/ found' = found \cup {f}
          /\ defined' \in BOOLEAN
          /\ f \in found' <=> ok
      BY <1>2, <3>1 DEF Resolve
    <3>3. CASE ~ok \/ (yields /\ HasEntry(f))
      BY <1>2, <2>2, <3>1, <3>2, <3>3
    <3>4. CASE ~(~ok \/ (yields /\ HasEntry(f)))
      BY <1>2, <2>2, <3>1, <3>2, <3>4
    <3> QED
      BY <3>3, <3>4
  <2> QED
    BY <2>1, <2>2
<1>4. m => /\ entries' \in Seq(FieldEntry)
           /\ GivesLast(entries', f, v) /\ (Known(f) => Known(f)')
           /\ \A g \in IssueField \ {f} :
                /\ Known(g) => Known(g)'
                /\ \A u : GivesLast(entries, g, u) => GivesLast(entries', g, u)
                /\ GivesNone(entries, g) => GivesNone(entries', g)
  BY <1>2, <1>3, Merges
<1>5. FieldTypes'
  <2>1. fieldStep' \in {"difficulty", "held"} => asked.held # "flag"
    BY <1>1 DEF FieldsInv, FieldTypes
  <2> QED
    BY <1>1, <1>2, <1>3, <1>4, <2>1 DEF FieldTypes, Merging
<1>6. \A g \in IssueField : fieldStep' \in Unresolved(g) => g \notin found'
  BY <1>1, <1>3 DEF FieldsInv, PrecedenceInv
<1>7. \A g : /\ Parameter(g)' = Parameter(g) /\ Explicit(g)' = Explicit(g)
             /\ LastExplicit(g)' = LastExplicit(g) /\ (Recognised(g) <=> Recognised(g)')
  BY <1>1 DEF Parameter, Explicit, LastExplicit, Recognised
<1>8. ASSUME NEW g \in IssueField \ {f}, Recognised(g)
      PROVE  Known(g)' /\ Precedence(entries, g)'
  <2>1. Known(g) /\ Precedence(entries, g)
    BY <1>1, <1>8 DEF FieldsInv, PrecedenceInv
  <2>2. Known(g)'
    BY <1>3, <1>4, <2>1 DEF Known
  <2>3. Told(g)' <=> Told(g)
    BY <1>3, <1>7 DEF Told
  <2>4. /\ \A u : GivesLast(entries, g, u) => GivesLast(entries', g, u)
        /\ GivesNone(entries, g) => GivesNone(entries', g)
    BY <1>3, <1>4
  <2>5. g \in found' <=> g \in found
    BY <1>3
  <2> QED
    BY <1>1, <1>7, <2>1, <2>2, <2>3, <2>4, <2>5 DEF Precedence
<1>9. ASSUME Recognised(f)
      PROVE  Known(f)' /\ Precedence(entries, f)'
  <2>1. Known(f) /\ Precedence(entries, f)
    BY <1>1, <1>9 DEF FieldsInv, PrecedenceInv
  <2>2. IF Explicit(f) # {} THEN GivesLast(entries, f, LastExplicit(f)) ELSE GivesNone(entries, f)
    BY <1>2, <2>1 DEF Precedence, Told
  <2>3. HasEntry(f) <=> Explicit(f) # {}
    BY <2>1, <2>2 DEF HasEntry, Known, GivesLast, GivesNone, Matches
  <2>4. Known(f)'
    BY <1>3, <1>4, <2>1 DEF Known
  <2>5. CASE m
    <3>1. GivesLast(entries', f, v) /\ given /\ f \in found' /\ ~(yields /\ HasEntry(f))
      BY <1>3, <1>4, <2>5
    <3> QED
      BY <1>1, <1>7, <2>3, <2>4, <3>1 DEF Precedence, Told
  <2>6. CASE ~m
    <3>1. entries' = entries /\ (f \in found' => given /\ yields /\ HasEntry(f))
      BY <1>3, <2>6
    <3> QED
      BY <1>1, <1>7, <2>2, <2>3, <2>4, <3>1 DEF Precedence, Told
  <2> QED
    BY <2>5, <2>6
<1>10. PrecedenceInv'
  <2>1. fieldStep' \notin {"gate", "send"}
    BY <1>1 DEF Merging
  <2> QED
    BY <1>6, <1>7, <1>8, <1>9, <2>1 DEF PrecedenceInv
<1> QED
  BY <1>1, <1>5, <1>10, StillMerging

LEMMA DifficultyStep == ASSUME FieldsInv, ApplyDifficulty PROVE FieldsInv'
<1> DEFINE given == asked.difficulty # NotGiven
           v == IF given THEN asked.difficulty ELSE Unclassified
<1>1. Apply(Diff, "difficulty", "held", given \/ asked.op = "create", ~given, v)
  BY DEF ApplyDifficulty
<1>2. /\ Parameter(Diff) = asked.difficulty /\ v \in FieldValues
      /\ (given => v = asked.difficulty) /\ (~given => v = Unclassified)
  BY CallSays, FieldsAssumption DEF FieldsInv, FieldTypes
<1> HIDE DEF v
<1>3. /\ "difficulty" \in Unresolved(Diff) /\ "held" \in Merging \ Unresolved(Diff)
      /\ \A g \in IssueField \ {Diff} : "difficulty" \in Unresolved(g)
      /\ Diff \in IssueField
  BY DEF Unresolved, Merging, IssueField, Diff, Held, Until
<1>4. /\ (given \/ asked.op = "create") \in BOOLEAN /\ (~given) \in BOOLEAN
      /\ Parameter(Diff) # NotGiven => /\ given \/ asked.op = "create"
                                       /\ v = Parameter(Diff) /\ (~given <=> Diff # Diff)
      /\ Parameter(Diff) = NotGiven /\ (given \/ asked.op = "create") =>
            Diff = Diff /\ asked.op = "create" /\ ~given /\ v = Unclassified
      /\ ~(given \/ asked.op = "create") =>
            Parameter(Diff) = NotGiven /\ (Diff = Diff => asked.op # "create")
  BY <1>2
<1> QED
  BY <1>1, <1>2, <1>3, <1>4, ApplyStep

LEMMA HeldStep == ASSUME FieldsInv, ApplyHeld PROVE FieldsInv'
<1> DEFINE v == IF asked.held = "clear" THEN Empty ELSE asked.held
           given == asked.held # NotGiven
<1>1. Apply(Held, "held", "until", given, TRUE, v)
  BY DEF ApplyHeld
<1>2. asked \in FieldCalls /\ v = Parameter(Held) /\ (given <=> v # NotGiven)
  BY CallSays DEF FieldsInv, FieldTypes
<1>3. given => v \in FieldValues
  <2>1. asked.held # "flag"
    BY <1>1 DEF Apply, FieldGoes, FieldsInv, FieldTypes
  <2> QED
    BY <1>2, <2>1, CallSays
<1> HIDE DEF v
<1>4. /\ "held" \in Unresolved(Held) /\ "until" \in Merging \ Unresolved(Held)
      /\ \A g \in IssueField \ {Held} : "until" \in Unresolved(g) => "held" \in Unresolved(g)
      /\ Held \in IssueField /\ Held # Diff
  BY DEF Unresolved, Merging, IssueField, Diff, Held, Until
<1> QED
  BY <1>1, <1>2, <1>3, <1>4, ApplyStep

LEMMA UntilStep == ASSUME FieldsInv, ApplyUntil PROVE FieldsInv'
<1> DEFINE v == asked.until
           given == asked.until # NotGiven
<1>1. Apply(Until, "until", "correct", given, TRUE, v)
  BY DEF ApplyUntil
<1>2. v = Parameter(Until) /\ (given <=> v # NotGiven) /\ (given => v \in FieldValues)
  BY CallSays DEF FieldsInv, FieldTypes
<1> HIDE DEF v
<1>3. /\ "until" \in Unresolved(Until) /\ "correct" \in Merging \ Unresolved(Until)
      /\ \A g \in IssueField \ {Until} : ~("correct" \in Unresolved(g))
      /\ Until \in IssueField /\ Until # Diff
  BY DEF Unresolved, Merging, IssueField, Diff, Held, Until
<1> QED
  BY <1>1, <1>2, <1>3, ApplyStep

LEMMA CheckStep == ASSUME FieldsInv, Check PROVE FieldsInv'
<1>1. /\ fieldStep = "check" /\ entries' = entries /\ UNCHANGED <<asked, had, defined, found, merged, has>>
  BY DEF Check, FieldGoes, Refuse
<1>2. /\ entries \in Seq(FieldEntry) /\ merged = <<>> /\ verdict = "none" /\ has = had
      /\ asked \in FieldCalls /\ had \in Had /\ found \subseteq IssueField /\ defined \in BOOLEAN
  BY <1>1 DEF FieldsInv, FieldTypes, Merging
<1>3. CASE fieldStep' = "done"
  <2>1. verdict' \in {"validation_failed", "api_error"}
    BY <1>3 DEF Check, FieldGoes, Refuse
  <2>2. FieldTypes'
    BY <1>1, <1>2, <1>3 DEF FieldTypes, Merging
  <2>3. CorrectionsAreSafe'
    BY <1>1, <1>2, <1>3 DEF CorrectionsAreSafe
  <2> QED
    BY <1>3, <2>1, <2>2, <2>3, RefusedCall
<1>4. CASE fieldStep' = "difficulty" /\ asked.held # "flag" /\ UNCHANGED verdict
  <2>1. FieldTypes'
    BY <1>1, <1>2, <1>4 DEF FieldTypes, Merging
  <2>2. \A f \in IssueField : "check" \in Unresolved(f) /\ "difficulty" \in Unresolved(f)
    BY DEF Unresolved
  <2>3. PrecedenceInv'
    <3>1. \A f \in IssueField : /\ Told(f)' = Told(f)
                                /\ Recognised(f)' = Recognised(f) /\ Known(f)' = Known(f)
                                /\ Precedence(entries, f)' = Precedence(entries, f)
      BY <1>1 DEF Told, Parameter, Explicit, LastExplicit, Recognised, Known, Matches, Precedence,
                  GivesLast, GivesNone
    <3> QED
      BY <1>1, <1>4, <2>2, <3>1 DEF FieldsInv, PrecedenceInv, Merging
  <2> QED
    BY <1>4, <2>1, <2>3, StillMerging DEF Merging
<1> QED
  BY <1>3, <1>4 DEF Check, FieldGoes, Refuse

\* What the correction may make of an entry.
LEMMA Corrects ==
    ASSUME NEW e \in FieldEntry, Cardinality(Candidates(e)) = 1
    PROVE  LET c == [e EXCEPT !.value = CHOOSE v \in Candidates(e) : TRUE] IN
           /\ Corrected(c, e)
           /\ \/ c = e
              \/ /\ c.value # e.value
                 /\ {v \in Possible[e.field] : Folded[v] = Folded[e.value]} = {c.value}
<1> DEFINE b == CHOOSE v \in Candidates(e) : TRUE
           c == [e EXCEPT !.value = b]
<1>1. e.field \in IssueField /\ e.value \in FieldValues
  BY DEF FieldEntry
<1>2. IsFiniteSet(Cached(e.field)) /\ Cached(e.field) \in SUBSET FieldValues
  BY <1>1, FieldsAssumption, FS_EmptySet DEF Cached
<1>3. IsFiniteSet(Candidates(e))
  <2>1. {v \in Cached(e.field) : Folded[v] = Folded[e.value]} \in SUBSET Cached(e.field)
    OBVIOUS
  <2> QED
    BY <1>2, <2>1, FS_Subset, FS_Singleton DEF Candidates
<1>4. Candidates(e) = {b}
  BY <1>3, FS_Singleton
<1> HIDE DEF b
<1>5. c.field = e.field /\ c.value = b
  BY DEF FieldEntry
<1>6. /\ Corrected(c, e)
      /\ \/ c = e
         \/ /\ c.value # e.value
            /\ {v \in Possible[e.field] : Folded[v] = Folded[e.value]} = {c.value}
  <2>1. CASE b = e.value
    <3>1. c = e
      BY <2>1 DEF FieldEntry
    <3> QED
      BY <3>1 DEF Corrected, Meant
  <2>2. CASE b # e.value
    <3>1. /\ e.value # Empty /\ Cached(e.field) # {}
          /\ {v \in Cached(e.field) : Folded[v] = Folded[e.value]} = {b}
      BY <1>4, <2>2 DEF Candidates
    <3>2. Cached(e.field) = Possible[e.field]
      BY <3>1 DEF Cached
    <3>3. Folded[b] = Folded[e.value] /\ b # Empty
      BY <1>1, <3>1, FieldsAssumption
    <3> QED
      BY <1>5, <2>2, <3>1, <3>2, <3>3 DEF Corrected, Meant
  <2> QED
    BY <2>1, <2>2
<1> QED
  BY <1>6 DEF b

LEMMA CorrectStep == ASSUME FieldsInv, Correct PROVE FieldsInv'
<1>1. /\ fieldStep = "correct" /\ merged' = entries
      /\ UNCHANGED <<asked, had, defined, found, has>>
  BY DEF Correct, FieldGoes
<1>2. /\ entries \in Seq(FieldEntry) /\ merged = <<>> /\ verdict = "none" /\ has = had
      /\ asked \in FieldCalls /\ had \in Had /\ found \subseteq IssueField /\ defined \in BOOLEAN
  BY <1>1 DEF FieldsInv, FieldTypes, Merging
<1>3. /\ DOMAIN entries \subseteq Nat /\ \A i \in DOMAIN entries : entries[i] \in FieldEntry
  BY <1>2, LenProperties, ElementOfSeq
<1>4. ASSUME FieldGoes("correct", "gate"),
             \A i \in DOMAIN entries : Cardinality(Candidates(entries[i])) = 1,
             entries' = [i \in DOMAIN entries |->
                 [entries[i] EXCEPT !.value = CHOOSE v \in Candidates(entries[i]) : TRUE]]
      PROVE  FieldsInv'
  <2>1. fieldStep' = "gate" /\ verdict' = "none"
    BY <1>2, <1>4 DEF FieldGoes
  <2>2. DOMAIN entries' = DOMAIN merged' /\ DOMAIN merged' \subseteq Nat
    BY <1>1, <1>3, <1>4
  <2>3. \A i \in DOMAIN merged' :
          /\ Corrected(entries'[i], merged'[i])
          /\ \/ entries'[i] = merged'[i]
             \/ /\ entries'[i].value # merged'[i].value
                /\ {v \in Possible[merged'[i].field] : Folded[v] = Folded[merged'[i].value]}
                        = {entries'[i].value}
    BY <1>1, <1>3, <1>4, Corrects
  <2>4. FieldTypes'
    BY <1>1, <1>2, <2>1 DEF FieldTypes, Merging
  <2>5. PrecedenceInv'
    <3>1. \A f \in IssueField : "gate" \notin Unresolved(f)
      BY DEF Unresolved
    <3>2. \A f \in IssueField : Recognised(f)' = Recognised(f)
      BY <1>1 DEF Recognised, Explicit
    <3>3. \A f \in IssueField : Precedence(entries, f) => Precedence(merged, f)'
      BY <1>1 DEF Told, Parameter, Explicit, LastExplicit, Precedence, GivesLast, GivesNone
    <3>4. \A f \in IssueField : Recognised(f) => Precedence(entries, f)
      BY <1>1 DEF FieldsInv, PrecedenceInv, Merging
    <3> QED
      BY <2>1, <3>1, <3>2, <3>3, <3>4 DEF PrecedenceInv, Merging
  <2>6. CorrectionInv' /\ GateInv'
    BY <2>1, <2>2, <2>3 DEF CorrectionInv, GateInv
  <2>7. PrecedenceIsKept' /\ GateJudgesThePut'
    BY <2>1 DEF PrecedenceIsKept, GateJudgesThePut
  <2>8. CorrectionsAreSafe'
    BY <2>1, <2>2, <2>3 DEF CorrectionsAreSafe
  <2> QED
    BY <2>4, <2>5, <2>6, <2>7, <2>8 DEF FieldsInv
<1>5. ASSUME NEW i \in DOMAIN entries, Cardinality(Candidates(entries[i])) # 1,
             fieldStep' = "done", verdict' = "validation_failed", UNCHANGED entries
      PROVE  FieldsInv'
  <2> DEFINE e == entries[i]
  <2>1. /\ Candidates(e) # {e.value}
    BY <1>5, FS_Singleton
  <2>2. /\ Cached(e.field) # {} /\ e.value # Empty /\ e.value \notin Cached(e.field)
        /\ Candidates(e) = {v \in Cached(e.field) : Folded[v] = Folded[e.value]}
    BY <2>1 DEF Candidates
  <2>3. defined /\ Cached(e.field) = Possible[e.field]
    BY <2>2 DEF Cached
  <2>4. /\ defined /\ e.value \notin Possible[e.field] \cup {Empty} /\ Possible[e.field] # {}
        /\ Cardinality({v \in Possible[e.field] : Folded[v] = Folded[e.value]}) # 1
    BY <1>5, <2>2, <2>3
  <2>5. CorrectionsAreSafe'
    BY <1>1, <1>5, <2>4 DEF CorrectionsAreSafe
  <2>6. FieldTypes'
    BY <1>1, <1>2, <1>5 DEF FieldTypes, Merging
  <2> QED
    BY <1>5, <2>5, <2>6, RefusedCall
<1> QED
  BY <1>4, <1>5 DEF Correct

LEMMA GateStep == ASSUME FieldsInv, Gate PROVE FieldsInv'
<1>1. /\ fieldStep = "gate" /\ UNCHANGED <<asked, had, defined, found, entries, merged, has>>
  BY DEF Gate, FieldGoes, Refuse
<1>2. /\ verdict = "none" /\ has = had
      /\ asked \in FieldCalls /\ had \in Had /\ found \subseteq IssueField /\ defined \in BOOLEAN
  BY <1>1 DEF FieldsInv, FieldTypes
<1>3. HeldAfter' = HeldAfter /\ Assigned(Held)' = Assigned(Held)
  BY <1>1 DEF HeldAfter, Last, Pending, Assigned
<1>4. CASE FieldGoes("gate", "send") /\ (gated' => HeldAfter = Empty)
  <2>1. fieldStep' = "send" /\ verdict' = "none"
    BY <1>2, <1>4 DEF FieldGoes
  <2>2. FieldTypes'
    BY <1>1, <1>2, <2>1 DEF FieldTypes, Merging
  <2>3. PrecedenceInv'
    <3>1. \A f \in IssueField : "send" \notin Unresolved(f)
      BY DEF Unresolved
    <3>2. \A f \in IssueField : /\ Recognised(f)' = Recognised(f)
                                /\ Precedence(merged, f)' = Precedence(merged, f)
      BY <1>1 DEF Told, Parameter, Explicit, LastExplicit, Recognised, Precedence,
                  GivesLast, GivesNone
    <3> QED
      BY <1>1, <2>1, <3>1, <3>2 DEF FieldsInv, PrecedenceInv, Merging
  <2>4. CorrectionInv' /\ CorrectionsAreSafe'
    BY <1>1, <2>1 DEF FieldsInv, CorrectionInv, CorrectionsAreSafe
  <2>5. GateInv'
    BY <1>1, <1>3, <1>4 DEF GateInv
  <2>6. PrecedenceIsKept' /\ GateJudgesThePut'
    BY <2>1 DEF PrecedenceIsKept, GateJudgesThePut
  <2> QED
    BY <2>2, <2>3, <2>4, <2>5, <2>6 DEF FieldsInv
<1>5. CASE Refuse("issue_held") /\ HeldAfter # Empty
  <2>1. fieldStep' = "done" /\ verdict' = "issue_held"
    BY <1>5 DEF Refuse
  <2>2. FieldTypes'
    BY <1>1, <1>2, <2>1 DEF FieldTypes, Merging
  <2>3. had[Held] # Absent => Assigned(Held) # Empty
    BY <1>5 DEF HeldAfter, Assigned, Pending
  <2>4. GateJudgesThePut'
    BY <1>1, <1>3, <2>1, <2>3 DEF GateJudgesThePut
  <2> QED
    BY <2>1, <2>2, <2>4, RefusedCall
<1> QED
  BY <1>4, <1>5 DEF Gate

\* Redmine assigns the last value that the list gives.
LEMMA AssignsLast ==
    ASSUME CorrectionInv, fieldStep = "send", NEW f
    PROVE  /\ \A v : GivesLast(merged, f, v) => Meant(Assigned(f), v)
           /\ GivesNone(merged, f) => Assigned(f) = had[f]
<1>1. /\ DOMAIN entries = DOMAIN merged /\ DOMAIN entries \subseteq Nat
      /\ \A i \in DOMAIN entries : /\ entries[i].field = merged[i].field
                                   /\ Meant(entries[i].value, merged[i].value)
  BY DEF CorrectionInv, Corrected
<1> DEFINE is == {i \in DOMAIN entries : entries[i].field = f}
<1>2. Assigned(f) = IF is = {} THEN had[f]
                    ELSE entries[CHOOSE i \in is : \A j \in is : j <= i].value
  BY DEF Assigned, Last
<1>3. ASSUME NEW v, GivesLast(merged, f, v) PROVE Meant(Assigned(f), v)
  <2>1. PICK i \in is : merged[i].value = v /\ \A j \in is : j <= i
    BY <1>1, <1>3 DEF GivesLast
  <2> DEFINE c == CHOOSE k \in is : \A j \in is : j <= k
  <2>2. c \in is /\ \A j \in is : j <= c
    BY <2>1
  <2> HIDE DEF c
  <2>3. c \in Nat /\ i \in Nat /\ c <= i /\ i <= c
    BY <1>1, <2>1, <2>2
  <2>4. c = i
    BY <2>3
  <2>5. Assigned(f) = entries[i].value
    BY <1>2, <2>1, <2>4 DEF c
  <2> QED
    BY <1>1, <2>1, <2>5
<1>4. GivesNone(merged, f) => is = {}
  BY <1>1 DEF GivesNone
<1> QED
  BY <1>2, <1>3, <1>4

LEMMA SendStep == ASSUME FieldsInv, Send PROVE FieldsInv'
<1>1. /\ fieldStep = "send" /\ fieldStep' = "done"
      /\ UNCHANGED <<asked, had, defined, found, entries, merged, gated>>
      /\ verdict' \in {"written", "api_error"}
  BY DEF Send
<1>2. /\ asked \in FieldCalls /\ had \in Had /\ found \subseteq IssueField /\ defined \in BOOLEAN
  BY <1>1 DEF FieldsInv, FieldTypes
<1>3. FieldTypes'
  BY <1>1, <1>2 DEF FieldTypes, Merging
<1>4. CASE verdict' = "api_error"
  BY <1>1, <1>3, <1>4, RefusedCall
<1>5. CASE verdict' = "written"
  <2>1. has' = [f \in IssueField |-> IF had[f] = Absent THEN Absent ELSE Assigned(f)]
    BY <1>5 DEF Send
  <2>2. \A f : /\ Parameter(f)' = Parameter(f) /\ Explicit(f)' = Explicit(f)
               /\ LastExplicit(f)' = LastExplicit(f) /\ (Recognised(f) <=> Recognised(f)')
    BY <1>1 DEF Parameter, Explicit, LastExplicit, Recognised
  <2>3. PrecedenceIsKept'
    <3> SUFFICES ASSUME NEW f \in IssueField, had[f] # Absent, Recognised(f)
                 PROVE  LET told == Parameter(f) # NotGiven /\ f \in found IN
                        IF f = Diff /\ told THEN Meant(has'[f], Parameter(f))
                        ELSE IF Explicit(f) # {} THEN Meant(has'[f], LastExplicit(f))
                        ELSE IF told THEN Meant(has'[f], Parameter(f))
                        ELSE IF f = Diff /\ asked.op = "create" /\ f \in found
                             THEN Meant(has'[f], Unclassified)
                        ELSE has'[f] = had[f]
      BY <1>1, <2>2 DEF PrecedenceIsKept
    <3>1. has'[f] = Assigned(f)
      BY <2>1
    <3>2. Precedence(merged, f)
      BY <1>1 DEF FieldsInv, PrecedenceInv
    <3>3. /\ \A v : GivesLast(merged, f, v) => Meant(has'[f], v)
          /\ GivesNone(merged, f) => has'[f] = had[f]
      BY <1>1, <3>1, AssignsLast DEF FieldsInv
    <3> QED
      BY <3>2, <3>3 DEF Precedence, Told
  <2>4. GateJudgesThePut'
    <3>1. asked.op = "close" /\ gated /\ had[Held] # Absent => Assigned(Held) = Empty
      BY <1>1 DEF FieldsInv, GateInv, HeldAfter, Assigned, Pending
    <3>2. Held \in IssueField
      BY DEF IssueField
    <3>3. asked.op = "close" /\ gated => has'[Held] \in {Absent, Empty}
      BY <2>1, <3>1, <3>2
    <3> QED
      BY <1>1, <1>5, <3>3 DEF GateJudgesThePut
  <2>5. CorrectionsAreSafe'
    BY <1>1, <1>5 DEF CorrectionsAreSafe
  <2>6. PrecedenceInv' /\ CorrectionInv' /\ GateInv'
    BY <1>1 DEF PrecedenceInv, CorrectionInv, GateInv, Unresolved, Merging
  <2> QED
    BY <1>3, <2>3, <2>4, <2>5, <2>6 DEF FieldsInv
<1> QED
  BY <1>1, <1>4, <1>5

LEMMA FieldsInitInv == FieldsInit => FieldsInv
<1> SUFFICES ASSUME FieldsInit PROVE FieldsInv
  OBVIOUS
<1>1. /\ fieldStep = "check" /\ asked \in FieldCalls /\ entries = asked.entries /\ found = {}
      /\ merged = <<>> /\ verdict = "none" /\ has = had /\ had \in Had /\ defined \in BOOLEAN
      /\ entries \in Seq(FieldEntry)
  BY FieldsAssumption DEF FieldsInit
<1>2. DOMAIN entries = 1 .. Len(entries) /\ Len(entries) \in Nat /\ DOMAIN entries \subseteq Nat
  BY <1>1, LenProperties
<1>3. FieldTypes
  BY <1>1 DEF FieldTypes, Merging
<1>4. ASSUME NEW f \in IssueField, Recognised(f) PROVE Known(f) /\ Precedence(entries, f)
  <2>1. Known(f)
    BY <1>1, <1>4 DEF Known, Recognised, Explicit, Matches
  <2>2. Explicit(f) = {} => GivesNone(entries, f)
    BY <1>1 DEF Explicit, GivesNone
  <2>3. Explicit(f) # {} => GivesLast(entries, f, LastExplicit(f))
    <3> SUFFICES ASSUME Explicit(f) # {} PROVE GivesLast(entries, f, LastExplicit(f))
      OBVIOUS
    <3> DEFINE c == CHOOSE i \in Explicit(f) : \A j \in Explicit(f) : j <= i
    <3>1. IsFiniteSet(DOMAIN entries)
      BY <1>2, FS_Interval
    <3>2. Explicit(f) \in SUBSET DOMAIN entries /\ Explicit(f) \in SUBSET Nat
      BY <1>1, <1>2 DEF Explicit
    <3>3. IsFiniteSet(Explicit(f))
      BY <3>1, <3>2, FS_Subset
    <3>4. c \in Explicit(f) /\ \A j \in Explicit(f) : j <= c
      BY <3>2, <3>3, LastMember
    <3>5. LastExplicit(f) = asked.entries[c].value
      BY DEF LastExplicit
    <3> HIDE DEF c
    <3> QED
      BY <1>1, <3>4, <3>5 DEF GivesLast, Explicit
  <2> QED
    BY <1>1, <2>1, <2>2, <2>3 DEF Precedence, Told
<1>5. PrecedenceInv
  BY <1>1, <1>4 DEF PrecedenceInv
<1> QED
  BY <1>1, <1>3, <1>5 DEF FieldsInv, CorrectionInv, GateInv, PrecedenceIsKept, GateJudgesThePut,
                          CorrectionsAreSafe

LEMMA FieldsInvHolds == FieldsSpec => []FieldsInv
<1>1. FieldsInv /\ [FieldsNext]_fieldVars => FieldsInv'
  <2> SUFFICES ASSUME FieldsInv, [FieldsNext]_fieldVars PROVE FieldsInv'
    OBVIOUS
  <2>1. CASE UNCHANGED fieldVars
    <3>1. UNCHANGED <<fieldStep, asked, had, defined, found, entries, merged, gated, verdict, has>>
      BY <2>1 DEF fieldVars
    <3>2. FieldTypes' /\ CorrectionInv' /\ GateInv'
      BY <3>1 DEF FieldsInv, FieldTypes, CorrectionInv, GateInv, HeldAfter, Last, Pending
    <3>3. \A f : /\ Parameter(f)' = Parameter(f) /\ Explicit(f)' = Explicit(f)
                 /\ LastExplicit(f)' = LastExplicit(f) /\ Told(f)' = Told(f)
                 /\ Recognised(f)' = Recognised(f) /\ Known(f)' = Known(f)
      BY <3>1 DEF Recognised, Explicit, LastExplicit, Known, Matches, Told, Parameter
    <3>4. PrecedenceInv' /\ PrecedenceIsKept'
      <4>1. \A f : /\ Precedence(entries, f)' = Precedence(entries, f)
                   /\ Precedence(merged, f)' = Precedence(merged, f)
        BY <3>1, <3>3 DEF Precedence, GivesLast, GivesNone
      <4>2. PrecedenceInv'
        BY <3>1, <3>3, <4>1 DEF FieldsInv, PrecedenceInv
      <4> QED
        BY <3>1, <3>3, <4>2 DEF FieldsInv, PrecedenceIsKept
    <3>5. GateJudgesThePut' /\ CorrectionsAreSafe'
      BY <3>1 DEF FieldsInv, GateJudgesThePut, CorrectionsAreSafe, Assigned, Last
    <3> QED
      BY <3>2, <3>4, <3>5 DEF FieldsInv
  <2> QED
    BY <2>1, CheckStep, DifficultyStep, HeldStep, UntilStep, CorrectStep, GateStep, SendStep
       DEF FieldsNext
<1> QED
  BY <1>1, FieldsInitInv, PTL DEF FieldsSpec

\* Each field of the issue ends with the value of the source that has precedence, for
\* any list of entries, whether or not its name could be resolved (issues.py:402, 565).
THEOREM EachFieldGetsWhatHasPrecedence == FieldsSpec => []PrecedenceIsKept
BY FieldsInvHolds, PTL DEF FieldsInv

\* A closing PUT leaves no reason in Held, and none is refused that would not have
\* (issues.py:449).
THEOREM TheGateJudgesThePut == FieldsSpec => []GateJudgesThePut
BY FieldsInvHolds, PTL DEF FieldsInv

\* A value is refused, or changed, only for what the definition lists (fields.py:187).
THEOREM CorrectionsStaySafe == FieldsSpec => []CorrectionsAreSafe
BY FieldsInvHolds, PTL DEF FieldsInv

-----------------------------------------------------------------------------
(* The composition: the writers share no state. *)

LEMMA WritersStart ==
    WritesInit => /\ Init /\ WikiInit /\ FieldsInit /\ CopyInit
                  /\ LinkInit /\ TimeInit /\ RetryInit
BY DEF WritesInit, NoTransfer, NoEditing, NoFields, NoCopying, NoLinking, NoLogging

LEMMA WritersStep ==
    [WritesNext]_writesVars =>
        /\ [Next]_vars /\ [WikiNext]_wikiVars /\ [FieldsNext]_fieldVars /\ [CopyNext]_copyVars
        /\ [LinkNext]_linkVars /\ [TimeNext]_timeVars /\ [RetryNext]_retryVars
BY DEF WritesNext, writesVars

\* Whatever tool writes, each component behaves as its own specification allows.
THEOREM WritersRunAlone ==
    WritesSpec => /\ Spec /\ WikiSpec /\ FieldsSpec /\ CopySpec
                  /\ LinkSpec /\ TimeSpec /\ RetrySpec
BY WritersStart, WritersStep, PTL
   DEF WritesSpec, Spec, WikiSpec, FieldsSpec, CopySpec, LinkSpec, TimeSpec, RetrySpec

\* What the writing tools promise, together and for every value of the constants, if a
\* backoff is never longer than the cap on Retry-After.
THEOREM WritersKeepTheirPromises ==
    ASSUME ShortBackoffs
    PROVE  WritesSpec =>
               /\ []CopiesAreFaithful
               /\ []CyclesNeedABlindWalk /\ []RefusalsAreTrue
               /\ []TimeIsBookedAsReported
               /\ []AttachAnswerIsTrue /\ LocalFilesAreSafe
               /\ []AnswersShowTheWrite /\ NoBlindOverwrite
               /\ []PrecedenceIsKept /\ []GateJudgesThePut /\ []CorrectionsAreSafe
               /\ []NoDuplicateWrite /\ []OutcomeIsEarned /\ []WaitIsBounded
BY WritersRunAlone, CopiesStayFaithful, NoCycleUnseen, RefusalsAreJustified, TimeIsBooked,
   UploadsAreTruthful, DownloadsSpareFiles, AnswersAreTrue, NothingIsOverwrittenBlindly,
   EachFieldGetsWhatHasPrecedence, TheGateJudgesThePut, CorrectionsStaySafe,
   WritesAreSingleShot, OutcomesAreEarned, WaitsAreBounded, PTL
=============================================================================
