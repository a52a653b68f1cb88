-------------------------------- MODULE Wiki --------------------------------
(***************************************************************************)
(* tools/wiki.py: callers that read, create, update and delete one wiki    *)
(* page.  Redmine writes a page with PUT whether it exists or not, so      *)
(* create_page looks first, and update_page may name the version it is     *)
(* meant for.  Other users of the page are callers like any other.         *)
(***************************************************************************)
EXTENDS Naturals

CONSTANTS
    Editors,        \* concurrent callers
    NoPage,
    MaxWikiCalls    \* bound on the tool calls of a behaviour

ASSUME WikiAssumption == MaxWikiCalls \in Nat

\* A revision: its number in the page's whole history, the number of the revision
\* that created the page, and the version Redmine shows, which starts anew with it
PageState == [rev : Nat, born : Nat, version : Nat]

ASSUME NoPageAssumption == NoPage \notin PageState

\* Only update_page takes a version
WikiOps == {o \in [kind : {"get", "create", "update", "delete"}, locked : BOOLEAN] :
               o.locked => o.kind = "update"}

VARIABLES
    wikiPage,   \* Redmine: the page, or NoPage
    revisions,  \* Redmine: revisions written so far
    wikiStep,   \* of each caller: "idle", "get", "put", "refetch", "delete"
    wikiOp,     \* what it has called
    seen,       \* the page it was last shown, or NoPage
    base,       \* history: revisions written when its pre-flight found no page
    misled,     \* history: that pre-flight's answer had no page in it
    wrote,      \* history: the revision this call has written, or 0
    reply,      \* how its last call ended
    wikiCalls

wikiVars == <<wikiPage, revisions, wikiStep, wikiOp, seen, base, misled, wrote, reply,
              wikiCalls>>

WikiReplies == {"none", "page", "not_found", "exists", "conflict", "api_error", "invalid",
                "deleted"}

WikiInit ==
    /\ wikiPage \in {NoPage, [rev |-> 1, born |-> 1, version |-> 1]}
    /\ revisions = 1
    /\ wikiStep = [e \in Editors |-> "idle"]
    /\ wikiOp = [e \in Editors |-> [kind |-> "get", locked |-> FALSE]]
    /\ seen = [e \in Editors |-> NoPage]
    /\ base = [e \in Editors |-> 0] /\ misled = [e \in Editors |-> FALSE]
    /\ wrote = [e \in Editors |-> 0]
    /\ reply = [e \in Editors |-> "none"]
    /\ wikiCalls = 0

-----------------------------------------------------------------------------
WikiGoes(e, from, to) == wikiStep[e] = from /\ wikiStep' = [wikiStep EXCEPT ![e] = to]

\* The call ends; an answer that has the page shows it to the caller
WikiEnds(e, kind) ==
    /\ wikiStep' = [wikiStep EXCEPT ![e] = "idle"]
    /\ reply' = [reply EXCEPT ![e] = kind]
    /\ seen' = [seen EXCEPT ![e] = IF kind = "page" THEN wikiPage' ELSE @]

WikiFirstStep(kind) ==
    IF kind \in {"get", "create"} THEN "get" ELSE IF kind = "update" THEN "put" ELSE "delete"

\* A tool call; a version can only be named by a caller that has been shown one
WikiCall(e) ==
    /\ wikiStep[e] = "idle" /\ wikiCalls < MaxWikiCalls
    /\ wikiCalls' = wikiCalls + 1
    /\ \E o \in WikiOps :
        /\ o.locked => seen[e] # NoPage
        /\ wikiOp' = [wikiOp EXCEPT ![e] = o]
        /\ \/ WikiGoes(e, "idle", WikiFirstStep(o.kind)) /\ UNCHANGED seen
              /\ reply' = [reply EXCEPT ![e] = "none"]
           \/ o.kind \in {"create", "update"} /\ UNCHANGED wikiPage   \* _validate_text
              /\ WikiEnds(e, "invalid")
    /\ wrote' = [wrote EXCEPT ![e] = 0]
    /\ base' = [base EXCEPT ![e] = 0] /\ misled' = [misled EXCEPT ![e] = FALSE]
    /\ UNCHANGED <<wikiPage, revisions>>

\* get_page's request: the page, a 404, an answer without a page, or another error
WikiLookup(e, answer) ==
    /\ answer \in {"page", "absent", "null", "error"}
    /\ answer = "page" => wikiPage # NoPage
    /\ answer = "absent" => wikiPage = NoPage
    /\ UNCHANGED <<wikiPage, revisions, wikiOp, wrote, wikiCalls>>

AbsentOrAnyError(answer) == answer # "page"   \* mutant: any error clears the way
\* What create_page takes for "clear to create"
ClearToCreate(answer) == answer \in {"absent", "null"}

\* create_page's pre-flight
WikiPreflight(e) ==
    /\ wikiStep[e] = "get" /\ wikiOp[e].kind = "create"
    /\ \E answer \in {"page", "absent", "null", "error"} :
        /\ WikiLookup(e, answer)
        /\ IF ClearToCreate(answer)
           THEN /\ WikiGoes(e, "get", "put") /\ UNCHANGED <<reply, seen>>
                /\ base' = [base EXCEPT ![e] = revisions]
                /\ misled' = [misled EXCEPT ![e] = answer = "null"]
           ELSE /\ WikiEnds(e, IF answer = "page" THEN "exists" ELSE "api_error")
                /\ UNCHANGED <<base, misled>>

\* get_page, and the re-fetch after a write
WikiGet(e) ==
    /\ wikiStep[e] = "refetch" \/ (wikiStep[e] = "get" /\ wikiOp[e].kind = "get")
    /\ \E answer \in {"page", "absent", "null", "error"} :
        /\ WikiLookup(e, answer)
        /\ \/ answer = "page" /\ WikiEnds(e, "page")
           \/ answer = "error" /\ WikiEnds(e, "api_error")
           \/ answer \in {"absent", "null"} /\ WikiEnds(e, "not_found")
    /\ UNCHANGED <<base, misled>>

\* Redmine: a PUT writes the next revision; one that names another version than the
\* page has is a conflict
Conflict(e) == wikiOp[e].locked /\ wikiPage # NoPage /\ seen[e].version # wikiPage.version

WikiWrite(e) ==
    /\ ~Conflict(e)
    /\ revisions' = revisions + 1
    /\ wikiPage' = IF wikiPage = NoPage
                   THEN [rev |-> revisions + 1, born |-> revisions + 1, version |-> 1]
                   ELSE [wikiPage EXCEPT !.rev = revisions + 1, !.version = @ + 1]
    /\ wrote' = [wrote EXCEPT ![e] = revisions + 1]

WikiPutLenient(e) ==   \* mutant: an error of the PUT is not looked at
    /\ wikiStep[e] = "put"
    /\ WikiGoes(e, "put", "refetch") /\ UNCHANGED <<reply, seen>>
    /\ WikiWrite(e) \/ UNCHANGED <<wikiPage, revisions, wrote>>
    /\ UNCHANGED <<wikiOp, base, misled, wikiCalls>>

\* The PUT of create_page and update_page.  create_page takes the page from the
\* answer if it is there; an error may hide a write (a lost or garbled answer), but
\* redmine_api_409 is Redmine's word that the page has another version.
WikiPut(e) ==
    /\ wikiStep[e] = "put"
    /\ \/ /\ WikiWrite(e)
          /\ \/ wikiOp[e].kind = "create" /\ WikiEnds(e, "page")
             \/ WikiGoes(e, "put", "refetch") /\ UNCHANGED <<reply, seen>>
             \/ WikiEnds(e, "api_error")
       \/ /\ UNCHANGED <<wikiPage, revisions, wrote>>
          /\ WikiEnds(e, "api_error") \/ (Conflict(e) /\ WikiEnds(e, "conflict"))
    /\ UNCHANGED <<wikiOp, base, misled, wikiCalls>>

\* delete_page
WikiDelete(e) ==
    /\ wikiStep[e] = "delete"
    /\ \/ /\ wikiPage # NoPage /\ wikiPage' = NoPage
          /\ \E kind \in {"deleted", "api_error"} : WikiEnds(e, kind)
       \/ /\ UNCHANGED wikiPage
          /\ \/ wikiPage = NoPage /\ WikiEnds(e, "not_found")
             \/ WikiEnds(e, "api_error")
    /\ UNCHANGED <<revisions, wikiOp, base, misled, wrote, wikiCalls>>

WikiStep(e) == WikiCall(e) \/ WikiPreflight(e) \/ WikiGet(e) \/ WikiPut(e) \/ WikiDelete(e)

WikiNext == \E e \in Editors : WikiStep(e)

WikiSpec == WikiInit /\ [][WikiNext]_wikiVars

-----------------------------------------------------------------------------
(* Properties *)

WikiWrites(e) == wrote'[e] # wrote[e] /\ wrote'[e] # 0
WikiReplaces(e, kind) == WikiWrites(e) /\ wikiOp[e].kind = kind /\ wikiPage # NoPage

\* "`version` on `update_page` enables optimistic concurrency" (wiki.py:14): an update
\* that names a version replaces the revision its caller was shown, or a page that was
\* deleted and created again since.  create_page "refuses to overwrite" (wiki.py:12):
\* it only replaces a page that was created after its pre-flight looked.
NoBlindOverwrite ==
    [][\A e \in Editors :
          /\ WikiReplaces(e, "update") /\ wikiOp[e].locked =>
                wikiPage.rev = seen[e].rev \/ wikiPage.born > seen[e].rev
          /\ WikiReplaces(e, "create") => misled[e] \/ wikiPage.born > base[e]]_wikiVars

\* A write that is answered with a page was committed by that call, and the page is
\* its revision or a later one; no call that was refused (a conflict, a page that
\* exists already, an empty text) has written anything.
AnswersShowTheWrite ==
    \A e \in Editors : wikiStep[e] = "idle" /\ wikiOp[e].kind \in {"create", "update"} =>
        /\ reply[e] = "page" => wrote[e] # 0 /\ seen[e].rev >= wrote[e]
        /\ reply[e] \in {"exists", "invalid", "conflict"} => wrote[e] = 0
        /\ reply[e] = "not_found" => wrote[e] # 0
=============================================================================
