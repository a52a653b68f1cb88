------------------------------- MODULE Writes -------------------------------
(***************************************************************************)
(* One tool that writes at a time: file transfers, edits of a wiki page,   *)
(* the custom fields of an issue, a copy of one, relations between issues, *)
(* time entries, or bare requests.                                         *)
(* They share no state in the server, so any one of them runs.             *)
(***************************************************************************)
EXTENDS Attachments, Wiki, IssueFields, CopyIssue, Relations, TimeEntries, ClientRetry

VARIABLE writer     \* which of them

writesVars ==
    <<writer, vars, wikiVars, fieldVars, copyVars, linkVars, timeVars, retryVars>>

\* Those that do not run stay in one of their initial states.
NoTransfer == Init /\ disk = [f \in Files |-> NoFile]
NoEditing == WikiInit /\ wikiPage = NoPage
NoFields ==
    /\ asked = (CHOOSE c \in FieldCalls : TRUE) /\ had = (CHOOSE h \in Had : TRUE)
    /\ defined = TRUE /\ FieldsInit

NoCopying ==
    /\ option = (CHOOSE o \in Options : TRUE) /\ children = (CHOOSE f \in Forests : TRUE)
    /\ CopyInit
NoLinking == edges = (CHOOSE g \in Graphs : TRUE) /\ LinkInit
NoLogging ==
    /\ timeCall = (CHOOSE t \in TimeCalls : TRUE)
    /\ activities = (CHOOSE t \in Activities : TRUE) /\ TimeInit

WritesInit ==
    /\ writer \in {"attachments", "wiki", "fields", "copy", "relations", "time", "client"}
    /\ IF writer = "attachments" THEN Init ELSE NoTransfer
    /\ IF writer = "wiki" THEN WikiInit ELSE NoEditing
    /\ IF writer = "fields" THEN FieldsInit ELSE NoFields
    /\ IF writer = "copy" THEN CopyInit ELSE NoCopying
    /\ IF writer = "relations" THEN LinkInit ELSE NoLinking
    /\ IF writer = "time" THEN TimeInit ELSE NoLogging
    /\ RetryInit

WritesNext ==
    /\ UNCHANGED writer
    /\ \/ /\ writer = "attachments" /\ Next
          /\ UNCHANGED <<wikiVars, fieldVars, copyVars, linkVars, timeVars, retryVars>>
       \/ /\ writer = "wiki" /\ WikiNext
          /\ UNCHANGED <<vars, fieldVars, copyVars, linkVars, timeVars, retryVars>>
       \/ /\ writer = "fields" /\ FieldsNext
          /\ UNCHANGED <<vars, wikiVars, copyVars, linkVars, timeVars, retryVars>>
       \/ /\ writer = "copy" /\ CopyNext
          /\ UNCHANGED <<vars, wikiVars, fieldVars, linkVars, timeVars, retryVars>>
       \/ /\ writer = "relations" /\ LinkNext
          /\ UNCHANGED <<vars, wikiVars, fieldVars, copyVars, timeVars, retryVars>>
       \/ /\ writer = "time" /\ TimeNext
          /\ UNCHANGED <<vars, wikiVars, fieldVars, copyVars, linkVars, retryVars>>
       \/ /\ writer = "client" /\ RetryNext
          /\ UNCHANGED <<vars, wikiVars, fieldVars, copyVars, linkVars, timeVars>>

WritesSpec == WritesInit /\ [][WritesNext]_writesVars
=============================================================================
