---------------------------- MODULE Attachments ----------------------------
(***************************************************************************)
(* upload_attachment, download_attachment and view_attachment              *)
(* (tools/attachments.py): several tool calls of one server process over   *)
(* one Redmine issue and one local directory.  A call gives way to the     *)
(* others at each request it awaits; reading and writing the local file    *)
(* are synchronous, so each happens inside the step that surrounds it.     *)
(* Bytes are abstract: Part stands for a truncated file.                   *)
(***************************************************************************)
EXTENDS Naturals, Sequences

CONSTANTS
    Callers,        \* concurrent tool calls
    Paths,          \* local paths, their directories resolved
    Leads,          \* where a path ends once its last component is resolved too
    Allowed,        \* those under Config.allowed_directories, parent present
    NameOf,         \* the last component of each path
    Contents,       \* what a file may hold
    Image, Big,     \* contents that are an image, that exceed max_bytes
    Part,           \* a truncated file
    NoFile,         \* the path does not exist
    Backoffs,       \* Len(ATTACHMENT_VERIFY_BACKOFFS)
    Requests,       \* what may be asked: op, path, toIssue, overwrite
    MaxCalls,       \* bound on the calls of one caller
    MaxEvents       \* bound on what other users do

Data == Contents \cup {Part}
\* A path whose last component is no symlink may hold a file
Files == {p \in Paths : Leads[p] = p}

ASSUME AttachmentsAssumption ==
    /\ Leads \in [Paths -> Paths] /\ \A p \in Paths : Leads[p] \in Files
    /\ Allowed \subseteq Paths
    /\ Image \subseteq Contents /\ Big \subseteq Contents
    /\ Part \notin Contents /\ NoFile \notin Data
    /\ Requests # {}
    /\ Requests \subseteq [op : {"upload", "download", "view"}, path : Paths,
                            toIssue : BOOLEAN, overwrite : BOOLEAN]
    /\ {Backoffs, MaxCalls, MaxEvents} \subseteq Nat

VARIABLES
    pc,         \* the request each caller awaits
    req,        \* what it was asked
    file,       \* the Redmine file it works on (for an upload: its token), or 0
    bytes,      \* upload: what it read; otherwise, at the start: what the path held
    sized,      \* the metadata named a size
    attempt,    \* the PUTs it has sent
    answer,     \* its last answer: kind, and the token it carries or 0
    calls,      \* the calls it has made
    disk,       \* the local files
    store,      \* Redmine: every uploaded file, its id is its index
    attached,   \* Redmine: the ids in the issue's attachments[]
    ever,       \* history: the ids that have been in it
    events      \* what other users have done

call == <<pc, req, file, bytes, sized, attempt, answer, calls>>
redmine == <<store, attached, ever>>
vars == <<call, disk, redmine, events>>

----------------------------------------------------------------------------
(***************************************************************************)
(* Helpers.                                                                *)
(***************************************************************************)
\* What the path leads to, which read_bytes, write_bytes and exists all follow.
FileAt(p) == disk[Leads[p]]

\* An upload resolves the whole path ...
IsPathAllowed(p) == FileAt(p) # NoFile /\ Leads[p] \in Allowed

\* ... a download its directory only.  A symlink that leads to nothing does not exist.
IsSavePathAllowed(p, overwrite) == p \in Allowed /\ (FileAt(p) = NoFile \/ overwrite)

NoAnswer == [kind |-> "none", token |-> 0]

\* The call of c ends with this answer.
End(c, kind, tok) ==
    /\ pc' = [pc EXCEPT ![c] = "idle"]
    /\ answer' = [answer EXCEPT ![c] = [kind |-> kind, token |-> tok]]

Goto(c, where) == pc' = [pc EXCEPT ![c] = where] /\ UNCHANGED answer

\* The durable join key of the verification is the filename.
Shown(c) == \E a \in attached : store[a].name = NameOf[Leads[req[c].path]]

\* After this many PUTs the loop is over.
PutAttempts == 1 + Backoffs

\* Redmine attaches an upload whose token is still unused.
Attach(ids) == attached' = attached \cup (ids \ ever) /\ ever' = ever \cup ids

Init ==
    /\ pc = [c \in Callers |-> "idle"]
    /\ req \in [Callers -> {CHOOSE r \in Requests : TRUE}]
    /\ file = [c \in Callers |-> 0]
    /\ bytes = [c \in Callers |-> NoFile]
    /\ sized = [c \in Callers |-> FALSE]
    /\ attempt = [c \in Callers |-> 0]
    /\ answer = [c \in Callers |-> NoAnswer]
    /\ calls = [c \in Callers |-> 0]
    /\ disk \in [Files -> Contents \cup {NoFile}]
    /\ store = <<>> /\ attached = {} /\ ever = {} /\ events = 0

----------------------------------------------------------------------------
(***************************************************************************)
(* The entry of a tool, up to its first request.                           *)
(***************************************************************************)
Accept(c, r) ==
    /\ pc[c] = "idle" /\ calls[c] < MaxCalls
    /\ calls' = [calls EXCEPT ![c] = @ + 1]
    /\ req' = [req EXCEPT ![c] = r]
    /\ attempt' = [attempt EXCEPT ![c] = 0]
    /\ sized' = [sized EXCEPT ![c] = FALSE]
    /\ UNCHANGED <<disk, redmine, events>>

\* The path check and read_bytes precede the first await.
BeginUpload(c, r) ==
    /\ r.op = "upload" /\ Accept(c, r)
    /\ file' = [file EXCEPT ![c] = 0]
    /\ bytes' = [bytes EXCEPT ![c] = FileAt(r.path)]
    /\ \/ ~IsPathAllowed(r.path) /\ End(c, "path_denied", 0)
       \/ IsPathAllowed(r.path) /\ End(c, "read_failed", 0)
       \/ IsPathAllowed(r.path) /\ Goto(c, "post")

BeginFetch(c, r, f) ==
    /\ r.op \in {"download", "view"} /\ Accept(c, r)
    /\ file' = [file EXCEPT ![c] = f]
    /\ bytes' = [bytes EXCEPT ![c] = FileAt(r.path)]
    /\ IF r.op = "view" \/ IsSavePathAllowed(r.path, r.overwrite)
       THEN Goto(c, "meta")
       ELSE End(c, "path_denied", 0)

----------------------------------------------------------------------------
(***************************************************************************)
(* upload_attachment.                                                      *)
(***************************************************************************)
\* POST /uploads.json: refused; kept by Redmine although the answer was lost
\* or had no token; or answered with the token.
Post(c) ==
    /\ pc[c] = "post"
    /\ \/ End(c, "api_error", 0) /\ UNCHANGED <<store, file>>
       \/ /\ store' = Append(store, [name |-> NameOf[Leads[req[c].path]], data |-> bytes[c]])
          /\ \/ \E kind \in {"api_error", "upload_malformed"} :
                    End(c, kind, 0) /\ UNCHANGED file
             \/ /\ file' = [file EXCEPT ![c] = Len(store')]
                /\ IF req[c].toIssue THEN Goto(c, "put")
                                     ELSE End(c, "uploaded", Len(store'))
    /\ UNCHANGED <<req, bytes, sized, attempt, calls, disk, attached, ever, events>>

\* The answer of a PUT that failed.
PutFailed(c) == End(c, "attach_failed", file[c])

\* PUT /issues/:id.json with the token, after the sleep of a retry.  Redmine
\* may drop the upload and say 200, or commit and have its answer lost.
Put(c) ==
    /\ pc[c] = "put"
    /\ attempt' = [attempt EXCEPT ![c] = @ + 1]
    /\ Attach({file[c]}) \/ UNCHANGED <<attached, ever>>
    /\ Goto(c, "verify") \/ PutFailed(c)
    /\ UNCHANGED <<req, file, bytes, sized, calls, disk, store, events>>

\* Mutant: the budget is looked at before the attachments.
VerifyTooLate(c) ==
    /\ pc[c] = "verify"
    /\ \/ End(c, "attached_unverified", file[c])
       \/ Shown(c) /\ attempt[c] < PutAttempts /\ End(c, "attached", file[c])
       \/ ~Shown(c) /\ attempt[c] < PutAttempts /\ Goto(c, "put")
       \/ attempt[c] >= PutAttempts /\ End(c, "not_attached", file[c])
    /\ UNCHANGED <<req, file, bytes, sized, attempt, calls, disk, redmine, events>>

\* The GET that verifies.  A failed GET passes for success.
Verify(c) ==
    /\ pc[c] = "verify"
    /\ \/ End(c, "attached_unverified", file[c])
       \/ Shown(c) /\ End(c, "attached", file[c])
       \/ ~Shown(c) /\ attempt[c] < PutAttempts /\ Goto(c, "put")
       \/ ~Shown(c) /\ attempt[c] >= PutAttempts /\ End(c, "not_attached", file[c])
    /\ UNCHANGED <<req, file, bytes, sized, attempt, calls, disk, redmine, events>>

----------------------------------------------------------------------------
(***************************************************************************)
(* download_attachment and view_attachment.                                *)
(***************************************************************************)
\* GET /attachments/:id.json.  The metadata may lack the size; a viewer stops
\* at what is not an image or is said to be too big.
Meta(c) ==
    /\ pc[c] = "meta"
    /\ \/ End(c, "api_error", 0) /\ UNCHANGED sized
       \/ \E known \in BOOLEAN :
            LET d == store[file[c]].data
                viewing == req[c].op = "view"
            IN  /\ sized' = [sized EXCEPT ![c] = known]
                /\ \/ viewing /\ d \notin Image /\ End(c, "not_image", 0)
                   \/ viewing /\ d \in Image \cap Big /\ known /\ End(c, "too_large", 0)
                   \/ (viewing => d \in Image /\ ~(known /\ d \in Big)) /\ Goto(c, "fetch")
    /\ UNCHANGED <<req, file, bytes, attempt, calls, disk, redmine, events>>

\* Mutant: the sizes are not compared.
MismatchUnseen(c, d) == FALSE

Mismatch(c, d) == sized[c] /\ d # store[file[c]].data

\* write_bytes to where the path leads, checked before the two requests; when the
\* write fails the file may be truncated already.
SaveTo(c, d) ==
    \/ Mismatch(c, d) /\ End(c, "size_mismatch", 0) /\ UNCHANGED disk
    \/ /\ ~Mismatch(c, d)
       /\ \/ disk' = [disk EXCEPT ![Leads[req[c].path]] = d] /\ End(c, "saved", 0)
          \/ /\ disk' \in {disk, [disk EXCEPT ![Leads[req[c].path]] = Part]}
             /\ End(c, "write_failed", 0)

\* GET /attachments/download/:id/:filename: an error, the bytes, or some of them.
Fetch(c) ==
    /\ pc[c] = "fetch"
    /\ \/ End(c, "api_error", 0) /\ UNCHANGED disk
       \/ \E d \in {store[file[c]].data, Part} :
            \/ req[c].op = "download" /\ SaveTo(c, d)
            \/ /\ req[c].op = "view" /\ UNCHANGED disk
               /\ End(c, IF d \in Big THEN "too_large" ELSE "shown", 0)
    /\ UNCHANGED <<req, file, bytes, sized, attempt, calls, redmine, events>>

----------------------------------------------------------------------------
(***************************************************************************)
(* Other users of the issue.                                               *)
(***************************************************************************)
OtherAttaches ==
    /\ events < MaxEvents /\ events' = events + 1
    /\ \E p \in Files, d \in Contents :
           store' = Append(store, [name |-> NameOf[p], data |-> d])
    /\ Attach({Len(store')})
    /\ UNCHANGED <<call, disk>>

OtherDeletes ==
    /\ events < MaxEvents /\ events' = events + 1
    /\ \E a \in attached : attached' = attached \ {a}
    /\ UNCHANGED <<call, disk, store, ever>>

Step(c) == Post(c) \/ Put(c) \/ Verify(c) \/ Meta(c) \/ Fetch(c)

Next ==
    \/ \E c \in Callers, r \in Requests : BeginUpload(c, r)
    \/ \E c \in Callers, r \in Requests, f \in DOMAIN store : BeginFetch(c, r, f)
    \/ \E c \in Callers : Step(c)
    \/ OtherAttaches \/ OtherDeletes

Spec == Init /\ [][Next]_vars

----------------------------------------------------------------------------
(***************************************************************************)
(* Properties.                                                             *)
(***************************************************************************)

\* What an upload says of its attachment is true.  After "attached" the issue has, or
\* had, an attachment of that name (whether it is this upload the code cannot tell: an
\* older attachment of the name looks the same).  attachment_not_attached, after all
\* the PUTs, has left none behind: attaching it again makes no duplicate.
AttachAnswerIsTrue ==
    \A c \in Callers :
        /\ answer[c].kind = "attached" =>
             \E a \in ever : store[a].name = store[answer[c].token].name
        /\ answer[c].kind = "not_attached" => answer[c].token \notin attached

\* The step that may change the local file that c's path leads to.
Overwrites(c) == pc[c] = "fetch" /\ pc'[c] = "idle" /\ req[c].op = "download"

\* A local file changes only where a path that a download may write to leads, and not,
\* without overwrite, if it was there when the download was asked for, whatever happens
\* during its two requests.  Afterwards it holds the whole attachment, unless the write
\* failed or Redmine named no size.
LocalFilesAreSafe ==
    [][\A f \in Files : disk'[f] # disk[f] =>
        \E c \in Callers :
            /\ Overwrites(c) /\ Leads[req[c].path] = f /\ req[c].path \in Allowed
            /\ ~req[c].overwrite => bytes[c] = NoFile
            /\ \/ answer'[c].kind = "write_failed"
               \/ answer'[c].kind = "saved" /\ (sized[c] => disk'[f] = store[file[c]].data)]_vars

\* "The check resolves symlinks before comparing ... rejected on read AND write"
\* (attachments.py:24-26): the file that a download writes is itself in the allowlist.
WritesStayAllowed == [][\A f \in Files \ Allowed : disk'[f] = disk[f]]_vars
=============================================================================
