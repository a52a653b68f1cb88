---------------------------- MODULE TransferProofs ----------------------------
(***************************************************************************)
(* Proofs about file transfers and about the requests they are made of.    *)
(* For any callers, paths, contents and retry budget: what an upload says  *)
(* of its attachment is true, a download spares the files it may not       *)
(* write, _request never duplicates a write and reports an outcome it has  *)
(* earned, and what copy_issue makes mirrors the tree it read, for any     *)
(* forest and any failures.                                                *)
(***************************************************************************)
EXTENDS Attachments, ClientRetry, CopyIssue, SequenceTheorems, TLAPS

-----------------------------------------------------------------------------
(* Uploads *)

AnswerKinds == {"none", "path_denied", "read_failed", "api_error", "upload_malformed", "uploaded",
          "attach_failed", "attached_unverified", "attached", "not_attached", "not_image",
          "too_large", "size_mismatch", "saved", "write_failed", "shown"}

\* The types that the arguments about files need.
TransferTypes ==
    /\ pc \in [Callers -> {"idle", "post", "put", "verify", "meta", "fetch"}]
    /\ req \in [Callers -> Requests]
    /\ file \in [Callers -> Nat]
    /\ bytes \in [Callers -> Data \cup {NoFile}]
    /\ attempt \in [Callers -> Nat]
    /\ answer \in [Callers -> [kind : AnswerKinds, token : Nat]]
    /\ store \in Seq([name : {NameOf[p] : p \in Paths}, data : Data])
    /\ attached \subseteq ever /\ ever \subseteq 1 .. Len(store)
    /\ disk \in [Files -> Data \cup {NoFile}]

\* What a call found at its start still holds of it: an upload has read a file, a
\* download has been allowed its path.
SourceInv ==
    \A c \in Callers :
        /\ pc[c] = "post" => bytes[c] \in Data
        /\ pc[c] \in {"meta", "fetch"} => file[c] \in 1 .. Len(store)
        /\ pc[c] \in {"meta", "fetch"} /\ req[c].op = "download" =>
              req[c].path \in Allowed /\ (~req[c].overwrite => bytes[c] = NoFile)

InFlight(c) == pc[c] \in {"put", "verify"}

\* A token belongs to one upload, and an answer that names it is the last word on it.
TokenInv ==
    /\ \A c \in Callers : InFlight(c) =>
        /\ file[c] \in 1 .. Len(store) /\ store[file[c]].name = NameOf[Leads[req[c].path]]
        /\ \A d \in Callers \ {c} : InFlight(d) => file[d] # file[c]
    /\ \A c \in Callers : answer[c].kind = "attached" =>
        /\ answer[c].token \in 1 .. Len(store)
        /\ \E a \in ever : store[a].name = store[answer[c].token].name
    /\ \A c \in Callers : answer[c].kind = "not_attached" =>
        /\ answer[c].token \in 1 .. Len(store) /\ answer[c].token \notin attached
        /\ \A d \in Callers : InFlight(d) => file[d] # answer[c].token

AttachInv == TransferTypes /\ SourceInv /\ TokenInv

\* What a call's end, or its next request, does to the types.
LEMMA EndTypes ==
    ASSUME TransferTypes, NEW c \in Callers, NEW kind \in AnswerKinds, NEW tok \in Nat,
           End(c, kind, tok)
    PROVE  /\ pc' \in [Callers -> {"idle", "post", "put", "verify", "meta", "fetch"}]
           /\ answer' \in [Callers -> [kind : AnswerKinds, token : Nat]]
           /\ pc'[c] = "idle" /\ answer'[c].kind = kind /\ answer'[c].token = tok
           /\ \A d \in Callers \ {c} : UNCHANGED <<pc[d], answer[d]>>
<1>1. [kind |-> kind, token |-> tok] \in [kind : AnswerKinds, token : Nat]
  OBVIOUS
<1> QED
  BY <1>1 DEF End, TransferTypes

LEMMA GotoTypes ==
    ASSUME TransferTypes, NEW c \in Callers,
           NEW where \in {"post", "put", "verify", "meta", "fetch"}, Goto(c, where)
    PROVE  /\ pc' \in [Callers -> {"idle", "post", "put", "verify", "meta", "fetch"}]
           /\ answer' \in [Callers -> [kind : AnswerKinds, token : Nat]]
           /\ pc'[c] = where /\ answer' = answer
           /\ \A d \in Callers \ {c} : UNCHANGED pc[d]
BY DEF Goto, TransferTypes

LEMMA AppendFacts ==
    ASSUME NEW S, NEW s \in Seq(S), NEW x \in S
    PROVE  /\ Append(s, x) \in Seq(S) /\ Len(s) \in Nat /\ Len(Append(s, x)) = Len(s) + 1
           /\ \A i \in 1 .. Len(s) : Append(s, x)[i] = s[i]
           /\ Append(s, x)[Len(s) + 1] = x
OBVIOUS

LEMMA ElementType == ASSUME NEW S, NEW s \in Seq(S), NEW i \in 1 .. Len(s) PROVE s[i] \in S
OBVIOUS

LEMMA AttachInit == Init => AttachInv
<1> SUFFICES ASSUME Init PROVE AttachInv
  OBVIOUS
<1>1. (CHOOSE r \in Requests : TRUE) \in Requests
  BY AttachmentsAssumption
<1>2. req \in [Callers -> Requests] /\ store \in Seq([name : {NameOf[p] : p \in Paths}, data : Data])
  BY <1>1 DEF Init
<1>3. answer \in [Callers -> [kind : AnswerKinds, token : Nat]]
  BY DEF Init, NoAnswer, AnswerKinds
<1>4. /\ pc \in [Callers -> {"idle", "post", "put", "verify", "meta", "fetch"}]
      /\ file \in [Callers -> Nat] /\ attempt \in [Callers -> Nat]
      /\ bytes \in [Callers -> Data \cup {NoFile}]
  BY DEF Init
<1>5. disk \in [Files -> Data \cup {NoFile}]
  BY DEF Init, Data
<1> QED
  BY <1>2, <1>3, <1>4, <1>5
     DEF Init, AttachInv, TransferTypes, SourceInv, TokenInv, InFlight, NoAnswer

\* A step of c that touches nothing in Redmine, brings no upload to its PUT and
\* gives no answer about an attachment.
LEMMA PlainStep ==
    ASSUME AttachInv, NEW c \in Callers, TransferTypes',
           UNCHANGED redmine,
           \A d \in Callers \ {c} : UNCHANGED <<pc[d], req[d], file[d], answer[d]>>,
           InFlight(c)' => InFlight(c) /\ UNCHANGED <<req[c], file[c]>>,
           answer'[c] = answer[c] \/ answer'[c].kind \notin {"attached", "not_attached"}
    PROVE  TokenInv'
BY DEF AttachInv, TokenInv, InFlight, redmine

\* The start of a call, up to its first request.
LEMMA BeginSteps ==
    ASSUME AttachInv, NEW c \in Callers, NEW r \in Requests,
           BeginUpload(c, r) \/ \E f \in DOMAIN store : BeginFetch(c, r, f)
    PROVE  AttachInv'
<1>1. r.path \in Paths /\ Leads[r.path] \in Files
  BY AttachmentsAssumption
<1>8. FileAt(r.path) \in Data \cup {NoFile}
  BY <1>1 DEF FileAt, AttachInv, TransferTypes
<1>2. PICK f \in Nat : file' = [file EXCEPT ![c] = f] /\ (pc'[c] = "meta" => f \in 1 .. Len(store))
  BY DEF BeginUpload, BeginFetch, End, Goto, AttachInv, TransferTypes
<1>3. /\ req' = [req EXCEPT ![c] = r] /\ bytes' = [bytes EXCEPT ![c] = FileAt(r.path)]
      /\ attempt' = [attempt EXCEPT ![c] = 0] /\ UNCHANGED <<disk, redmine>>
  BY DEF BeginUpload, BeginFetch, Accept
<1>4. \/ End(c, "path_denied", 0) \/ End(c, "read_failed", 0)
      \/ Goto(c, "post") /\ FileAt(r.path) # NoFile
      \/ Goto(c, "meta") /\ (r.op = "download" => IsSavePathAllowed(r.path, r.overwrite))
  BY DEF BeginUpload, BeginFetch, IsPathAllowed
<1>5. TransferTypes'
  <2>1. file' \in [Callers -> Nat] /\ req' \in [Callers -> Requests]
        /\ bytes' \in [Callers -> Data \cup {NoFile}] /\ attempt' \in [Callers -> Nat]
    BY <1>2, <1>3, <1>8 DEF AttachInv, TransferTypes
  <2>2. /\ pc' \in [Callers -> {"idle", "post", "put", "verify", "meta", "fetch"}]
        /\ answer' \in [Callers -> [kind : AnswerKinds, token : Nat]]
    BY <1>4, EndTypes, GotoTypes DEF AttachInv, AnswerKinds
  <2> QED
    BY <1>3, <2>1, <2>2 DEF redmine, AttachInv, TransferTypes
<1>6. TokenInv'
  <2>1. /\ pc'[c] \in {"idle", "post", "meta"}
        /\ answer'[c] = answer[c] \/ answer'[c].kind \notin {"attached", "not_attached"}
        /\ \A d \in Callers \ {c} : UNCHANGED <<pc[d], answer[d]>>
    BY <1>4, EndTypes, GotoTypes DEF AttachInv, AnswerKinds
  <2>2. \A d \in Callers \ {c} : UNCHANGED <<req[d], file[d]>>
    BY <1>2, <1>3 DEF AttachInv, TransferTypes
  <2> QED
    BY <1>3, <1>5, <2>1, <2>2, PlainStep DEF InFlight
<1>7. SourceInv'
  BY <1>1, <1>2, <1>3, <1>4, <1>8
     DEF End, Goto, IsSavePathAllowed, redmine, AttachInv, TransferTypes, SourceInv
<1> QED
  BY <1>5, <1>6, <1>7 DEF AttachInv

\* What a file is, and its bytes.
LEMMA FetchSteps ==
    ASSUME AttachInv, NEW c \in Callers, Meta(c) \/ Fetch(c)
    PROVE  AttachInv'
<1>1. UNCHANGED <<req, file, bytes, attempt, redmine>> /\ pc[c] \in {"meta", "fetch"}
  BY DEF Meta, Fetch
<1>2. \/ Goto(c, "fetch")
      \/ \E kind \in {"api_error", "not_image", "too_large", "size_mismatch", "saved",
                      "write_failed", "shown"} : End(c, kind, 0)
  BY DEF Meta, Fetch, SaveTo
<1>3. disk' \in [Files -> Data \cup {NoFile}]
  <2>1. CASE Meta(c)
    BY <2>1 DEF Meta, AttachInv, TransferTypes
  <2>2. CASE Fetch(c)
    <3>1. store[file[c]] \in [name : {NameOf[p] : p \in Paths}, data : Data]
      <4>1. file[c] \in 1 .. Len(store)
        BY <1>1 DEF AttachInv, SourceInv
      <4>2. store \in Seq([name : {NameOf[p] : p \in Paths}, data : Data])
        BY DEF AttachInv, TransferTypes
      <4> QED
        BY <4>1, <4>2, ElementType
    <3>2. disk' = disk \/ \E d \in {store[file[c]].data, Part} :
                              disk' = [disk EXCEPT ![Leads[req[c].path]] = d]
      BY <2>2 DEF Fetch, SaveTo
    <3> QED
      BY <3>1, <3>2 DEF AttachInv, TransferTypes, Data
  <2> QED
    BY <2>1, <2>2
<1>4. TransferTypes'
  <2>1. /\ pc' \in [Callers -> {"idle", "post", "put", "verify", "meta", "fetch"}]
        /\ answer' \in [Callers -> [kind : AnswerKinds, token : Nat]]
    BY <1>2, EndTypes, GotoTypes DEF AttachInv, AnswerKinds
  <2> QED
    BY <1>1, <1>3, <2>1 DEF redmine, AttachInv, TransferTypes
<1>5. TokenInv'
  <2>1. /\ pc'[c] \in {"idle", "fetch"}
        /\ answer'[c] = answer[c] \/ answer'[c].kind \notin {"attached", "not_attached"}
        /\ \A d \in Callers \ {c} : UNCHANGED <<pc[d], answer[d]>>
    BY <1>2, EndTypes, GotoTypes DEF AttachInv, AnswerKinds
  <2> QED
    BY <1>1, <1>4, <2>1, PlainStep DEF InFlight
<1>6. SourceInv'
  BY <1>1, <1>2 DEF End, Goto, redmine, AttachInv, TransferTypes, SourceInv
<1> QED
  BY <1>4, <1>5, <1>6 DEF AttachInv

\* The bytes are sent; Redmine may keep them under a new token.
LEMMA PostStep == ASSUME AttachInv, NEW c \in Callers, Post(c) PROVE AttachInv'
<1>1. UNCHANGED <<req, bytes, attempt, disk, attached, ever>> /\ pc[c] = "post"
  BY DEF Post
<1> DEFINE Sent == [name |-> NameOf[Leads[req[c].path]], data |-> bytes[c]]
<1>2. Sent \in [name : {NameOf[p] : p \in Paths}, data : Data]
  BY <1>1, AttachmentsAssumption DEF AttachInv, TransferTypes, SourceInv
<1> HIDE DEF Sent
<1>3. CASE End(c, "api_error", 0) /\ UNCHANGED <<store, file>>
  <2>1. TransferTypes'
    BY <1>1, <1>3 DEF End, AttachInv, TransferTypes, AnswerKinds
  <2>2. TokenInv'
    BY <1>1, <1>3, <2>1, PlainStep DEF End, AttachInv, TransferTypes, InFlight, redmine
  <2>3. SourceInv'
    BY <1>1, <1>3 DEF End, AttachInv, TransferTypes, SourceInv
  <2> QED
    BY <2>1, <2>2, <2>3 DEF AttachInv
<1>4. ASSUME store' = Append(store, Sent),
             \/ UNCHANGED file /\ \E kind \in {"api_error", "upload_malformed"} : End(c, kind, 0)
             \/ /\ file' = [file EXCEPT ![c] = Len(store')]
                /\ Goto(c, "put") \/ End(c, "uploaded", Len(store'))
      PROVE  AttachInv'
  <2>1. /\ store' \in Seq([name : {NameOf[p] : p \in Paths}, data : Data])
        /\ Len(store) \in Nat /\ Len(store') = Len(store) + 1
        /\ \A i \in 1 .. Len(store) : store'[i] = store[i]
        /\ store'[Len(store) + 1] = Sent
    BY <1>2, <1>4, AppendFacts DEF AttachInv, TransferTypes
  <2>2. TransferTypes'
    <3>1. /\ pc' \in [Callers -> {"idle", "post", "put", "verify", "meta", "fetch"}]
          /\ answer' \in [Callers -> [kind : AnswerKinds, token : Nat]]
      BY <1>4, <2>1, EndTypes, GotoTypes DEF AttachInv, AnswerKinds
    <3>2. file' \in [Callers -> Nat]
      <4>1. file \in [Callers -> Nat] /\ Len(store') \in Nat
        BY <2>1 DEF AttachInv, TransferTypes
      <4> QED
        BY <1>4, <4>1
    <3>3. ever \subseteq 1 .. Len(store')
      BY <2>1 DEF AttachInv, TransferTypes
    <3> QED
      BY <1>1, <2>1, <3>1, <3>2, <3>3 DEF AttachInv, TransferTypes
  <2>3. \A d \in Callers \ {c} : UNCHANGED <<pc[d], req[d], file[d], answer[d]>>
    BY <1>1, <1>4 DEF End, Goto, AttachInv, TransferTypes
  <2>4. /\ InFlight(c)' => file'[c] = Len(store) + 1 /\ req'[c] = req[c]
        /\ answer'[c] = answer[c] \/ answer'[c].kind \notin {"attached", "not_attached"}
    BY <1>1, <1>4, <2>1 DEF End, Goto, AttachInv, TransferTypes, InFlight
  <2>5. ever \subseteq 1 .. Len(store) /\ UNCHANGED <<attached, ever>>
    BY <1>1 DEF AttachInv, TransferTypes
  <2>6. TokenInv'
    <3>1. ASSUME NEW d \in Callers, InFlight(d)'
          PROVE  /\ file'[d] \in 1 .. Len(store') /\ store'[file'[d]].name = NameOf[Leads[req'[d].path]]
                 /\ \A e \in Callers \ {d} : InFlight(e)' => file'[e] # file'[d]
                 /\ \A e \in Callers : answer'[e].kind = "not_attached"
                                       => file'[d] # answer'[e].token
      <4>1. CASE d = c
        <5>1. \A e \in Callers \ {c} : InFlight(e)' => file'[e] \in 1 .. Len(store)
          BY <2>3 DEF AttachInv, TokenInv, InFlight
        <5>2. \A e \in Callers : answer'[e].kind = "not_attached"
                                 => answer'[e].token \in 1 .. Len(store)
          BY <2>3, <2>4 DEF AttachInv, TokenInv
        <5> QED
          BY <2>1, <2>4, <3>1, <4>1, <5>1, <5>2 DEF Sent
      <4>2. CASE d # c
        <5>1. InFlight(d) /\ file[d] \in 1 .. Len(store)
              /\ store[file[d]].name = NameOf[Leads[req[d].path]] /\ UNCHANGED <<req[d], file[d]>>
          BY <2>3, <3>1, <4>2 DEF AttachInv, TokenInv, InFlight
        <5>2. \A e \in Callers \ {c, d} : InFlight(e)' => file'[e] # file'[d]
          BY <2>3, <4>2, <5>1 DEF AttachInv, TokenInv, InFlight
        <5>3. InFlight(c)' => file'[c] # file'[d]
          BY <2>1, <2>4, <5>1
        <5>4. \A e \in Callers : answer'[e].kind = "not_attached" => file'[d] # answer'[e].token
          BY <2>3, <2>4, <5>1 DEF AttachInv, TokenInv
        <5> QED
          BY <2>1, <5>1, <5>2, <5>3, <5>4
      <4> QED
        BY <4>1, <4>2
    <3>2. ASSUME NEW d \in Callers, answer'[d].kind = "attached"
          PROVE  /\ answer'[d].token \in 1 .. Len(store')
                 /\ \E a \in ever' : store'[a].name = store'[answer'[d].token].name
      BY <2>1, <2>3, <2>4, <2>5, <3>2 DEF AttachInv, TokenInv
    <3>3. ASSUME NEW d \in Callers, answer'[d].kind = "not_attached"
          PROVE  answer'[d].token \in 1 .. Len(store') /\ answer'[d].token \notin attached'
      BY <2>1, <2>3, <2>4, <2>5, <3>3 DEF AttachInv, TokenInv
    <3> QED
      BY <3>1, <3>2, <3>3 DEF TokenInv
  <2>7. SourceInv'
    BY <1>1, <1>4, <2>1, <2>3 DEF End, Goto, AttachInv, TransferTypes, SourceInv
  <2> QED
    BY <2>2, <2>6, <2>7 DEF AttachInv
<1> QED
  BY <1>3, <1>4 DEF Post, Sent

\* An upload is attached, or dropped.
LEMMA UploadPutStep == ASSUME AttachInv, NEW c \in Callers, Put(c) PROVE AttachInv'
<1>1. /\ UNCHANGED <<req, file, bytes, disk, store>> /\ pc[c] = "put"
      /\ attempt' = [attempt EXCEPT ![c] = @ + 1]
      /\ Goto(c, "verify") \/ End(c, "attach_failed", file[c])
  BY DEF Put, PutFailed
<1>2. file[c] \in 1 .. Len(store)
  BY <1>1 DEF AttachInv, TokenInv, InFlight
<1>3. /\ attached \subseteq attached' \cup attached /\ attached' \subseteq attached \cup {file[c]}
      /\ ever \subseteq ever' /\ ever' \subseteq ever \cup {file[c]} /\ attached' \subseteq ever'
  BY DEF Put, Attach, AttachInv, TransferTypes
<1>4. TransferTypes'
  <2>1. /\ pc' \in [Callers -> {"idle", "post", "put", "verify", "meta", "fetch"}]
        /\ answer' \in [Callers -> [kind : AnswerKinds, token : Nat]] /\ attempt' \in [Callers -> Nat]
    BY <1>1, <1>2, EndTypes, GotoTypes DEF AttachInv, TransferTypes, AnswerKinds
  <2> QED
    BY <1>1, <1>2, <1>3, <2>1 DEF AttachInv, TransferTypes
<1>5. /\ \A d \in Callers : InFlight(d)' => InFlight(d)
      /\ \A d \in Callers : answer'[d] = answer[d] \/ answer'[d].kind = "attach_failed"
  BY <1>1 DEF End, Goto, AttachInv, TransferTypes, InFlight
<1>6. \A d \in Callers : answer[d].kind = "not_attached" => answer[d].token # file[c]
  BY <1>1 DEF AttachInv, TokenInv, InFlight
<1>7. TokenInv'
  BY <1>1, <1>3, <1>5, <1>6 DEF AttachInv, TokenInv
<1>8. SourceInv'
  BY <1>1 DEF End, Goto, AttachInv, TransferTypes, SourceInv
<1> QED
  BY <1>4, <1>7, <1>8 DEF AttachInv

\* The attachments are looked at: the upload's name is among them, or is not.
LEMMA VerifyStep == ASSUME AttachInv, NEW c \in Callers, Verify(c) PROVE AttachInv'
<1>1. UNCHANGED <<req, file, bytes, attempt, disk, redmine>> /\ pc[c] = "verify"
  BY DEF Verify
<1>2. PICK kind \in {"attached_unverified", "attached", "not_attached", "none"} :
        /\ kind = "none" => Goto(c, "put")
        /\ kind # "none" => End(c, kind, file[c])
        /\ kind = "attached" => Shown(c)
        /\ kind = "not_attached" => ~Shown(c)
  BY DEF Verify
<1>3. /\ file[c] \in 1 .. Len(store) /\ store[file[c]].name = NameOf[Leads[req[c].path]]
      /\ \A d \in Callers \ {c} : InFlight(d) => file[d] # file[c]
      /\ attached \subseteq ever
  BY <1>1 DEF AttachInv, TransferTypes, TokenInv, InFlight
<1>4. TransferTypes'
  <2>1. /\ pc' \in [Callers -> {"idle", "post", "put", "verify", "meta", "fetch"}]
        /\ answer' \in [Callers -> [kind : AnswerKinds, token : Nat]]
    BY <1>2, <1>3, EndTypes, GotoTypes DEF AttachInv, AnswerKinds
  <2> QED
    BY <1>1, <2>1 DEF redmine, AttachInv, TransferTypes
<1>5. /\ \A d \in Callers : InFlight(d)' => InFlight(d)
      /\ \A d \in Callers \ {c} : answer'[d] = answer[d]
      /\ kind = "none" => answer' = answer
      /\ kind # "none" => ~InFlight(c)' /\ answer'[c] = [kind |-> kind, token |-> file[c]]
  BY <1>1, <1>2 DEF End, Goto, AttachInv, TransferTypes, InFlight
<1>6. TokenInv'
  <2>1. CASE kind = "none"
    BY <1>1, <1>5, <2>1 DEF redmine, AttachInv, TokenInv
  <2>2. CASE kind = "attached_unverified"
    BY <1>1, <1>5, <2>2 DEF redmine, AttachInv, TokenInv
  <2>3. CASE kind = "attached"
    <3>1. \E a \in ever : store[a].name = store[file[c]].name
      BY <1>2, <1>3, <2>3 DEF Shown
    <3> QED
      BY <1>1, <1>3, <1>5, <2>3, <3>1 DEF redmine, AttachInv, TokenInv
  <2>4. CASE kind = "not_attached"
    <3>1. file[c] \notin attached
      BY <1>2, <1>3, <2>4 DEF Shown
    <3> QED
      BY <1>1, <1>3, <1>5, <2>4, <3>1 DEF redmine, AttachInv, TokenInv
  <2> QED
    BY <2>1, <2>2, <2>3, <2>4
<1>7. SourceInv'
  BY <1>1, <1>2 DEF End, Goto, redmine, AttachInv, TransferTypes, SourceInv
<1> QED
  BY <1>4, <1>6, <1>7 DEF AttachInv

\* Other users attach files of their own, and take attachments away.
LEMMA OthersSteps == ASSUME AttachInv, OtherAttaches \/ OtherDeletes PROVE AttachInv'
<1> USE DEF call
<1>1. CASE OtherAttaches
  <2>1. PICK p \in Files, d \in Contents : store' = Append(store, [name |-> NameOf[p], data |-> d])
    BY <1>1 DEF OtherAttaches
  <2>2. [name |-> NameOf[p], data |-> d] \in [name : {NameOf[q] : q \in Paths}, data : Data]
    BY DEF Data, Files
  <2>3. /\ store' \in Seq([name : {NameOf[q] : q \in Paths}, data : Data])
        /\ Len(store) \in Nat /\ Len(store') = Len(store) + 1
        /\ \A i \in 1 .. Len(store) : store'[i] = store[i]
    BY <2>1, <2>2, AppendFacts DEF AttachInv, TransferTypes
  <2>4. /\ attached' = attached \cup ({Len(store')} \ ever) /\ ever' = ever \cup {Len(store')}
        /\ UNCHANGED <<pc, req, file, bytes, attempt, answer, disk>>
    BY <1>1 DEF OtherAttaches, Attach
  <2>5. TransferTypes'
    <3>1. attached' \subseteq ever' /\ ever' \subseteq 1 .. Len(store')
      <4>1. attached \subseteq ever /\ ever \subseteq 1 .. Len(store)
        BY DEF AttachInv, TransferTypes
      <4>2. Len(store') \in 1 .. Len(store') /\ 1 .. Len(store) \subseteq 1 .. Len(store')
        BY <2>3
      <4> QED
        BY <2>4, <4>1, <4>2
    <3> QED
      BY <2>3, <2>4, <3>1 DEF AttachInv, TransferTypes
  <2>6. SourceInv'
    BY <2>3, <2>4 DEF AttachInv, SourceInv
  <2>7. TokenInv'
    <3>1. \A a \in ever : a \in 1 .. Len(store)
      BY DEF AttachInv, TransferTypes
    <3> QED
      BY <2>3, <2>4, <3>1 DEF AttachInv, TokenInv, InFlight
  <2> QED
    BY <2>5, <2>6, <2>7 DEF AttachInv
<1>2. CASE OtherDeletes
  BY <1>2 DEF OtherDeletes, AttachInv, TransferTypes, SourceInv, TokenInv, InFlight
<1> QED
  BY <1>1, <1>2

\* The invariant holds of every behaviour of the three tools.
THEOREM TransferInvariance == Spec => []AttachInv
<1>1. AttachInv /\ [Next]_vars => AttachInv'
  <2> SUFFICES ASSUME AttachInv, [Next]_vars PROVE AttachInv'
    OBVIOUS
  <2>1. CASE UNCHANGED vars
    BY <2>1 DEF vars, call, redmine, AttachInv, TransferTypes, SourceInv, TokenInv, InFlight
  <2> QED
    BY <2>1, BeginSteps, FetchSteps, PostStep, UploadPutStep, VerifyStep, OthersSteps DEF Next, Step
<1> QED
  BY <1>1, AttachInit, PTL DEF Spec

\* "attached" has an attachment of that name behind it, "not_attached" has not.
THEOREM UploadsAreTruthful == Spec => []AttachAnswerIsTrue
<1>1. AttachInv => AttachAnswerIsTrue
  BY DEF AttachInv, TokenInv, AttachAnswerIsTrue
<1> QED
  BY <1>1, TransferInvariance, PTL

\* A file changes only by a download that was allowed its path, at the end of that path,
\* and only whole.
THEOREM DownloadsSpareFiles == Spec => LocalFilesAreSafe
<1> DEFINE Safe ==
      \A f \in Files : disk'[f] # disk[f] =>
        \E c \in Callers :
            /\ Overwrites(c) /\ Leads[req[c].path] = f /\ req[c].path \in Allowed
            /\ ~req[c].overwrite => bytes[c] = NoFile
            /\ \/ answer'[c].kind = "write_failed"
               \/ answer'[c].kind = "saved" /\ (sized[c] => disk'[f] = store[file[c]].data)
<1>1. AttachInv /\ [Next]_vars => [Safe]_vars
  <2> SUFFICES ASSUME AttachInv, Next, NEW f \in Files, disk'[f] # disk[f]
               PROVE  \E c \in Callers :
                        /\ Overwrites(c) /\ Leads[req[c].path] = f
                        /\ req[c].path \in Allowed /\ (~req[c].overwrite => bytes[c] = NoFile)
                        /\ \/ answer'[c].kind = "write_failed"
                           \/ /\ answer'[c].kind = "saved"
                              /\ sized[c] => disk'[f] = store[file[c]].data
    OBVIOUS
  <2>1. PICK c \in Callers : Fetch(c)
    BY DEF Next, BeginUpload, BeginFetch, Accept, Step, Post, Put, Verify, Meta, OtherAttaches,
       OtherDeletes
  <2>2. PICK d \in {store[file[c]].data, Part} :
            /\ req[c].op = "download" /\ ~Mismatch(c, d) /\ pc[c] = "fetch"
            /\ \/ disk' = [disk EXCEPT ![Leads[req[c].path]] = d] /\ End(c, "saved", 0)
               \/ disk' = [disk EXCEPT ![Leads[req[c].path]] = Part] /\ End(c, "write_failed", 0)
    BY <2>1 DEF Fetch, SaveTo
  <2>3. Leads[req[c].path] = f
    BY <2>2 DEF AttachInv, TransferTypes
  <2>4. Overwrites(c)
    BY <2>2 DEF End, Overwrites, AttachInv, TransferTypes
  <2>5. req[c].path \in Allowed /\ (~req[c].overwrite => bytes[c] = NoFile)
    BY <2>2 DEF AttachInv, SourceInv
  <2>6. \/ answer'[c].kind = "write_failed"
        \/ answer'[c].kind = "saved" /\ disk'[f] = d
    BY <2>2, <2>3 DEF End, AttachInv, TransferTypes
  <2> QED
    BY <2>2, <2>3, <2>4, <2>5, <2>6 DEF Mismatch
<1> QED
  BY <1>1, TransferInvariance, PTL DEF Spec, LocalFilesAreSafe

-----------------------------------------------------------------------------
(* Requests *)

\* The types the argument needs (waited plays no part in it).
SendTypes ==
    /\ reqPc \in [Reqs -> {"send", "sleep", "ok", "error"}]
    /\ tries \in [Reqs -> 0..MaxRetries]
    /\ lastAnswer \in [Reqs -> Answers]
    /\ executed \in [Reqs -> Nat]

\* A write never sleeps, so until it ends the server has not acted on it; a
\* sleeping request has an attempt left.
RetryInv ==
    /\ SendTypes
    /\ NoDuplicateWrite
    /\ OutcomeIsEarned
    /\ \A r \in Reqs :
        /\ ~Idempotent(r) => reqPc[r] # "sleep" /\ (reqPc[r] = "send" => executed[r] = 0)
        /\ reqPc[r] = "sleep" => tries[r] < MaxRetries

\* Every method is retried or is a write.
LEMMA WritesAreNotRetried == \A r \in Reqs : Method[r] \in Writes <=> ~Idempotent(r)
BY RetryAssumption DEF Methods, Writes, Idempotent

\* One attempt, and all that its answer can lead to.
LEMMA SendInv == ASSUME RetryInv, NEW r \in Reqs, SendAttempt(r) PROVE RetryInv'
<1> USE RetryAssumption
<1>1. PICK a \in Answers \ {"none"} :
          /\ lastAnswer' = [lastAnswer EXCEPT ![r] = a]
          /\ \E n \in MayExecute(a) : executed' = [executed EXCEPT ![r] = @ + n]
          /\ IF Retryable(a) /\ MayRetry(r)
             THEN reqPc' = [reqPc EXCEPT ![r] = "sleep"]
             ELSE reqPc' = [reqPc EXCEPT ![r] = IF a = "success" THEN "ok" ELSE "error"]
  BY DEF SendAttempt
<1>2. PICK n \in MayExecute(a) : executed' = [executed EXCEPT ![r] = @ + n]
  BY <1>1
<1>3. n \in {0, 1} /\ (a = "success" => n = 1)
  BY <1>1, <1>2 DEF MayExecute, Answers
<1>4. reqPc[r] = "send" /\ tries' = tries
  BY DEF SendAttempt
<1>5. /\ executed'[r] = executed[r] + n /\ lastAnswer'[r] = a
      /\ \A q \in Reqs : q # r => /\ executed'[q] = executed[q] /\ reqPc'[q] = reqPc[q]
                                  /\ lastAnswer'[q] = lastAnswer[q]
  BY <1>1, <1>2 DEF RetryInv, SendTypes
<1>6. reqPc'[r] = IF Retryable(a) /\ MayRetry(r) THEN "sleep"
               ELSE IF a = "success" THEN "ok" ELSE "error"
  BY <1>1 DEF RetryInv, SendTypes
<1>7. SendTypes'
  <2>1. executed' \in [Reqs -> Nat]
    BY <1>2, <1>3 DEF RetryInv, SendTypes
  <2>2. reqPc' \in [Reqs -> {"send", "sleep", "ok", "error"}]
    BY <1>1 DEF RetryInv, SendTypes
  <2> QED
    BY <1>1, <1>4, <2>1, <2>2 DEF RetryInv, SendTypes
<1>8. NoDuplicateWrite'
  BY <1>3, <1>4, <1>5, WritesAreNotRetried DEF RetryInv, SendTypes, NoDuplicateWrite
<1>9. OutcomeIsEarned'
  <2> SUFFICES ASSUME NEW q \in Reqs
               PROVE  /\ reqPc'[q] = "ok" => executed'[q] > 0
                      /\ reqPc'[q] = "error" /\ Idempotent(q) /\ Retryable(lastAnswer'[q])
                         => tries'[q] = MaxRetries
    BY WritesAreNotRetried DEF OutcomeIsEarned, Retryable
  <2>1. CASE q = r
    BY <2>1, <1>3, <1>4, <1>5, <1>6 DEF RetryInv, SendTypes, MayRetry, Retryable
  <2>2. CASE q # r
    BY <2>2, <1>4, <1>5, WritesAreNotRetried DEF RetryInv, OutcomeIsEarned
  <2> QED
    BY <2>1, <2>2
<1>10. \A q \in Reqs :
        /\ ~Idempotent(q) => reqPc'[q] # "sleep" /\ (reqPc'[q] = "send" => executed'[q] = 0)
        /\ reqPc'[q] = "sleep" => tries'[q] < MaxRetries
  BY <1>4, <1>5, <1>6 DEF RetryInv, SendTypes, MayRetry
<1> QED
  BY <1>7, <1>8, <1>9, <1>10 DEF RetryInv, Idempotent

LEMMA WakeInv == ASSUME RetryInv, NEW r \in Reqs, Wake(r) PROVE RetryInv'
<1> USE RetryAssumption DEF RetryInv
<1>1. /\ reqPc' = [reqPc EXCEPT ![r] = "send"] /\ reqPc[r] = "sleep"
      /\ tries' = [tries EXCEPT ![r] = @ + 1]
      /\ lastAnswer' = lastAnswer /\ executed' = executed
  BY DEF Wake
<1>2. SendTypes'
  BY <1>1 DEF SendTypes
<1>3. NoDuplicateWrite' /\ OutcomeIsEarned'
  BY <1>1 DEF SendTypes, NoDuplicateWrite, OutcomeIsEarned, Idempotent, Retryable
<1> QED
  BY <1>1, <1>2, <1>3 DEF SendTypes, Idempotent

\* The inductive invariant holds of every behaviour of _request.
THEOREM RetryInvariance == RetrySpec => []RetryInv
<1>1. RetryInit => RetryInv
  BY RetryAssumption DEF RetryInit, RetryInv, SendTypes, NoDuplicateWrite, OutcomeIsEarned,
     Answers
<1>2. RetryInv /\ [RetryNext]_retryVars => RetryInv'
  <2> SUFFICES ASSUME RetryInv, [RetryNext]_retryVars PROVE RetryInv'
    OBVIOUS
  <2>1. CASE RetryNext
    BY <2>1, SendInv, WakeInv DEF RetryNext
  <2>2. CASE UNCHANGED retryVars
    BY <2>2 DEF retryVars, RetryInv, SendTypes, NoDuplicateWrite, OutcomeIsEarned, Idempotent,
       Retryable
  <2> QED
    BY <2>1, <2>2
<1> QED
  BY <1>1, <1>2, PTL DEF RetrySpec

\* The server acts on a POST, PUT or DELETE at most once (client.py:31-33).
THEOREM WritesAreSingleShot == RetrySpec => []NoDuplicateWrite
BY RetryInvariance, PTL DEF RetryInv

\* ok means executed; a read fails for a passing reason only after its last retry.
THEOREM OutcomesAreEarned == RetrySpec => []OutcomeIsEarned
BY RetryInvariance, PTL DEF RetryInv

\* Until its budget is spent a request backs off for at most the cap on Retry-After
\* (which _retry_delay applies to the header and not to its own backoffs).
ShortBackoffs == \A n \in 0 .. MaxRetries : 2 ^ n \in 0 .. MaxRetryAfter

\* The sleeps a request has begun.
Sleeps(r) == tries[r] + (IF reqPc[r] = "sleep" THEN 1 ELSE 0)

\* Each of them has cost at most the cap.
WaitInv ==
    /\ waited \in [Reqs -> Int]
    /\ \A r \in Reqs : waited[r] <= Sleeps(r) * MaxRetryAfter

LEMMA DelayIsCapped ==
    ASSUME ShortBackoffs, NEW after \in RetryAfter \cup {NoHeader}, NEW n \in 0 .. MaxRetries
    PROVE  RetryDelay(after, n) \in 0 .. MaxRetryAfter
<1>1. CASE after = NoHeader
  BY <1>1 DEF ShortBackoffs, RetryDelay
<1>2. CASE after # NoHeader
  BY <1>2, RetryAssumption DEF RetryDelay, MaxRetryAfter
<1> QED
  BY <1>1, <1>2

LEMMA SendKeepsWait ==
    ASSUME ShortBackoffs, RetryInv, WaitInv, NEW r \in Reqs, SendAttempt(r)
    PROVE  WaitInv'
<1>1. PICK a \in Answers \ {"none"}, after \in RetryAfter \cup {NoHeader} :
        IF Retryable(a) /\ MayRetry(r)
        THEN /\ reqPc' = [reqPc EXCEPT ![r] = "sleep"]
             /\ waited' = [waited EXCEPT ![r] = @ + RetryDelay(after, tries[r])]
        ELSE /\ reqPc' = [reqPc EXCEPT ![r] = IF a = "success" THEN "ok" ELSE "error"]
             /\ UNCHANGED waited
  BY DEF SendAttempt
<1>2. reqPc[r] = "send" /\ tries' = tries /\ tries[r] \in 0 .. MaxRetries
  BY DEF SendAttempt, RetryInv, SendTypes
<1>3. RetryDelay(after, tries[r]) \in 0 .. 120
  BY <1>2, DelayIsCapped DEF MaxRetryAfter
<1> DEFINE delay == RetryDelay(after, tries[r])
<1>4. waited' \in [Reqs -> Int]
  BY <1>1, <1>3 DEF WaitInv
<1>5. ASSUME NEW q \in Reqs PROVE waited'[q] <= Sleeps(q)' * MaxRetryAfter
  <2>1. tries[q] \in Nat /\ waited[q] \in Int /\ waited[q] <= Sleeps(q) * 120
    BY RetryAssumption DEF RetryInv, SendTypes, WaitInv, MaxRetryAfter
  <2>2. CASE q # r
    BY <1>1, <1>2, <2>1, <2>2 DEF Sleeps, MaxRetryAfter, WaitInv, RetryInv, SendTypes
  <2>3. CASE q = r /\ Retryable(a) /\ MayRetry(r)
    <3>1. reqPc'[r] = "sleep" /\ waited'[r] = waited[r] + delay
      BY <1>1, <2>3 DEF WaitInv, RetryInv, SendTypes
    <3> HIDE DEF delay
    <3> QED
      BY <1>2, <1>3, <2>1, <2>3, <3>1 DEF Sleeps, MaxRetryAfter, delay
  <2>4. CASE q = r /\ ~(Retryable(a) /\ MayRetry(r))
    BY <1>1, <1>2, <2>1, <2>4 DEF Sleeps, MaxRetryAfter, WaitInv, RetryInv, SendTypes
  <2> QED
    BY <2>2, <2>3, <2>4
<1> QED
  BY <1>4, <1>5 DEF WaitInv

\* However long the server asks a request to wait, it sleeps for at most a minute per retry.
THEOREM WaitsAreBounded == ASSUME ShortBackoffs PROVE RetrySpec => []WaitIsBounded
<1>1. RetryInit => WaitInv
  BY DEF RetryInit, WaitInv, Sleeps, MaxRetryAfter
<1>2. RetryInv /\ WaitInv /\ [RetryNext]_retryVars => WaitInv'
  <2> SUFFICES ASSUME RetryInv, WaitInv, [RetryNext]_retryVars PROVE WaitInv'
    OBVIOUS
  <2>1. ASSUME NEW r \in Reqs, Wake(r) PROVE WaitInv'
    BY <2>1, RetryAssumption DEF Wake, WaitInv, Sleeps, MaxRetryAfter, RetryInv, SendTypes
  <2>2. CASE UNCHANGED retryVars
    BY <2>2 DEF retryVars, WaitInv, Sleeps
  <2> QED
    BY <2>1, <2>2, SendKeepsWait DEF RetryNext
<1>3. RetryInv /\ WaitInv => WaitIsBounded
  <2> SUFFICES ASSUME RetryInv, WaitInv, NEW r \in Reqs
               PROVE  waited[r] <= MaxRetries * MaxRetryAfter
    BY DEF WaitIsBounded
  <2>1. tries[r] \in 0 .. MaxRetries /\ (reqPc[r] = "sleep" => tries[r] < MaxRetries)
    BY DEF RetryInv, SendTypes
  <2> QED
    BY <2>1, RetryAssumption DEF WaitInv, Sleeps, MaxRetryAfter
<1> QED
  BY <1>1, <1>2, <1>3, RetryInvariance, PTL DEF RetrySpec

-----------------------------------------------------------------------------
(***************************************************************************)
(* copy_issue.  CopyInv is inductive: an activation that has posted its    *)
(* copy stands as deep on the stack as its copy is in the tree, holds only *)
(* subtasks of the source it read, and only where it may descend; the one  *)
(* that is about to post has the copy below it as parent; and as long as   *)
(* nothing has failed every subtask of an acknowledged copy is covered or  *)
(* still to do on the stack.                                               *)
(***************************************************************************)
\* What an activation of _copy_one and a copy look like.
Activations ==
    [src : Issues, new : Nat, parent : Nat, watchers : SUBSET Users,
     relations : SUBSET Relation, children : SUBSET Issues]
Copies ==
    [src : Issues, parent : Nat, depth : Nat, watchers : SUBSET Users,
     relations : SUBSET Relation, children : SUBSET Issues, acked : BOOLEAN]

CopyTypes ==
    /\ option \in Options
    /\ copyPc \in {"read", "post", "replay", "done"}
    /\ stack \in Seq(Activations) /\ copies \in Seq(Copies)
    /\ children \in [Issues -> SUBSET Issues]
    /\ copyPc = "read" => stack = <<>> /\ copies = <<>>
    /\ copyPc # "done" => outcome.kind = "none"
    /\ copyPc \in {"post", "replay"} => stack # <<>>

\* An activation that has posted its copy descends only where it may, and only into
\* subtasks that the copy's source had.
Settled(d) ==
    /\ stack[d].new \in DOMAIN copies
    /\ copies[stack[d].new].depth = d - 1
    /\ stack[d].children \subseteq copies[stack[d].new].children
    /\ stack[d].children # {} => d - 1 < MaxDepth

\* The one on top is about to post its copy, below that of the one that called it.
Unposted ==
    /\ Top.new = 0 /\ Depth <= MaxDepth
    /\ IF Len(stack) = 1
       THEN Top.parent = 0 /\ Top.src = Root
       ELSE /\ Top.parent = stack[Len(stack) - 1].new
            /\ Top.src \in copies[Top.parent].children

StackInv ==
    /\ copyPc \in {"post", "replay"} => \A d \in 1 .. Len(stack) - 1 : Settled(d)
    /\ copyPc = "post" => Unposted
    /\ copyPc = "replay" => Settled(Len(stack))

\* Issue k, a subtask of the source of copy n, is still to be read or posted.
ToDo(n, k) ==
    /\ copyPc \in {"post", "replay"}
    /\ \E d \in 1 .. Len(stack) :
        /\ stack[d].new = n
        /\ \/ k \in stack[d].children
           \/ copyPc = "post" /\ d = Len(stack) - 1 /\ Top.src = k

Covered(n, k) == k \in unread \/ \E m \in DOMAIN copies : copies[m].parent = n /\ copies[m].src = k

\* Nothing is forgotten.
WholeInv ==
    outcome.kind \in {"none", "created"} /\ option.subtasks =>
        \A n \in DOMAIN copies :
            copies[n].acked /\ copies[n].depth < MaxDepth =>
                \A k \in copies[n].children : Covered(n, k) \/ ToDo(n, k)

CopyInv ==
    /\ CopyTypes /\ StackInv /\ WholeInv
    /\ \A n \in DOMAIN copies : MirrorsTheTree(n)

\* The stack without its top.
LEMMA Popped ==
    ASSUME NEW S, NEW s \in Seq(S), s # <<>>, NEW t, t = SubSeq(s, 1, Len(s) - 1)
    PROVE  /\ t \in Seq(S) /\ Len(t) = Len(s) - 1 /\ Len(s) \in Nat \ {0}
           /\ \A d \in 1 .. Len(s) - 1 : t[d] = s[d]
           /\ t = <<>> <=> Len(s) = 1
<1>1. Len(s) \in Nat \ {0} /\ \A i \in 1 .. Len(s) : s[i] \in S
  BY EmptySeq, LenProperties, ElementOfSeq
<1>2. t \in Seq(S) /\ Len(t) = Len(s) - 1 /\ \A d \in 1 .. Len(s) - 1 : t[d] = s[d]
  <2>1. \A i \in 1 .. Len(s) - 1 : s[i] \in S
    BY <1>1
  <2> DEFINE n == Len(s) - 1
  <2>2. n \in Nat /\ t = SubSeq(s, 1, n) /\ \A i \in 1 .. n : s[i] \in S
    BY <1>1, <2>1
  <2> HIDE DEF n
  <2>3. /\ t \in Seq(S) /\ Len(t) = IF 1 <= n THEN n - 1 + 1 ELSE 0
        /\ \A i \in 1 .. n - 1 + 1 : t[i] = s[1 + i - 1]
    BY <2>2, SubSeqProperties
  <2>4. Len(t) = n /\ \A i \in 1 .. n : t[i] = s[i]
    BY <2>2, <2>3
  <2> QED
    BY <2>3, <2>4 DEF n
<1>3. t = <<>> <=> Len(t) = 0
  BY <1>2, EmptySeq
<1> QED
  BY <1>1, <1>2, <1>3

\* The stack with another top.
LEMMA Replaced ==
    ASSUME NEW S, NEW s \in Seq(S), s # <<>>, NEW x \in S, NEW t,
           t = Append(SubSeq(s, 1, Len(s) - 1), x)
    PROVE  /\ t \in Seq(S) /\ Len(t) = Len(s) /\ Len(s) \in Nat \ {0} /\ t # <<>>
           /\ \A d \in 1 .. Len(s) - 1 : t[d] = s[d]
           /\ t[Len(s)] = x
<1> DEFINE u == SubSeq(s, 1, Len(s) - 1)
<1>1. /\ u \in Seq(S) /\ Len(u) = Len(s) - 1 /\ Len(s) \in Nat \ {0}
      /\ \A d \in 1 .. Len(s) - 1 : u[d] = s[d]
  BY Popped
<1> HIDE DEF u
<1>2. t = Append(u, x)
  BY DEF u
<1> QED
  BY <1>1, <1>2, AppendProperties

LEMMA PoppedSub ==
    ASSUME NEW S, NEW s \in Seq(S), s # <<>>
    PROVE  /\ SubSeq(s, 1, Len(s) - 1) \in Seq(S) /\ Len(s) \in Nat \ {0}
           /\ Len(SubSeq(s, 1, Len(s) - 1)) = Len(s) - 1
           /\ \A d \in 1 .. Len(s) - 1 : SubSeq(s, 1, Len(s) - 1)[d] = s[d]
BY Popped

\* A stack with two more activations on it.
LEMMA TwoMore ==
    ASSUME NEW S, NEW u \in Seq(S), NEW v \in Seq(S), Len(v) = 2
    PROVE  /\ u \o v \in Seq(S) /\ Len(u \o v) = Len(u) + 2 /\ Len(u) \in Nat
           /\ \A d \in 1 .. Len(u) : (u \o v)[d] = u[d]
           /\ (u \o v)[Len(u) + 1] = v[1] /\ (u \o v)[Len(u) + 2] = v[2]
<1> DEFINE t == u \o v
           n == Len(u)
<1>1. n \in Nat /\ t \in Seq(S) /\ Len(t) = n + 2
  <2>1. n \in Nat
    BY LenProperties
  <2>2. t \in Seq(S) /\ Len(t) = n + Len(v)
    BY ConcatProperties
  <2> QED
    BY <2>1, <2>2
<1>2. \A i \in 1 .. n + Len(v) : t[i] = IF i <= n THEN u[i] ELSE v[i - n]
  BY ConcatProperties
<1> HIDE DEF t, n
<1>3. \A i \in 1 .. n + 2 : t[i] = IF i <= n THEN u[i] ELSE v[i - n]
  BY <1>2
<1>4. \A i \in 1 .. n : t[i] = u[i]
  BY <1>1, <1>3
<1>5. t[n + 1] = v[1]
  <2> DEFINE k == n + 1
  <2>1. k \in 1 .. n + 2 /\ ~(k <= n) /\ k - n = 1
    BY <1>1
  <2> HIDE DEF k
  <2>2. t[k] = v[1]
    BY <1>3, <2>1
  <2> QED
    BY <2>2 DEF k
<1>6. t[n + 2] = v[2]
  <2> DEFINE k == n + 2
  <2>1. k \in 1 .. n + 2 /\ ~(k <= n) /\ k - n = 2
    BY <1>1
  <2> HIDE DEF k
  <2>2. t[k] = v[2]
    BY <1>3, <2>1
  <2> QED
    BY <2>2 DEF k
<1> QED
  BY <1>1, <1>4, <1>5, <1>6 DEF t, n

\* Where the top of the stack is.
LEMMA TopIs ==
    ASSUME CopyTypes, copyPc \in {"post", "replay"}
    PROVE  /\ Len(stack) \in Nat \ {0} /\ Top \in Activations /\ Top = stack[Len(stack)]
           /\ \A d \in 1 .. Len(stack) : stack[d] \in Activations
BY EmptySeq, ElementOfSeq DEF CopyTypes, Top

LEMMA CopyRecords ==
    ASSUME CopyTypes
    PROVE  /\ Len(copies) \in Nat /\ DOMAIN copies = 1 .. Len(copies)
           /\ \A n \in DOMAIN copies : copies[n] \in Copies
BY LenProperties, ElementOfSeq DEF CopyTypes

LEMMA NewActivation ==
    ASSUME CopyTypes, NEW i \in Issues, stack = <<>> \/ copyPc \in {"post", "replay"}
    PROVE  Activation(i) \in Activations
<1>1. Parent \in Nat
  BY TopIs DEF Parent, Activations
<1> QED
  BY <1>1, CopyAssumption DEF Activation, Activations, CopyTypes
\* The copies are there as before, watchers and relations apart.
SameTree ==
    /\ copies' \in Seq(Copies) /\ Len(copies') = Len(copies)
    /\ \A n \in DOMAIN copies :
        /\ copies'[n].src = copies[n].src /\ copies'[n].parent = copies[n].parent
        /\ copies'[n].depth = copies[n].depth /\ copies'[n].children = copies[n].children
        /\ copies'[n].acked = copies[n].acked

LEMMA TreeKept ==
    ASSUME CopyTypes, SameTree, \A n \in DOMAIN copies : MirrorsTheTree(n)
    PROVE  /\ DOMAIN copies' = DOMAIN copies
           /\ \A n \in DOMAIN copies' : MirrorsTheTree(n)'
<1>1. DOMAIN copies' = DOMAIN copies /\ DOMAIN copies = 1 .. Len(copies) /\ Len(copies) \in Nat
  BY CopyRecords, LenProperties DEF SameTree
<1>2. ASSUME NEW n \in DOMAIN copies PROVE MirrorsTheTree(n)'
  <2>1. MirrorsTheTree(n) /\ (copies[n].parent \in 1 .. n - 1 => copies[n].parent \in DOMAIN copies)
    BY <1>1, <1>2
  <2> QED
    BY <1>1, <1>2, <2>1 DEF SameTree, MirrorsTheTree
<1> QED
  BY <1>1, <1>2

\* A request that ends the call leaves nothing to show but the tree.
LEMMA Ended ==
    ASSUME CopyTypes', copyPc' = "done", outcome'.kind \notin {"none", "created"},
           \A n \in DOMAIN copies' : MirrorsTheTree(n)'
    PROVE  CopyInv'
BY DEF CopyInv, StackInv, WholeInv

\* One more copy, of the issue on top.
LEMMA OneMore ==
    ASSUME CopyInv, copyPc = "post", NEW c \in Copies, copies' = Append(copies, c),
           c.src = Top.src, c.parent = Top.parent, c.depth = Depth
    PROVE  /\ copies' \in Seq(Copies) /\ Len(copies') = Len(copies) + 1
           /\ DOMAIN copies' = 1 .. Len(copies) + 1
           /\ copies'[Len(copies) + 1] = c
           /\ \A n \in DOMAIN copies : n \in DOMAIN copies' /\ copies'[n] = copies[n]
           /\ \A n \in DOMAIN copies' : MirrorsTheTree(n)'
<1>1. /\ Len(copies) \in Nat /\ DOMAIN copies = 1 .. Len(copies) /\ copies \in Seq(Copies)
      /\ \A n \in DOMAIN copies : copies[n] \in Copies
  BY CopyRecords DEF CopyInv, CopyTypes
<1>2. /\ copies' \in Seq(Copies) /\ Len(copies') = Len(copies) + 1
      /\ copies'[Len(copies) + 1] = c
      /\ \A n \in 1 .. Len(copies) : copies'[n] = copies[n]
  BY <1>1, AppendProperties
<1>3. DOMAIN copies' = 1 .. Len(copies) + 1
  BY <1>2, LenProperties
<1>4. ASSUME NEW n \in DOMAIN copies PROVE MirrorsTheTree(n)'
  <2>1. MirrorsTheTree(n) /\ copies'[n] = copies[n]
    BY <1>1, <1>2, <1>4 DEF CopyInv
  <2>2. copies[n].parent \in 1 .. n - 1 => copies'[copies[n].parent] = copies[copies[n].parent]
    BY <1>1, <1>2, <1>4
  <2> QED
    BY <2>1, <2>2 DEF MirrorsTheTree
<1>5. ASSUME NEW l \in Nat, l = Len(copies) + 1 PROVE MirrorsTheTree(l)'
  <2>1. Len(stack) \in Nat \ {0} /\ Unposted /\ \A d \in 1 .. Len(stack) - 1 : Settled(d)
    BY TopIs DEF CopyInv, StackInv
  <2>2. copies'[l] = c
    BY <1>1, <1>2, <1>5
  <2>3. CASE Len(stack) = 1
    <3>1. c.depth = 0 /\ c.parent = 0 /\ c.src = Root
      BY <2>1, <2>3 DEF Unposted, Depth
    <3> QED
      BY <2>2, <3>1 DEF MirrorsTheTree
  <2>4. CASE Len(stack) # 1
    <3> DEFINE p == Top.parent
               h == Len(stack) - 1
    <3>1. p = stack[h].new /\ c.src \in copies[p].children /\ Depth <= MaxDepth
      BY <2>1, <2>4 DEF Unposted
    <3>2. h \in 1 .. Len(stack) - 1 /\ h \in Nat /\ h = Depth
      <4> DEFINE m == Len(stack)
      <4>1. m \in Nat /\ m # 0 /\ m # 1
        BY <2>1, <2>4
      <4> HIDE DEF m
      <4>2. m - 1 \in 1 .. m - 1 /\ m - 1 \in Nat
        BY <4>1
      <4> QED
        BY <4>2 DEF m, Depth
    <3> HIDE DEF h
    <3>3. p \in DOMAIN copies /\ copies[p].depth = h - 1
      BY <2>1, <3>1, <3>2 DEF Settled
    <3>4. copies'[p] = copies[p] /\ p \in 1 .. l - 1
      BY <1>1, <1>2, <1>5, <3>3
    <3>5. c.depth \in 1 .. MaxDepth /\ c.parent = p /\ copies[p].depth = c.depth - 1
      BY <3>1, <3>2, <3>3, CopyAssumption
    <3> HIDE DEF p
    <3> QED
      BY <2>2, <3>1, <3>4, <3>5 DEF MirrorsTheTree
  <2> QED
    BY <2>3, <2>4
<1>6. \A n \in DOMAIN copies' : n \in DOMAIN copies \/ (n \in Nat /\ n = Len(copies) + 1)
  BY <1>1, <1>3
<1>7. \A n \in DOMAIN copies : n \in DOMAIN copies' /\ copies'[n] = copies[n]
  BY <1>1, <1>2, <1>3
<1>8. \A n \in DOMAIN copies' : MirrorsTheTree(n)'
  BY <1>4, <1>5, <1>6
<1> QED
  BY <1>2, <1>3, <1>7, <1>8

\* Posting a subtask covers it; what else was covered or to do still is.
LEMMA PostCovers ==
    ASSUME CopyInv, copyPc = "post", NEW c \in Copies, copies' = Append(copies, c),
           c.src = Top.src, c.parent = Top.parent, c.depth = Depth, unread' = unread,
           NEW n \in DOMAIN copies, NEW k, Covered(n, k) \/ ToDo(n, k), ~Covered(n, k)'
    PROVE  \E d \in 1 .. Len(stack) - 1 : stack[d].new = n /\ k \in stack[d].children
<1>1. PICK h \in Nat \ {0} : h = Len(stack)
  BY TopIs DEF CopyInv
<1>2. /\ DOMAIN copies' = 1 .. Len(copies) + 1 /\ Len(copies) + 1 \in DOMAIN copies'
      /\ DOMAIN copies = 1 .. Len(copies) /\ Len(copies) \in Nat
      /\ copies'[Len(copies) + 1] = c
      /\ \A m \in DOMAIN copies : m \in DOMAIN copies' /\ copies'[m] = copies[m]
  BY OneMore, CopyRecords DEF CopyInv
<1>3. ~Covered(n, k) /\ (Top.src = k => Top.parent # n)
  BY <1>2 DEF Covered
<1>4. Unposted /\ Top = stack[h]
  BY <1>1 DEF CopyInv, StackInv, Top
<1>5. PICK d \in 1 .. h : /\ stack[d].new = n
                          /\ k \in stack[d].children \/ (d = h - 1 /\ Top.src = k)
  BY <1>1, <1>3 DEF ToDo
<1>6. d # h
  BY <1>2, <1>4, <1>5 DEF Unposted
<1>7. ~(d = h - 1 /\ Top.src = k)
  BY <1>1, <1>3, <1>4, <1>5 DEF Unposted
<1> QED
  BY <1>1, <1>5, <1>6, <1>7

LEMMA ExtendedSettled ==
    ASSUME NEW d, Settled(d), stack'[d] = stack[d],
           \A n \in DOMAIN copies : n \in DOMAIN copies' /\ copies'[n] = copies[n]
    PROVE  Settled(d)'
<1>1. PICK n \in DOMAIN copies : n = stack[d].new
  BY DEF Settled
<1> QED
  BY <1>1 DEF Settled

LEMMA PostIssueStep ==
    ASSUME CopyInv, PostIssue
    PROVE  CopyInv'
<1> DEFINE New(a) == [src |-> Top.src, parent |-> Top.parent, depth |-> Depth,
                watchers |-> {}, relations |-> {}, children |-> Top.children, acked |-> a]
<1>1. PICK h \in Nat \ {0} : h = Len(stack) /\ h - 1 = Depth
  BY TopIs DEF CopyInv, PostIssue, Depth
<1>2. Top \in Activations /\ Top = stack[h] /\ copyPc = "post" /\ CopyTypes /\ stack # <<>>
  BY <1>1, TopIs DEF CopyInv, PostIssue, CopyTypes
<1>3. New(TRUE) \in Copies /\ New(FALSE) \in Copies
  BY <1>1, <1>2 DEF Copies, Activations
<1>4. option' = option /\ children' = children /\ unread' = unread
  BY DEF PostIssue
<1>5. CASE Raise /\ UNCHANGED <<stack, copies>>
  <2>1. CopyTypes'
    BY <1>2, <1>4, <1>5 DEF CopyTypes, Raise
  <2>2. \A n \in DOMAIN copies' : MirrorsTheTree(n)'
    BY <1>5 DEF CopyInv, MirrorsTheTree
  <2> QED
    BY <1>5, <2>1, <2>2, Ended DEF Raise
<1>6. ASSUME NEW a \in BOOLEAN, copies' = Append(copies, New(a)) PROVE
        /\ copies' \in Seq(Copies) /\ copies' # <<>>
        /\ DOMAIN copies' = 1 .. Len(copies) + 1 /\ Len(copies) + 1 \in DOMAIN copies'
        /\ DOMAIN copies = 1 .. Len(copies) /\ Len(copies) \in Nat
        /\ copies'[Len(copies) + 1] = New(a) /\ Len(copies') = Len(copies) + 1
        /\ \A n \in DOMAIN copies : n \in DOMAIN copies' /\ copies'[n] = copies[n]
        /\ \A n \in DOMAIN copies' : MirrorsTheTree(n)'
        /\ \A n \in DOMAIN copies : \A k : (Covered(n, k) \/ ToDo(n, k)) /\ ~Covered(n, k)' =>
              \E d \in 1 .. h - 1 : stack[d].new = n /\ k \in stack[d].children
  <2>1. PICK c \in Copies : c = New(a)
    BY <1>3, <1>6
  <2>2. c.src = Top.src /\ c.parent = Top.parent /\ c.depth = Depth
    BY <2>1
  <2> HIDE DEF New
  <2>3. copies' = Append(copies, c) /\ copies \in Seq(Copies)
    BY <1>2, <1>6, <2>1 DEF CopyTypes
  <2>4. copies' # <<>> /\ Len(copies) \in Nat /\ DOMAIN copies = 1 .. Len(copies)
    BY <2>3, AppendProperties, LenProperties, EmptySeq
  <2>5. \A n \in DOMAIN copies : \A k : (Covered(n, k) \/ ToDo(n, k)) /\ ~Covered(n, k)' =>
            \E d \in 1 .. h - 1 : stack[d].new = n /\ k \in stack[d].children
    BY <1>1, <1>2, <1>4, <2>2, <2>3, PostCovers
  <2> QED
    BY <1>2, <2>1, <2>2, <2>3, <2>4, <2>5, OneMore
<1>7. \A d \in 1 .. h - 1 : Settled(d)
  BY <1>1, <1>2 DEF CopyInv, StackInv
<1> HIDE DEF New
<1>8. CASE copies' = Append(copies, New(FALSE)) /\ Raise /\ UNCHANGED stack
  <2>1. CopyTypes'
    BY <1>2, <1>4, <1>6, <1>8 DEF CopyTypes, Raise
  <2> QED
    BY <1>6, <1>8, <2>1, Ended DEF Raise
<1>9. CASE copies' = Append(copies, New(FALSE)) /\ Finish
  <2> USE <1>6, <1>9
  <2>1. /\ stack' \in Seq(Activations) /\ Len(stack') = h - 1
        /\ \A d \in 1 .. h - 1 : stack'[d] = stack[d]
        /\ stack' = <<>> <=> h = 1
    <3>1. /\ stack' = SubSeq(stack, 1, Len(stack) - 1)
          /\ stack \in Seq(Activations) /\ stack # <<>>
      BY <1>2 DEF Finish, Below, CopyTypes
    <3>2. /\ stack' \in Seq(Activations) /\ Len(stack') = Len(stack) - 1
          /\ \A d \in 1 .. Len(stack) - 1 : stack'[d] = stack[d]
          /\ stack' = <<>> <=> Len(stack) = 1
      <4> HIDE <1>6, <1>9
      <4> QED
        BY <3>1, Popped
    <3> QED
      BY <1>1, <3>2
  <2>2. IF h = 1 THEN copyPc' = "done" /\ outcome'.kind = "created"
                 ELSE copyPc' = "replay" /\ outcome' = outcome
    BY <2>1 DEF Finish
  <2>3. CopyTypes'
    BY <1>2, <1>4, <2>1, <2>2 DEF CopyTypes
  <2>4. ASSUME NEW d \in 1 .. h - 1 PROVE Settled(d)'
    BY <1>7, <2>1, <2>4, ExtendedSettled
  <2>5. StackInv'
    <3>1. CASE h = 1
      BY <2>2, <3>1 DEF StackInv
    <3>2. CASE h # 1
      <4>1. h - 1 \in Nat \ {0} /\ \A d \in 1 .. (h - 1) - 1 : d \in 1 .. h - 1
        BY <3>2
      <4>2. \A d \in 1 .. h - 1 : Settled(d)'
        BY <2>4
      <4>3. h - 1 \in 1 .. h - 1
        BY <4>1
      <4>4. Settled(Len(stack))'
        BY <2>1, <4>2, <4>3
      <4> QED
        BY <2>1, <2>2, <3>2, <4>1, <4>2, <4>4 DEF StackInv
    <3> QED
      BY <3>1, <3>2
  <2>6. WholeInv'
    <3> SUFFICES ASSUME option.subtasks, NEW n \in DOMAIN copies', copies'[n].acked,
                        copies'[n].depth < MaxDepth, NEW k \in copies'[n].children,
                        ~Covered(n, k)'
                 PROVE  ToDo(n, k)'
      BY <1>4 DEF WholeInv
    <3>1. n \in DOMAIN copies
      BY DEF New
    <3>2. Covered(n, k) \/ ToDo(n, k)
      BY <1>2, <3>1 DEF CopyInv, WholeInv, CopyTypes
    <3>3. PICK d \in 1 .. h - 1 : stack[d].new = n /\ k \in stack[d].children
      BY <3>1, <3>2
    <3> QED
      BY <2>1, <2>2, <3>3 DEF ToDo
  <2> QED
    BY <2>3, <2>5, <2>6 DEF CopyInv
<1>10. CASE /\ copies' = Append(copies, New(TRUE))
            /\ stack' = Append(Below, [Top EXCEPT !.new = Len(copies'),
                            !.watchers = IF option.watchers THEN @ ELSE {},
                            !.relations = IF option.relations THEN @ ELSE {},
                            !.children = IF option.subtasks /\ MayDescend THEN @ ELSE {}])
            /\ copyPc' = "replay" /\ UNCHANGED <<copied, outcome>>
  <2> USE <1>6, <1>10
  <2> DEFINE x == [Top EXCEPT !.new = Len(copies'),
                      !.watchers = IF option.watchers THEN @ ELSE {},
                      !.relations = IF option.relations THEN @ ELSE {},
                      !.children = IF option.subtasks /\ MayDescend THEN @ ELSE {}]
  <2>1. /\ x \in Activations /\ x.new = Len(copies) + 1
        /\ x.children = IF option.subtasks /\ MayDescend THEN Top.children ELSE {}
    <3>1. Top \in [src : Issues, new : Nat, parent : Nat, watchers : SUBSET Users,
                   relations : SUBSET Relation, children : SUBSET Issues]
      BY <1>2 DEF Activations
    <3>2. Len(copies') \in Nat
      BY <1>6
    <3>3. x \in Activations
      BY <3>1, <3>2 DEF Activations
    <3>4. x.new = Len(copies')
      BY <3>1
    <3>5. x.children = IF option.subtasks /\ MayDescend THEN Top.children ELSE {}
      BY <3>1
    <3> QED
      BY <3>3, <3>4, <3>5, <1>6
  <2> HIDE DEF x
  <2>2. /\ stack' \in Seq(Activations) /\ Len(stack') = h /\ stack' # <<>>
        /\ \A d \in 1 .. h - 1 : stack'[d] = stack[d]
        /\ stack'[h] = x
    BY <1>1, <1>2, <2>1, Replaced DEF Below, CopyTypes, x
  <2>3. CopyTypes'
    BY <1>2, <1>4, <2>2 DEF CopyTypes
  <2>4. ASSUME NEW d \in 1 .. h - 1 PROVE Settled(d)'
    BY <1>7, <2>2, <2>4, ExtendedSettled
  <2>5. ASSUME NEW d, d = h PROVE Settled(d)'
    BY <1>1, <2>1, <2>2, <2>5 DEF Settled, New, MayDescend
  <2>6. StackInv'
    <3>1. \A d \in 1 .. h - 1 : Settled(d)'
      BY <2>4
    <3>2. Settled(Len(stack))'
      BY <2>2, <2>5
    <3> QED
      BY <2>2, <3>1, <3>2 DEF StackInv
  <2>7. WholeInv'
    <3> SUFFICES ASSUME option.subtasks, NEW n \in DOMAIN copies', copies'[n].acked,
                        copies'[n].depth < MaxDepth, NEW k \in copies'[n].children,
                        ~Covered(n, k)'
                 PROVE  ToDo(n, k)'
      BY <1>4 DEF WholeInv
    <3>1. CASE n \in DOMAIN copies
      <4>1. Covered(n, k) \/ ToDo(n, k)
        BY <1>2, <3>1 DEF CopyInv, WholeInv, CopyTypes
      <4>2. PICK d \in 1 .. h - 1 : stack[d].new = n /\ k \in stack[d].children
        BY <3>1, <4>1
      <4> QED
        BY <2>2, <4>2 DEF ToDo
    <3>2. CASE n = Len(copies) + 1
      <4>1. k \in x.children
        BY <1>1, <2>1, <3>2 DEF New, MayDescend
      <4>2. /\ copyPc' = "replay" /\ h \in 1 .. Len(stack')
            /\ stack'[h].new = n /\ k \in stack'[h].children
        BY <2>1, <2>2, <3>2, <4>1
      <4> HIDE <1>6, <1>10
      <4> QED
        BY <4>2 DEF ToDo
    <3> QED
      BY <3>1, <3>2
  <2> QED
    BY <2>3, <2>6, <2>7 DEF CopyInv
<1> QED
  BY <1>5, <1>8, <1>9, <1>10 DEF PostIssue, New

\* With the tree as it was an activation stays settled, and a subtask covered.
LEMMA SameSettled ==
    ASSUME CopyTypes, SameTree, NEW d, Settled(d), stack'[d].new = stack[d].new,
           stack'[d].children \subseteq stack[d].children
    PROVE  Settled(d)'
<1>1. DOMAIN copies' = DOMAIN copies
  BY CopyRecords, LenProperties DEF SameTree
<1>2. PICK n \in DOMAIN copies : n = stack[d].new
  BY DEF Settled
<1> QED
  BY <1>1, <1>2 DEF Settled, SameTree

LEMMA SameCovered ==
    ASSUME CopyTypes, SameTree, unread \subseteq unread', NEW n, NEW k, Covered(n, k)
    PROVE  Covered(n, k)'
<1>1. DOMAIN copies' = DOMAIN copies
  BY CopyRecords, LenProperties DEF SameTree
<1> QED
  BY <1>1 DEF Covered, SameTree

\* A request of an activation that stays on top, which may skip a subtask.
LEMMA ReplayStep ==
    ASSUME CopyInv, copyPc = "replay", UNCHANGED <<copyPc, outcome, option, children>>, SameTree,
           unread \subseteq unread', NEW x \in Activations, stack' = Append(Below, x),
           x.new = Top.new, x.children \subseteq Top.children,
           \A k \in Top.children : k \in x.children \/ k \in unread'
    PROVE  CopyInv'
<1>1. PICK h \in Nat \ {0} : h = Len(stack)
  BY TopIs DEF CopyInv
<1>2. Top = stack[h] /\ CopyTypes /\ stack \in Seq(Activations) /\ stack # <<>>
  BY <1>1 DEF CopyInv, CopyTypes, Top
<1>3. /\ stack' \in Seq(Activations) /\ Len(stack') = h /\ stack' # <<>>
      /\ \A d \in 1 .. h - 1 : stack'[d] = stack[d]
      /\ stack'[h] = x
  <2>1. stack' = Append(SubSeq(stack, 1, Len(stack) - 1), x)
    BY DEF Below
  <2> QED
    BY <1>1, <1>2, <2>1, Replaced
<1>4. \A d \in 1 .. h : /\ stack'[d].new = stack[d].new
                        /\ stack'[d].children \subseteq stack[d].children
                        /\ \A k \in stack[d].children : k \in stack'[d].children \/ k \in unread'
  <2>1. \A d \in 1 .. h : d \in 1 .. h - 1 \/ d = h
    BY <1>1
  <2> QED
    BY <1>2, <1>3, <2>1
<1>5. CopyTypes'
  BY <1>2, <1>3 DEF CopyTypes, SameTree
<1>6. \A d \in 1 .. h : Settled(d)'
  <2>1. \A d \in 1 .. h : Settled(d)
    <3>1. \A d \in 1 .. h : d \in 1 .. h - 1 \/ d = h
      BY <1>1
    <3> QED
      BY <1>1, <3>1 DEF CopyInv, StackInv
  <2> QED
    BY <1>2, <1>4, <2>1, SameSettled
<1>7. StackInv'
  <2>1. \A d \in 1 .. h - 1 : d \in 1 .. h
    BY <1>1
  <2>2. Settled(Len(stack))'
    BY <1>1, <1>3, <1>6
  <2> QED
    BY <1>1, <1>3, <1>6, <2>1, <2>2 DEF StackInv
<1>8. WholeInv'
  <2> SUFFICES ASSUME outcome.kind \in {"none", "created"}, option.subtasks,
                      NEW n \in DOMAIN copies', copies'[n].acked, copies'[n].depth < MaxDepth,
                      NEW k \in copies'[n].children, ~Covered(n, k)'
               PROVE  ToDo(n, k)'
    BY DEF WholeInv
  <2>1. n \in DOMAIN copies
    BY <1>2, TreeKept DEF CopyInv
  <2>2. Covered(n, k) \/ ToDo(n, k)
    BY <2>1 DEF CopyInv, WholeInv, SameTree
  <2>3. ToDo(n, k) /\ k \notin unread'
    <3>1. k \notin unread'
      BY DEF Covered
    <3>2. ~Covered(n, k)
      BY <1>2, SameCovered
    <3> QED
      BY <2>2, <3>1, <3>2
  <2> QED
    BY <1>1, <1>3, <1>4, <2>3 DEF ToDo
<1> QED
  BY <1>2, <1>5, <1>7, <1>8, TreeKept DEF CopyInv

\* Adding to the watchers or the relations of a copy keeps the tree.
LEMMA Annotated ==
    ASSUME CopyTypes, NEW n \in DOMAIN copies,
           \/ copies' = copies
           \/ \E w \in Users : copies' = [copies EXCEPT ![n].watchers = @ \cup {w}]
           \/ \E r \in Relation : copies' = [copies EXCEPT ![n].relations = @ \cup {r}]
    PROVE  SameTree
<1>1. /\ copies \in [1 .. Len(copies) -> Copies] /\ DOMAIN copies = 1 .. Len(copies)
      /\ Len(copies) \in Nat /\ \A i \in DOMAIN copies : copies[i] \in Copies
  BY CopyRecords, LenProperties DEF CopyTypes
<1>2. PICK c \in Copies : /\ copies' = [copies EXCEPT ![n] = c]
                          /\ c.src = copies[n].src /\ c.parent = copies[n].parent
                          /\ c.depth = copies[n].depth /\ c.children = copies[n].children
                          /\ c.acked = copies[n].acked
  <2> DEFINE old == copies[n]
  <2>0. old \in Copies /\ [copies EXCEPT ![n] = old] = copies
    BY <1>1
  <2>1. CASE copies' = copies
    BY <2>0, <2>1
  <2>2. ASSUME NEW w \in Users, copies' = [copies EXCEPT ![n].watchers = @ \cup {w}]
        PROVE  copies' = [copies EXCEPT ![n] = [old EXCEPT !.watchers = @ \cup {w}]]
               /\ [old EXCEPT !.watchers = @ \cup {w}] \in Copies
    BY <2>0, <2>2 DEF Copies
  <2>3. ASSUME NEW r \in Relation, copies' = [copies EXCEPT ![n].relations = @ \cup {r}]
        PROVE  copies' = [copies EXCEPT ![n] = [old EXCEPT !.relations = @ \cup {r}]]
               /\ [old EXCEPT !.relations = @ \cup {r}] \in Copies
    BY <2>0, <2>3 DEF Copies
  <2>4. CASE \E w \in Users : copies' = [copies EXCEPT ![n].watchers = @ \cup {w}]
    <3>1. PICK w \in Users : copies' = [copies EXCEPT ![n].watchers = @ \cup {w}]
      BY <2>4
    <3> DEFINE c == [old EXCEPT !.watchers = @ \cup {w}]
    <3>2. c \in Copies /\ copies' = [copies EXCEPT ![n] = c]
      BY <2>2, <3>1
    <3>3. c.src = old.src /\ c.parent = old.parent /\ c.depth = old.depth
          /\ c.children = old.children /\ c.acked = old.acked
      BY <2>0 DEF Copies
    <3> HIDE DEF c
    <3> QED
      BY <3>2, <3>3
  <2>5. CASE \E r \in Relation : copies' = [copies EXCEPT ![n].relations = @ \cup {r}]
    <3>1. PICK r \in Relation : copies' = [copies EXCEPT ![n].relations = @ \cup {r}]
      BY <2>5
    <3> DEFINE c == [old EXCEPT !.relations = @ \cup {r}]
    <3>2. c \in Copies /\ copies' = [copies EXCEPT ![n] = c]
      BY <2>3, <3>1
    <3>3. c.src = old.src /\ c.parent = old.parent /\ c.depth = old.depth
          /\ c.children = old.children /\ c.acked = old.acked
      BY <2>0 DEF Copies
    <3> HIDE DEF c
    <3> QED
      BY <3>2, <3>3
  <2> QED
    BY <2>1, <2>4, <2>5
<1>3. \A i \in DOMAIN copies : copies'[i] = IF i = n THEN c ELSE copies[i]
  BY <1>1, <1>2
<1>4. copies' \in Seq(Copies) /\ Len(copies') = Len(copies)
  BY <1>1, <1>2, ExceptSeq DEF CopyTypes
<1> QED
  BY <1>2, <1>3, <1>4 DEF SameTree

LEMMA WatcherStep ==
    ASSUME CopyInv, PostWatcher
    PROVE  CopyInv'
<1>1. CopyTypes /\ copyPc = "replay" /\ Top \in Activations /\ Top.new \in DOMAIN copies
  BY TopIs DEF CopyInv, PostWatcher, StackInv, Settled
<1>2. PICK w \in Top.watchers :
        /\ stack' = Append(Below, [Top EXCEPT !.watchers = @ \ {w}])
        /\ \/ Skip /\ UNCHANGED copies
           \/ /\ copies' = [copies EXCEPT ![Top.new].watchers = @ \cup {w}]
              /\ Skip \/ Count("watchers")
  BY DEF PostWatcher
<1>3. w \in Users
  BY <1>1 DEF Activations
<1>4. SameTree
  BY <1>1, <1>2, <1>3, Annotated
<1> DEFINE x == [Top EXCEPT !.watchers = @ \ {w}]
<1>5. x \in Activations /\ x.new = Top.new /\ x.children = Top.children
  BY <1>1 DEF Activations
<1>6. UNCHANGED <<copyPc, outcome, option, children>> /\ unread' = unread
  BY <1>2 DEF PostWatcher, Skip, Count
<1> HIDE DEF x
<1>7. stack' = Append(Below, x)
  BY <1>2 DEF x
<1> QED
  BY <1>1, <1>4, <1>5, <1>6, <1>7, ReplayStep

LEMMA RelationStep ==
    ASSUME CopyInv, PostRelation
    PROVE  CopyInv'
<1>1. CopyTypes /\ copyPc = "replay" /\ Top \in Activations /\ Top.new \in DOMAIN copies
  BY TopIs DEF CopyInv, PostRelation, StackInv, Settled
<1>2. PICK r \in Top.relations :
        /\ stack' = Append(Below, [Top EXCEPT !.relations = @ \ {r}])
        /\ \/ Skip /\ UNCHANGED copies
           \/ /\ copies' = [copies EXCEPT ![Top.new].relations = @ \cup {Replayed(r)}]
              /\ Skip \/ Count("relations")
  BY DEF PostRelation
<1>3. Replayed(r) \in Relation
  BY <1>1 DEF Activations, Relation, Replayed
<1>4. SameTree
  BY <1>1, <1>2, <1>3, Annotated
<1> DEFINE x == [Top EXCEPT !.relations = @ \ {r}]
<1>5. x \in Activations /\ x.new = Top.new /\ x.children = Top.children
  BY <1>1 DEF Activations
<1>6. UNCHANGED <<copyPc, outcome, option, children>> /\ unread' = unread
  BY <1>2 DEF PostRelation, Skip, Count
<1> HIDE DEF x
<1>7. stack' = Append(Below, x)
  BY <1>2 DEF x
<1> QED
  BY <1>1, <1>4, <1>5, <1>6, <1>7, ReplayStep

LEMMA ReadChildStep ==
    ASSUME CopyInv, ReadChild
    PROVE  CopyInv'
<1>1. PICK h \in Nat \ {0} : h = Len(stack) /\ h - 1 = Depth
  BY TopIs DEF CopyInv, ReadChild, Depth
<1>2. /\ CopyTypes /\ copyPc = "replay" /\ Top \in Activations /\ Top = stack[h]
      /\ stack \in Seq(Activations) /\ stack # <<>> /\ \A d \in 1 .. h : Settled(d)
  <2>1. \A d \in 1 .. h : d \in 1 .. h - 1 \/ d = h
    BY <1>1
  <2> QED
    BY <1>1, <2>1, TopIs DEF CopyInv, ReadChild, CopyTypes, StackInv
<1>3. UNCHANGED <<option, children, copies>>
  BY DEF ReadChild, copyServer
<1>4. SameTree
  BY <1>2, <1>3, CopyRecords DEF SameTree, CopyTypes
<1>5. \A n \in DOMAIN copies' : MirrorsTheTree(n)'
  BY <1>2, <1>4, TreeKept DEF CopyInv
<1>6. PICK k \in Top.children :
        LET rest == [Top EXCEPT !.children = @ \ {k}] IN
        \/ Raise /\ UNCHANGED <<stack, unread>>
        \/ /\ stack' = Append(Below, rest)
           /\ unread' = unread \cup {k}
           /\ UNCHANGED <<copyPc, copied, outcome>>
        \/ /\ stack' = Below \o <<rest, Activation(k)>>
           /\ copied' = Append([copied EXCEPT ![Len(copied)].subtasks = @ + 1], Zero)
           /\ copyPc' = "post" /\ UNCHANGED <<outcome, unread>>
  BY DEF ReadChild
<1> DEFINE x == [Top EXCEPT !.children = @ \ {k}]
<1>7. /\ x \in Activations /\ x.new = Top.new /\ x.children = Top.children \ {k}
      /\ k \in Issues
  BY <1>2 DEF Activations
<1> HIDE DEF x
<1>8. CASE Raise /\ UNCHANGED <<stack, unread>>
  <2>1. CopyTypes'
    BY <1>2, <1>3, <1>8 DEF CopyTypes, Raise
  <2> QED
    BY <1>5, <1>8, <2>1, Ended DEF Raise
<1>9. CASE /\ stack' = Append(Below, x) /\ unread' = unread \cup {k}
           /\ UNCHANGED <<copyPc, copied, outcome>>
  <2>1. UNCHANGED <<copyPc, outcome, option, children>>
    BY <1>3, <1>9
  <2>2. x.children \subseteq Top.children /\ unread \subseteq unread'
    BY <1>7, <1>9
  <2>3. \A c \in Top.children : c \in x.children \/ c \in unread'
    BY <1>7, <1>9
  <2> QED
    BY <1>2, <1>4, <1>7, <1>9, <2>1, <2>2, <2>3, ReplayStep
<1>10. CASE /\ stack' = Below \o <<x, Activation(k)>>
            /\ copyPc' = "post" /\ UNCHANGED <<outcome, unread>>
  <2> DEFINE a == Activation(k)
  <2>1. a \in Activations /\ a.src = k /\ a.new = 0 /\ a.parent = Top.new
    BY <1>2, <1>7, NewActivation DEF Activation, Parent
  <2> HIDE DEF a
  <2>2. /\ stack' \in Seq(Activations) /\ Len(stack') = h + 1 /\ stack' # <<>>
        /\ \A d \in 1 .. h - 1 : stack'[d] = stack[d]
        /\ stack'[h] = x /\ stack'[h + 1] = a
    <3>1. stack' = SubSeq(stack, 1, Len(stack) - 1) \o <<x, a>>
      BY <1>10 DEF Below, a
    <3>2. x \in Activations /\ a \in Activations /\ stack \in Seq(Activations) /\ stack # <<>>
      BY <1>2, <1>7, <2>1
    <3>3. PICK v \in Seq(Activations) : v = <<x, a>> /\ Len(v) = 2 /\ v[1] = x /\ v[2] = a
      <4>1. /\ <<x, a>> \in Seq(Activations) /\ Len(<<x, a>>) = 2
            /\ <<x, a>>[1] = x /\ <<x, a>>[2] = a
        BY <3>2
      <4> QED
        BY <4>1, Zenon
    <3>4. PICK u \in Seq(Activations) : u = SubSeq(stack, 1, Len(stack) - 1)
      BY <3>2, PoppedSub
    <3>5. Len(u) = h - 1 /\ \A d \in 1 .. h - 1 : u[d] = stack[d]
      BY <1>1, <3>2, <3>4, PoppedSub
    <3>6. stack' = u \o v /\ Len(v) = 2
      BY <3>1, <3>3, <3>4
    <3>7. /\ stack' \in Seq(Activations) /\ Len(stack') = Len(u) + 2
          /\ \A d \in 1 .. Len(u) : stack'[d] = u[d]
          /\ stack'[Len(u) + 1] = v[1] /\ stack'[Len(u) + 2] = v[2]
      BY <3>6, TwoMore
    <3>8. Len(u) + 1 = h /\ Len(u) + 2 = h + 1 /\ Len(stack') # 0
      BY <1>1, <3>5, <3>7
    <3>9. /\ stack' \in Seq(Activations) /\ Len(stack') = h + 1
          /\ stack'[h] = x /\ stack'[h + 1] = a
      BY <3>3, <3>7, <3>8
    <3>10. \A d \in 1 .. h - 1 : stack'[d] = stack[d]
      BY <3>5, <3>7
    <3> QED
      BY <3>8, <3>9, <3>10, EmptySeq
  <2>3. CopyTypes'
    BY <1>2, <1>3, <1>10, <2>2 DEF CopyTypes
  <2>4. \A d \in 1 .. h : /\ stack'[d].new = stack[d].new
                          /\ stack'[d].children \subseteq stack[d].children
                          /\ \A c \in stack[d].children :
                                 c \in stack'[d].children \/ (d = h /\ c = k)
    <3>1. \A d \in 1 .. h : d \in 1 .. h - 1 \/ d = h
      BY <1>1
    <3> QED
      BY <1>2, <1>7, <2>2, <3>1
  <2>5. \A d \in 1 .. h : Settled(d)'
    BY <1>2, <1>4, <2>4, SameSettled
  <2>6. Top' = a /\ Depth' = h /\ h + 1 # 1 /\ h + 1 - 1 = h
    BY <1>1, <2>2 DEF Top, Depth
  <2>7. Unposted'
    <3>1. Settled(h) /\ Top.children # {}
      BY <1>1, <1>2
    <3>2. h <= MaxDepth /\ k \in copies[Top.new].children
      BY <1>1, <1>2, <3>1, CopyAssumption DEF Settled
    <3>3. Top'.parent = stack'[h].new /\ Top'.src \in copies'[Top'.parent].children
      BY <1>3, <1>7, <2>1, <2>2, <2>6, <3>2
    <3>4. Top'.new = 0 /\ Depth' <= MaxDepth
      BY <2>1, <2>6, <3>2
    <3>5. Len(stack') # 1 /\ Len(stack') - 1 = h
      BY <2>2, <2>6
    <3> QED
      BY <3>3, <3>4, <3>5 DEF Unposted
  <2>8. StackInv'
    BY <1>10, <2>2, <2>5, <2>6, <2>7 DEF StackInv
  <2>9. WholeInv'
    <3> SUFFICES ASSUME outcome.kind \in {"none", "created"}, option.subtasks,
                        NEW n \in DOMAIN copies', copies'[n].acked, copies'[n].depth < MaxDepth,
                        NEW c \in copies'[n].children, ~Covered(n, c)'
                 PROVE  ToDo(n, c)'
      BY <1>3, <1>10 DEF WholeInv
    <3>1. ToDo(n, c)
      BY <1>3, <1>10 DEF CopyInv, WholeInv, Covered
    <3>2. PICK d \in 1 .. h : stack[d].new = n /\ c \in stack[d].children
      BY <1>1, <1>2, <3>1 DEF ToDo
    <3>3. stack'[d].new = n /\ (c \in stack'[d].children \/ (d = h /\ c = k))
      BY <2>4, <3>2
    <3>4. d \in 1 .. h + 1 /\ (d = h => d = h + 1 - 1)
      BY <1>1, <3>2
    <3> QED
      BY <1>10, <2>1, <2>2, <2>6, <3>3, <3>4 DEF ToDo
  <2> QED
    BY <1>5, <2>3, <2>8, <2>9 DEF CopyInv
<1> QED
  BY <1>6, <1>8, <1>9, <1>10 DEF x

LEMMA ReturnStep ==
    ASSUME CopyInv, Return
    PROVE  CopyInv'
<1>1. PICK h \in Nat \ {0} : h = Len(stack)
  BY TopIs DEF CopyInv, Return
<1>2. /\ CopyTypes /\ copyPc = "replay" /\ Top = stack[h] /\ Top.children = {}
      /\ stack \in Seq(Activations) /\ stack # <<>> /\ \A d \in 1 .. h - 1 : Settled(d)
  BY <1>1, TopIs DEF CopyInv, Return, CopyTypes, StackInv
<1>3. UNCHANGED <<option, children, copies, unread>>
  BY DEF Return, copyServer
<1>4. SameTree
  BY <1>2, <1>3, CopyRecords DEF SameTree, CopyTypes
<1>5. /\ stack' \in Seq(Activations) /\ Len(stack') = h - 1
      /\ \A d \in 1 .. h - 1 : stack'[d] = stack[d]
      /\ stack' = <<>> <=> h = 1
  <2>1. /\ stack' = SubSeq(stack, 1, Len(stack) - 1)
        /\ stack \in Seq(Activations) /\ stack # <<>>
    BY <1>2 DEF Return, Finish, Below
  <2>2. /\ stack' \in Seq(Activations) /\ Len(stack') = Len(stack) - 1
        /\ \A d \in 1 .. Len(stack) - 1 : stack'[d] = stack[d]
        /\ stack' = <<>> <=> Len(stack) = 1
    BY <2>1, Popped
  <2> QED
    BY <1>1, <2>2
<1>6. IF h = 1 THEN copyPc' = "done" /\ outcome'.kind = "created"
               ELSE copyPc' = "replay" /\ outcome' = outcome
  BY <1>5 DEF Return, Finish
<1>7. CopyTypes'
  BY <1>2, <1>3, <1>5, <1>6 DEF CopyTypes
<1>8. \A d \in 1 .. h - 1 : Settled(d)'
  BY <1>2, <1>4, <1>5, SameSettled
<1>9. StackInv'
  <2>1. CASE h = 1
    BY <1>6, <2>1 DEF StackInv
  <2>2. CASE h # 1
    <3>1. h - 1 \in 1 .. h - 1 /\ \A d \in 1 .. (h - 1) - 1 : d \in 1 .. h - 1
      BY <2>2
    <3>2. Settled(Len(stack))'
      BY <1>5, <1>8, <3>1
    <3> QED
      BY <1>5, <1>6, <1>8, <2>2, <3>1, <3>2 DEF StackInv
  <2> QED
    BY <2>1, <2>2
<1>10. WholeInv'
  <2> SUFFICES ASSUME option.subtasks, NEW n \in DOMAIN copies', copies'[n].acked,
                      copies'[n].depth < MaxDepth, NEW k \in copies'[n].children,
                      ~Covered(n, k)'
               PROVE  ToDo(n, k)'
    BY <1>3 DEF WholeInv
  <2>1. outcome.kind = "none"
    BY <1>2 DEF CopyTypes
  <2>2. ToDo(n, k)
    BY <1>3, <2>1 DEF CopyInv, WholeInv, Covered
  <2>3. PICK d \in 1 .. h : stack[d].new = n /\ k \in stack[d].children
    BY <1>1, <1>2, <2>2 DEF ToDo
  <2>4. d \in 1 .. h - 1 /\ h # 1
    BY <1>1, <1>2, <2>3
  <2> QED
    BY <1>5, <1>6, <2>3, <2>4 DEF ToDo
<1> QED
  BY <1>2, <1>4, <1>7, <1>9, <1>10, TreeKept DEF CopyInv

LEMMA ReadSourceStep ==
    ASSUME CopyInv, ReadSource
    PROVE  CopyInv'
<1>1. /\ CopyTypes /\ copyPc = "read" /\ stack = <<>> /\ copies = <<>>
      /\ UNCHANGED <<option, children, copies, unread>>
  BY DEF CopyInv, CopyTypes, ReadSource, copyServer
<1>2. DOMAIN copies' = {}
  BY <1>1
<1>3. CASE copyPc' = "done" /\ UNCHANGED <<stack, copied>>
  BY <1>1, <1>2, <1>3 DEF CopyInv, CopyTypes, StackInv, WholeInv
<1>4. CASE /\ stack' = <<Activation(Root)>> /\ copyPc' = "post" /\ UNCHANGED outcome
  <2> DEFINE a == Activation(Root)
  <2>1. a \in Activations /\ a.src = Root /\ a.new = 0 /\ a.parent = 0
    BY <1>1, NewActivation, CopyAssumption DEF Activation, Parent
  <2> HIDE DEF a
  <2>2. stack' = <<a>>
    BY <1>4 DEF a
  <2>3. stack' \in Seq(Activations) /\ Len(stack') = 1 /\ stack'[1] = a /\ stack' # <<>>
    BY <2>1, <2>2
  <2>4. CopyTypes'
    BY <1>1, <1>4, <2>3 DEF CopyTypes
  <2>5. Top' = a /\ Depth' = 0
    BY <2>3 DEF Top, Depth
  <2>6. StackInv'
    BY <1>4, <2>1, <2>3, <2>5, CopyAssumption DEF StackInv, Unposted
  <2> QED
    BY <1>2, <2>4, <2>6 DEF CopyInv, WholeInv
<1> QED
  BY <1>3, <1>4 DEF ReadSource

LEMMA MoveStep ==
    ASSUME CopyInv, Move
    PROVE  CopyInv'
<1>1. UNCHANGED <<option, copyPc, stack, outcome, copies, unread>>
  BY DEF Move
<1>2. children' \in [Issues -> SUBSET Issues]
  <2>1. PICK k \in Issues, p \in Issues :
          children' = [i \in Issues |-> IF i = p THEN children[i] \cup {k} ELSE children[i] \ {k}]
    BY DEF Move
  <2>2. \A i \in Issues : children[i] \in SUBSET Issues
    BY DEF CopyInv, CopyTypes
  <2> QED
    BY <2>1, <2>2
<1>3. CopyTypes'
  BY <1>1, <1>2 DEF CopyInv, CopyTypes
<1>4. StackInv'
  BY <1>1 DEF CopyInv, StackInv, Settled, Unposted, Top, Depth
<1>5. WholeInv'
  BY <1>1 DEF CopyInv, WholeInv, Covered, ToDo, Top
<1>6. \A n \in DOMAIN copies' : MirrorsTheTree(n)'
  BY <1>1 DEF CopyInv, MirrorsTheTree
<1> QED
  BY <1>3, <1>4, <1>5, <1>6 DEF CopyInv

LEMMA CopyInvHolds == CopySpec => []CopyInv
<1>1. CopyInit => CopyInv
  <2> SUFFICES ASSUME CopyInit PROVE CopyInv
    OBVIOUS
  <2>1. children \in [Issues -> SUBSET Issues] /\ DOMAIN copies = {}
    BY CopyAssumption DEF CopyInit
  <2>2. stack \in Seq(Activations) /\ copies \in Seq(Copies)
    BY EmptySeq DEF CopyInit
  <2> QED
    BY <2>1, <2>2 DEF CopyInit, CopyInv, CopyTypes, StackInv, WholeInv
<1>2. CopyInv /\ [CopyNext]_copyVars => CopyInv'
  <2> SUFFICES ASSUME CopyInv, [CopyNext]_copyVars PROVE CopyInv'
    OBVIOUS
  <2>1. CASE UNCHANGED copyVars
    BY <2>1 DEF copyVars, copyServer, CopyInv, CopyTypes, StackInv, Settled, Unposted, Top,
                Depth, WholeInv, Covered, ToDo, MirrorsTheTree
  <2> QED
    BY <2>1, ReadSourceStep, PostIssueStep, WatcherStep, RelationStep, ReadChildStep, ReturnStep,
       MoveStep DEF CopyNext
<1> QED
  BY <1>1, <1>2, PTL DEF CopySpec

\* What copy_issue has made mirrors the tree it was read from, at every moment and
\* whatever fails, and a copy reported as created is whole (copy_issue.py:33).
THEOREM CopiesStayFaithful == CopySpec => []CopiesAreFaithful
<1>1. CopyInv => CopiesAreFaithful
  <2> SUFFICES ASSUME CopyInv, NEW n \in DOMAIN copies
               PROVE  MirrorsTheTree(n) /\ (outcome.kind = "created" /\ option.subtasks => IsWhole(n))
    BY DEF CopiesAreFaithful
  <2>1. outcome.kind = "created" => copyPc = "done"
    BY DEF CopyInv, CopyTypes
  <2> QED
    BY <2>1 DEF CopyInv, WholeInv, ToDo, Covered, IsWhole
<1> QED
  BY <1>1, CopyInvHolds, PTL
=============================================================================
