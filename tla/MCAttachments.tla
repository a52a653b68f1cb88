---------------------------- MODULE MCAttachments ----------------------------
(* One caller; a plain path and a symlink that are allowed, and the path    *)
(* that the symlink leads to, which is not.                                 *)
EXTENDS Attachments
CONSTANTS c1, inside, outside, link, doc, more

LinkLeadsOut == [p \in Paths |-> IF p = link THEN outside ELSE p]
FileNames == [p \in Paths |-> IF p = inside THEN "a" ELSE "b"]
Transfers ==
    [op : {"upload", "download"}, path : {inside, link}, toIssue : {FALSE}, overwrite : BOOLEAN]
=============================================================================
