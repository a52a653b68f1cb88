------------------------------- MODULE Reads -------------------------------
(***************************************************************************)
(* One reading tool call at a time: a page loop, an activity feed, a       *)
(* search, calls that refer to a project, or the serialization of a reply. *)
(* They share no state in the server, so any one of them runs.             *)
(***************************************************************************)
EXTENDS Paging, ActivityFeed, IssueSearch, ProjectCache, Dump

VARIABLE reader     \* which of them

\* Those that do not run stay in one of their initial states.
NoPaging == Init /\ tool = (CHOOSE t \in Tools : TRUE) /\ list = (CHOOSE l \in Lists : TRUE)
NoFeeding ==
    /\ FeedInit
    /\ ask = (CHOOSE r \in FeedRequests : TRUE) /\ rows = (CHOOSE p \in Projects : TRUE)
NoSearching ==
    /\ SearchInit
    /\ wish = (CHOOSE s \in Searches : TRUE) /\ names = (CHOOSE r \in Registries : TRUE)
NoReferring == ProjectInit /\ redmine = (CHOOSE p \in StartProjects : TRUE)
NoDumping ==
    /\ DumpInit
    /\ cap = (CHOOSE n \in Caps : TRUE) /\ text = (CHOOSE t \in Texts : TRUE)

ReadsInit ==
    \/ reader = "paging" /\ Init /\ NoFeeding /\ NoSearching /\ NoReferring /\ NoDumping
    \/ reader = "feed" /\ FeedInit /\ NoPaging /\ NoSearching /\ NoReferring /\ NoDumping
    \/ reader = "search" /\ SearchInit /\ NoPaging /\ NoFeeding /\ NoReferring /\ NoDumping
    \/ reader = "project" /\ ProjectInit /\ NoPaging /\ NoFeeding /\ NoSearching /\ NoDumping
    \/ reader = "dump" /\ DumpInit /\ NoPaging /\ NoFeeding /\ NoSearching /\ NoReferring

ReadsNext ==
    /\ UNCHANGED reader
    /\ \/ /\ reader = "paging" /\ Next
          /\ UNCHANGED <<feedVars, searchVars, projectVars, dumpVars>>
       \/ /\ reader = "feed" /\ FeedNext
          /\ UNCHANGED <<vars, searchVars, projectVars, dumpVars>>
       \/ /\ reader = "search" /\ SearchNext
          /\ UNCHANGED <<vars, feedVars, projectVars, dumpVars>>
       \/ /\ reader = "project" /\ ProjectNext
          /\ UNCHANGED <<vars, feedVars, searchVars, dumpVars>>
       \/ /\ reader = "dump" /\ DumpNext
          /\ UNCHANGED <<vars, feedVars, searchVars, projectVars>>

ReadsSpec ==
    ReadsInit /\ [][ReadsNext]_<<reader, vars, feedVars, searchVars, projectVars, dumpVars>>
=============================================================================
