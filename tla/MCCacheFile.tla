---------------------------- MODULE MCCacheFile ----------------------------
(* Three processes and a file of any version: two of them may be late. *)
EXTENDS CacheFile, TLC

CONSTANTS p1, p2, p3
=============================================================================
