-------------------------- MODULE MCSharedSessions --------------------------
(* SharedSessions on small instances.                                      *)
EXTENDS SharedSessions, TLC

(* Workers, ids and inodes are interchangeable. *)
Interchangeable == Permutations(Workers) \cup Permutations(Ids) \cup Permutations(Inodes)
=============================================================================
