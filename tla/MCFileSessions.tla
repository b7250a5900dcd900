--------------------------- MODULE MCFileSessions ---------------------------
(* FileSessions on small instances.                                        *)
EXTENDS FileSessions, TLC

(* Workers, ids and inodes are interchangeable; only for the runs without  *)
(* liveness properties.                                                    *)
Interchangeable == Permutations(Workers) \cup Permutations(Ids) \cup Permutations(Inodes)
=============================================================================
