--------------------------- MODULE SharedSessions ---------------------------
(***************************************************************************)
(* The workers of FileSessions as one session store, SessionStore.         *)
(*                                                                         *)
(* A save is in the store from the moment it begins to overwrite the file  *)
(* the id names, whose lock it holds; or, when that file has been unlinked *)
(* since it was opened, from just before it was.  A file that is created   *)
(* and not written is no session yet.  Two history variables tell what a   *)
(* call could see, and SessionStore says how they grow.                    *)
(***************************************************************************)
EXTENDS FileSessions

VARIABLES seen, raced

Saves == {"createSession", "updateSession"}
Reads == {"getSession", "removeExpired"}

(* The session a worker is copying into an inode is what the inode holds. *)
Content(n) ==
  IF file[n].data = Torn
  THEN LET writers == {w \in Workers : pc[w] = "copying" /\ fd[w] = n}
       IN IF writers = {} THEN Torn ELSE sess[CHOOSE w \in writers : TRUE]
  ELSE file[n].data

Stored == [i \in Ids |-> IF dir[i] = None THEN None ELSE Content(dir[i])]

CallOf(w) == [op   |-> op[w],
              id   |-> IF op[w] = "removeExpired" THEN None ELSE path[w],
              save |-> IF op[w] \in Saves THEN sess[w] ELSE None]

Unlinked(w) == pc[w] \in {"flockEx", "pwrite"} /\ dir[path[w]] # fd[w]

Written(w) == pc[w] \in {"copying", "ftruncate", "unlock"}

Done(w) == op[w] \in Saves /\ (Unlinked(w) \/ Written(w))

Looked(w) == IF op[w] \in Reads THEN sess[w] ELSE None

Store == INSTANCE SessionStore WITH
  Callers <- Workers, Names <- Ids, Gone <- None, Lifetime <- Duration,
  clock <- now, store <- Stored,
  call <- [w \in Workers |-> CallOf(w)],
  done <- [w \in Workers |-> Done(w)],
  got <- [w \in Workers |-> Looked(w)],
  answer <- res

SharedInit == /\ Init
              /\ seen = [w \in Workers |-> [i \in Ids |-> {}]]
              /\ raced = [w \in Workers |-> {}]

SharedNext == Next /\ Store!Observe

SharedSpec == SharedInit /\ [][SharedNext]_<<vars, seen, raced>>

(* While nothing fails the workers' files are one session store: every save *)
(* and removal takes effect at one moment of its call, saves that race with *)
(* a removal included, and getSession never returns a session that was not  *)
(* there at some moment of its call.                                        *)
OneStore == Store!StoreSpec

=============================================================================
