------------------------ MODULE SharedSessionsProofs ------------------------
(***************************************************************************)
(* The workers' files are one session store (SharedSessions.OneStore), for *)
(* any number of workers, sessions and inodes, any durations and          *)
(* any path, as long as nothing fails.                                     *)
(*                                                                         *)
(* SharedInv adds to FileSessions' IInv what ties the files to the store:  *)
(* which call a worker is in (CallInv), that a copying save has its file   *)
(* torn (CopyInv), that a name holds a session of that name (StoredInv),   *)
(* whose file a load has open (LoadNameInv), and that what a load can      *)
(* still come to read is among what its call has seen (SeenInv), or is     *)
(* whole unless a save of that name was in progress (RacedInv, WholeInv).  *)
(* Under it every step is one of the store's, or changes nothing there: a  *)
(* save is done at its pwrite, or, when its file has lost its name, at the *)
(* unlink that took it.                                                    *)
(***************************************************************************)
EXTENDS SharedSessions, FileSessionsProofs

(* Which call a worker is in, and what it holds, at each program counter. *)
CallFine(w) ==
  /\ pc[w] = "idle" <=> op[w] = "none"
  /\ pc[w] = "idle" => path[w] = None /\ sess[w] = None
  /\ pc[w] \in {"open"} \cup SaveOpen <=> op[w] \in Saves
  /\ pc[w] \in {"exists", "openRd", "check", "next"} \cup LoadOpen => op[w] \in Reads
  /\ pc[w] = "next" => op[w] = "removeExpired"
  /\ pc[w] = "remove" => op[w] \in Reads \cup {"destroySession"} /\ path[w] \in Ids
  /\ op[w] \in Reads /\ pc[w] \notin {"check", "remove"} => sess[w] = None
  /\ op[w] \in Reads /\ pc[w] \in {"check", "remove"} => sess[w] \in Session
  /\ pc[w] \in {"check", "remove"} /\ op[w] = "getSession" => sess[w].id = path[w]
  /\ pc[w] = "remove" /\ op[w] \in Reads => sess[w].id = path[w] /\ IsExpired(sess[w])

CallInv == \A w \in Workers : CallFine(w)

(* A save that copies has left the file torn. *)
CopyInv == \A w \in Workers : pc[w] = "copying" => file[fd[w]].data = Torn

(* What is stored under a name is a session of that name. *)
OfName(s, i) == s = None \/ (s \in Session /\ s.id = i)
StoredInv == \A i \in Ids : OfName(Stored[i], i)

(* A file that is read is that of the path, or of none. *)
LoadNameInv == \A w \in Workers, i \in Ids :
  pc[w] \in LoadOpen /\ dir[i] = fd[w] => path[w] = i

(* What a call can see is there, also in the file it has open, and what a   *)
(* save will write there that lost its name since.                          *)
SeenInv == \A w \in Workers :
  /\ \A i \in Ids : \A s \in seen[w][i] : OfName(s, i)
  /\ pc[w] # "idle" => \A i \in Ids : Stored[i] \in seen[w][i]
  /\ pc[w] \in LoadOpen => Content(fd[w]) \in seen[w][path[w]]
  /\ pc[w] \in LoadOpen => \A u \in Workers :
       fd[u] = fd[w] /\ Unlinked(u) => sess[u] \in seen[w][path[w]]

(* The names of all saves in progress are noted. *)
RacedInv == \A w, u \in Workers :
  pc[w] # "idle" /\ op[u] \in Saves => path[u] \in raced[w]

(* A load that no save has raced with has a whole file in its map. *)
WholeInv == \A w \in Workers : pc[w] \in LoadOpen =>
  \/ path[w] \in raced[w]
  \/ /\ \A u \in Workers : pc[u] \in SaveOpen => fd[u] # fd[w]
     /\ file[fd[w]].data \in Session
     /\ file[fd[w]].size = Marshalled(file[fd[w]].data)
     /\ pc[w] # "mmap" => mapLen[w] = file[fd[w]].size

SharedInv == /\ IInv /\ NothingFailed
             /\ CallInv /\ CopyInv /\ StoredInv /\ LoadNameInv
             /\ SeenInv /\ RacedInv /\ WholeInv

-----------------------------------------------------------------------------
(* What each step does to its worker.                                      *)

Returned(w, r) == /\ pc'[w] = "idle" /\ op'[w] = "none" /\ path'[w] = None /\ sess'[w] = None
                  /\ fd'[w] = None /\ res'[w] = r

(* Where a worker is that stays in its call. *)
Stays(w, l) == pc'[w] = l /\ UNCHANGED <<op[w], path[w], sess[w], fd[w], mapLen[w], res[w]>>

LEMMA ReturnFacts ==
  ASSUME Typed, NEW w \in Workers, NEW r, Return(w, r)
  PROVE  Returned(w, r)
  BY DEF Typed, TypeOK, Return, Returned

LEMMA GotoFacts ==
  ASSUME Typed, NEW w \in Workers, NEW l, Goto(w, l)
  PROVE  Stays(w, l)
  BY DEF Typed, TypeOK, Goto, Stays, callVars

LoadEnds(w, r) ==
  IF op[w] = "removeExpired"
  THEN /\ pc'[w] = "next" /\ path'[w] = None /\ sess'[w] = None
       /\ UNCHANGED <<op[w], fd[w], mapLen[w], res[w]>>
  ELSE Returned(w, r)

LEMMA LoadedFacts ==
  ASSUME Typed, NEW w \in Workers, NEW r, Loaded(w, r)
  PROVE  LoadEnds(w, r)
  BY ReturnFacts DEF Typed, TypeOK, Loaded, LoadEnds

(* A crash or a failing call is counted. *)
LEMMA FaultsCount ==
  ASSUME Typed, NEW w \in Workers, Fault(w)
  PROVE  ~NothingFailed'
  BY DEF Typed, TypeOK, NothingFailed, Fault, SyscallFails, ShortWrite, Crash

LEMMA MapsKeep ==
  ASSUME Typed, NEW w \in Workers, Call(w) \/ Save(w) \/ Load(w), NEW u \in Workers, u # w
  PROVE  mapLen'[u] = mapLen[u]
<1> USE DEF Typed, TypeOK, Return, Throw, Goto, Begin, BeginSave, Loaded, LoadUnchanged, callVars, clientVars
<1>1. CASE Call(w)
  BY <1>1 DEF Call, CreateSession, UpdateSession, GetSession, DestroySession, RemoveExpired
<1>2. CASE Save(w)
  BY <1>2 DEF Save, Open, FlockEx, Pwrite, PwriteEnd, Ftruncate, Unlock
<1>3. CASE Load(w)
  BY <1>3 DEF Load, Exists, OpenRd, Mmap, FlockSh, Read, Check, Remove, NextEntry
<1> QED BY <1>1, <1>2, <1>3

LEMMA CallFacts ==
  ASSUME Typed, NEW w \in Workers, Call(w)
  PROVE  /\ pc[w] = "idle" /\ res'[w] = "none"
         /\ UNCHANGED <<now, dir, file, fd, mapLen, crashes, faults>>
         /\ \/ \E i \in Ids :
                 /\ op'[w] \in Saves /\ pc'[w] = "open" /\ path'[w] = i
                 /\ sess'[w] \in Session /\ sess'[w].id = i /\ sess'[w].lastUsed = now
                 /\ op'[w] = "createSession" => sess'[w].duration = Duration
            \/ op'[w] = "getSession" /\ pc'[w] = "exists" /\ path'[w] \in Ids /\ sess'[w] = sess[w]
            \/ op'[w] = "destroySession" /\ pc'[w] = "remove" /\ path'[w] \in Ids /\ sess'[w] = sess[w]
            \/ op'[w] = "removeExpired" /\ pc'[w] = "next" /\ path'[w] = path[w] /\ sess'[w] = sess[w]
<1> USE DEF Typed, TypeOK, Begin, Idle, Saves
<1>1. ASSUME NEW o \in Saves, NEW i \in Ids, NEW d \in Durations, NEW v \in Lengths,
             BeginSave(w, o, i, d, v)
      PROVE  /\ pc[w] = "idle" /\ res'[w] = "none"
             /\ UNCHANGED <<now, dir, file, fd, mapLen, crashes, faults>>
             /\ op'[w] = o /\ pc'[w] = "open" /\ path'[w] = i
             /\ sess'[w] \in Session /\ sess'[w].id = i /\ sess'[w].lastUsed = now
             /\ sess'[w].duration = d
  BY <1>1, SessionReadable DEF BeginSave, Session, Readable
<1>2. CASE CreateSession(w)
  <2>1. NoVariables \in Lengths
    BY FSAssumption DEF NoVariables, Lengths
  <2> QED BY <1>1, <1>2, <2>1, DurationsAreIntegers DEF CreateSession
<1>3. CASE UpdateSession(w)
  BY <1>1, <1>3 DEF UpdateSession
<1>4. CASE GetSession(w)
  BY <1>4 DEF GetSession
<1>5. CASE DestroySession(w)
  BY <1>5 DEF DestroySession
<1>6. CASE RemoveExpired(w)
  BY <1>6 DEF RemoveExpired
<1> QED BY <1>2, <1>3, <1>4, <1>5, <1>6 DEF Call

Reading == UNCHANGED <<now, dir, file, crashes, faults>>

(* The steps of a save. *)
LEMMA OpenFacts ==
  ASSUME Typed, NEW w \in Workers, Open(w)
  PROVE  /\ pc[w] = "open" /\ pc'[w] = "flockEx" /\ UNCHANGED <<now, crashes, faults>>
         /\ UNCHANGED <<op[w], path[w], sess[w], mapLen[w], res[w]>>
         /\ \E n \in Inodes :
              /\ fd'[w] = n
              /\ \/ dir[path[w]] = n /\ dir' = dir /\ file' = file
                 \/ /\ Unused(n) /\ dir[path[w]] = None
                    /\ dir' = [dir EXCEPT ![path[w]] = n]
                    /\ file' = [file EXCEPT ![n] = [data |-> None, size |-> 0]]
  BY DEF Open, Typed, TypeOK, callVars

LEMMA FlockExFacts ==
  ASSUME Typed, NEW w \in Workers, FlockEx(w)
  PROVE  pc[w] = "flockEx" /\ Stays(w, "pwrite") /\ Reading
  BY GotoFacts DEF FlockEx, Reading

LEMMA PwriteFacts ==
  ASSUME Typed, NEW w \in Workers, Pwrite(w)
  PROVE  /\ pc[w] = "pwrite" /\ Stays(w, "copying") /\ UNCHANGED <<now, dir, crashes, faults>>
         /\ file'[fd[w]].data = Torn
         /\ \A n \in Inodes \ {fd[w]} : file'[n] = file[n]
<1>1. fd[w] \in Inodes
  BY DEF Pwrite, Typed, WorkerInv, SaveOpen, SaveLocked
<1> QED BY <1>1, GotoFacts DEF Pwrite, Typed, TypeOK

LEMMA PwriteEndFacts ==
  ASSUME Typed, NEW w \in Workers, PwriteEnd(w)
  PROVE  /\ pc[w] = "copying" /\ Stays(w, "ftruncate") /\ UNCHANGED <<now, dir, crashes, faults>>
         /\ file'[fd[w]].data = sess[w]
         /\ \A n \in Inodes \ {fd[w]} : file'[n] = file[n]
<1>1. fd[w] \in Inodes
  BY DEF PwriteEnd, Typed, WorkerInv, SaveOpen, SaveLocked
<1> QED BY <1>1, GotoFacts DEF PwriteEnd, Typed, TypeOK

LEMMA FtruncateFacts ==
  ASSUME Typed, NEW w \in Workers, Ftruncate(w)
  PROVE  /\ pc[w] = "ftruncate" /\ Stays(w, "unlock") /\ UNCHANGED <<now, dir, crashes, faults>>
         /\ file'[fd[w]].data = file[fd[w]].data
         /\ \A n \in Inodes \ {fd[w]} : file'[n] = file[n]
<1>1. fd[w] \in Inodes
  BY DEF Ftruncate, Typed, WorkerInv, SaveOpen, SaveLocked
<1> QED BY <1>1, GotoFacts DEF Ftruncate, Typed, TypeOK

LEMMA UnlockFacts ==
  ASSUME Typed, NEW w \in Workers, Unlock(w)
  PROVE  pc[w] = "unlock" /\ Returned(w, "ok") /\ Reading
  BY ReturnFacts DEF Unlock, Reading

(* The steps of a load. *)
LEMMA ExistsFacts ==
  ASSUME Typed, NEW w \in Workers, Exists(w)
  PROVE  /\ pc[w] = "exists" /\ Reading
         /\ \/ LoadPathExists(w) /\ Stays(w, "openRd")
            \/ ~LoadPathExists(w) /\ LoadEnds(w, "null")
  BY GotoFacts, LoadedFacts DEF Exists, LoadUnchanged, Reading

LEMMA OpenRdFacts ==
  ASSUME Typed, NEW w \in Workers, OpenRd(w)
  PROVE  /\ pc[w] = "openRd" /\ Reading
         /\ \/ dir[path[w]] = None /\ LoadEnds(w, "null")
            \/ /\ dir[path[w]] # None /\ pc'[w] = "mmap" /\ fd'[w] = dir[path[w]]
               /\ UNCHANGED <<op[w], path[w], sess[w], mapLen[w], res[w]>>
  BY LoadedFacts DEF OpenRd, LoadUnchanged, Reading, Typed, TypeOK, callVars

Thrown(w, e) == Returned(w, IF op[w] = "removeExpired" THEN "aborted" ELSE e)

LEMMA MmapFacts ==
  ASSUME Typed, NEW w \in Workers, Mmap(w)
  PROVE  /\ pc[w] = "mmap" /\ Reading
         /\ \/ file[fd[w]].size = 0 /\ Thrown(w, "SystemException")
            \/ /\ file[fd[w]].size # 0 /\ pc'[w] = "flockSh" /\ mapLen'[w] = file[fd[w]].size
               /\ UNCHANGED <<op[w], path[w], sess[w], fd[w], res[w]>>
<1>1. CASE file[fd[w]].size = 0
  BY <1>1, ReturnFacts DEF Mmap, Throw, Thrown, LoadUnchanged, Reading
<1>2. CASE file[fd[w]].size # 0
  BY <1>2 DEF Mmap, LoadUnchanged, Reading, Typed, TypeOK, callVars
<1> QED BY <1>1, <1>2

LEMMA FlockShFacts ==
  ASSUME Typed, NEW w \in Workers, FlockSh(w)
  PROVE  pc[w] = "flockSh" /\ Stays(w, "read") /\ Reading
  BY GotoFacts DEF FlockSh, LoadUnchanged, Reading

LEMMA ReadFacts ==
  ASSUME Typed, NEW w \in Workers, Read(w), file[fd[w]].data # Torn
  PROVE  /\ pc[w] = "read" /\ Reading
         /\ \/ /\ Unmarshals(file[fd[w]].data, mapLen[w])
               /\ pc'[w] = "check" /\ sess'[w] = file[fd[w]].data /\ fd'[w] = None
               /\ UNCHANGED <<op[w], path[w], res[w]>>
            \/ ~Unmarshals(file[fd[w]].data, mapLen[w]) /\ Thrown(w, "MarshalException")
<1>1. CASE /\ Unmarshals(file[fd[w]].data, mapLen[w])
           /\ sess' = [sess EXCEPT ![w] = file[fd[w]].data]
           /\ fd' = [fd EXCEPT ![w] = None]
           /\ pc' = [pc EXCEPT ![w] = "check"]
           /\ UNCHANGED <<op, path, res>>
  BY <1>1 DEF Read, LoadUnchanged, Reading, Typed, TypeOK
<1>2. CASE ~Unmarshals(file[fd[w]].data, mapLen[w]) /\ Throw(w, "MarshalException")
  BY <1>2, ReturnFacts DEF Read, Throw, Thrown, LoadUnchanged, Reading
<1> QED BY <1>1, <1>2 DEF Read

LEMMA CheckFacts ==
  ASSUME Typed, NEW w \in Workers, Check(w)
  PROVE  /\ pc[w] = "check" /\ Reading
         /\ \/ /\ IsExpired(sess[w]) /\ pc'[w] = "remove"
               /\ path'[w] = IF op[w] = "removeExpired" THEN sess[w].id ELSE path[w]
               /\ UNCHANGED <<op[w], sess[w], fd[w], res[w]>>
            \/ ~IsExpired(sess[w]) /\ LoadEnds(w, "session")
<1>1. CASE IsExpired(sess[w])
  BY <1>1 DEF Check, LoadUnchanged, Reading, Typed, TypeOK
<1>2. CASE ~IsExpired(sess[w])
  BY <1>2, LoadedFacts DEF Check, LoadUnchanged, Reading
<1> QED BY <1>1, <1>2

LEMMA RemoveFacts ==
  ASSUME Typed, NEW w \in Workers, Remove(w)
  PROVE  /\ pc[w] = "remove" /\ pc'[w] \in {"next", "idle"} /\ UNCHANGED <<now, file, crashes, faults>>
         /\ path[w] \in Ids =>
              /\ dir' = [dir EXCEPT ![path[w]] = None]
              /\ LoadEnds(w, IF op[w] = "destroySession" THEN "ok" ELSE "null")
<1>1. pc[w] = "remove" /\ UNCHANGED <<now, file, crashes, faults>>
  BY DEF Remove
<1>2. CASE Loaded(w, IF op[w] = "destroySession" THEN "ok" ELSE "null")
  BY <1>1, <1>2, LoadedFacts, RemoveStep, FSAssumption DEF LoadEnds, Returned
<1>3. CASE path[w] = None /\ Throw(w, "SessionError")
  BY <1>1, <1>3, ReturnFacts, FSAssumption DEF Throw, Returned
<1> QED BY <1>2, <1>3 DEF Remove

LEMMA NextEntryFacts ==
  ASSUME Typed, NEW w \in Workers, NextEntry(w)
  PROVE  /\ pc[w] = "next" /\ Reading
         /\ \/ Returned(w, "swept")
            \/ /\ pc'[w] = "exists" /\ path'[w] \in Ids
               /\ UNCHANGED <<op[w], sess[w], fd[w], res[w]>>
<1>1. CASE Return(w, "swept")
  BY <1>1, ReturnFacts DEF NextEntry, LoadUnchanged, Reading
<1>2. CASE ~Return(w, "swept")
  BY <1>2 DEF NextEntry, LoadUnchanged, Reading, Typed, TypeOK
<1> QED BY <1>1, <1>2

-----------------------------------------------------------------------------
(* What a step leaves alone.                                               *)

Working(w) == Call(w) \/ Save(w) \/ Load(w)

Others(w) == \A u \in Workers \ {w} :
  /\ pc'[u] = pc[u] /\ op'[u] = op[u] /\ path'[u] = path[u] /\ sess'[u] = sess[u]
  /\ fd'[u] = fd[u] /\ mapLen'[u] = mapLen[u] /\ res'[u] = res[u]

LEMMA OthersStay ==
  ASSUME Typed, NEW w \in Workers, Working(w)
  PROVE  Others(w)
  BY OthersKeep, MapsKeep DEF Working, Step, Others

LEMMA StillNoFailure ==
  ASSUME Typed, NothingFailed, NEW w \in Workers, Working(w)
  PROVE  NothingFailed' /\ now' = now
<1> USE DEF NothingFailed, Reading
<1>1. CASE Call(w)
  BY <1>1, CallFacts
<1>2. CASE Save(w)
  BY <1>2, OpenFacts, FlockExFacts, PwriteFacts, PwriteEndFacts, FtruncateFacts, UnlockFacts DEF Save
<1>3. CASE Load(w)
  BY <1>3, RemoveFacts DEF Load, Exists, OpenRd, Mmap, FlockSh, Read, Check, NextEntry, LoadUnchanged
<1> QED BY <1>1, <1>2, <1>3 DEF Working

(* Reading under LOCK_SH, a worker finds no write half done. *)
LEMMA ReadsNoTorn ==
  ASSUME IInv, NothingFailed, NEW w \in Workers, pc[w] = "read"
  PROVE  file[fd[w]].data # Torn
<1>1. fd[w] \in Inodes
  BY DEF IInv, Typed, WorkerInv, LoadOpen
<1>2. SUFFICES ASSUME file[fd[w]].data = Torn PROVE FALSE
  OBVIOUS
<1>3. PICK u \in Workers : pc[u] = "copying" /\ fd[u] = fd[w]
  BY <1>1, <1>2 DEF IInv, TornInv
<1> QED BY <1>3 DEF IInv, LockExclusion, HoldsEx, HoldsSh, SaveLocked

(* What it reads is a session of the name it asked for. *)
LEMMA ReadsItsName ==
  ASSUME SharedInv, NEW w \in Workers, pc[w] = "read", Unmarshals(file[fd[w]].data, mapLen[w])
  PROVE  /\ file[fd[w]].data \in Session /\ file[fd[w]].data.id = path[w]
         /\ file[fd[w]].data \in seen[w][path[w]]
<1>1. fd[w] \in Inodes /\ path[w] \in Ids
  BY DEF SharedInv, IInv, Typed, WorkerInv, LoadOpen
<1>2. file[fd[w]].data \in Session
  BY <1>1 DEF Unmarshals, SharedInv, IInv, Typed, TypeOK
<1>3. Content(fd[w]) = file[fd[w]].data
  BY ReadsNoTorn DEF Content, SharedInv
<1>4. file[fd[w]].data \in seen[w][path[w]]
  BY <1>1, <1>3 DEF SharedInv, SeenInv, LoadOpen
<1>5. OfName(file[fd[w]].data, path[w])
  BY <1>1, <1>4 DEF SharedInv, SeenInv
<1> QED BY <1>2, <1>4, <1>5, SessionReadable DEF OfName

LEMMA EndsFine ==
  ASSUME NEW w \in Workers, NEW r, LoadEnds(w, r),
         op[w] = "removeExpired" => sess'[w] = None
  PROVE  CallFine(w)'
  BY DEF LoadEnds, Returned, CallFine, Saves, Reads, SaveOpen, SaveLocked, LoadOpen

LEMMA StepCallInv ==
  ASSUME SharedInv, NEW w \in Workers, Working(w)
  PROVE  CallInv'
<1>1. /\ Typed /\ Others(w) /\ CallFine(w) /\ now' = now
      /\ path[w] \in Ids \cup {None}
  BY OthersStay, StillNoFailure DEF SharedInv, IInv, CallInv, Typed, TypeOK
<1>2. ASSUME NEW u \in Workers \ {w} PROVE CallFine(u)'
  <2>1. CallFine(u)
    BY DEF SharedInv, CallInv
  <2> QED BY <1>1, <2>1 DEF Others, CallFine, IsExpired
<1>3. CallFine(w)'
  <2> USE DEF Stays, SaveOpen, SaveLocked, LoadOpen, Saves, Reads
  <2>1. CASE Call(w)
    BY <1>1, <2>1, CallFacts DEF CallFine
  <2>2. CASE Open(w)
    BY <1>1, <2>2, OpenFacts DEF CallFine
  <2>3. CASE FlockEx(w)
    BY <1>1, <2>3, FlockExFacts DEF CallFine
  <2>4. CASE Pwrite(w)
    BY <1>1, <2>4, PwriteFacts DEF CallFine
  <2>5. CASE PwriteEnd(w)
    BY <1>1, <2>5, PwriteEndFacts DEF CallFine
  <2>6. CASE Ftruncate(w)
    BY <1>1, <2>6, FtruncateFacts DEF CallFine
  <2>7. CASE Unlock(w)
    BY <1>1, <2>7, UnlockFacts DEF CallFine, Returned
  <2>8. CASE Exists(w)
    BY <1>1, <2>8, ExistsFacts, EndsFine DEF CallFine, LoadEnds
  <2>9. CASE OpenRd(w)
    BY <1>1, <2>9, OpenRdFacts, EndsFine DEF CallFine, LoadEnds
  <2>10. CASE Mmap(w)
    BY <1>1, <2>10, MmapFacts DEF CallFine, Thrown, Returned
  <2>11. CASE FlockSh(w)
    BY <1>1, <2>11, FlockShFacts DEF CallFine
  <2>12. CASE Read(w)
    <3>1. pc[w] = "read" /\ file[fd[w]].data # Torn
      BY <2>12, ReadsNoTorn DEF Read, SharedInv
    <3> QED BY <1>1, <2>12, <3>1, ReadFacts, ReadsItsName DEF CallFine, Thrown, Returned
  <2>13. CASE Check(w)
    <3>1. pc[w] = "check" /\ sess[w] \in Session /\ op[w] \in Reads /\ path[w] \in Ids
      BY <1>1, <2>13 DEF Check, CallFine, Typed, WorkerInv
    <3>2. sess[w].id \in Ids
      BY <3>1 DEF Session
    <3> QED BY <1>1, <2>13, <3>1, <3>2, CheckFacts, EndsFine DEF CallFine, LoadEnds, IsExpired
  <2>14. CASE Remove(w)
    BY <1>1, <2>14, RemoveFacts, EndsFine DEF CallFine, LoadEnds
  <2>15. CASE NextEntry(w)
    BY <1>1, <2>15, NextEntryFacts DEF CallFine, Returned
  <2> QED BY <2>1, <2>2, <2>3, <2>4, <2>5, <2>6, <2>7, <2>8, <2>9, <2>10, <2>11, <2>12, <2>13,
             <2>14, <2>15 DEF Working, Save, Load
<1> QED BY <1>2, <1>3 DEF CallInv

-----------------------------------------------------------------------------
(* What the files hold, the sessions that are being copied included.       *)

LEMMA ContentCopied ==
  ASSUME LockExclusion, CopyInv, NEW w \in Workers, pc[w] = "copying"
  PROVE  Content(fd[w]) = sess[w]
<1>1. file[fd[w]].data = Torn
  BY DEF CopyInv
<1>2. {u \in Workers : pc[u] = "copying" /\ fd[u] = fd[w]} = {w}
  BY DEF LockExclusion, HoldsEx, SaveLocked
<1> QED BY <1>1, <1>2 DEF Content

LEMMA ContentKept ==
  ASSUME NEW w \in Workers, Others(w), NEW n,
         file'[n].data = file[n].data,
         ~(pc[w] = "copying" /\ fd[w] = n), ~(pc'[w] = "copying" /\ fd'[w] = n)
  PROVE  Content(n)' = Content(n)
<1> DEFINE writers == {u \in Workers : pc[u] = "copying" /\ fd[u] = n}
<1>1. writers' = writers
  BY DEF Others
<1>2. \A u \in writers : sess'[u] = sess[u]
  BY DEF Others
<1>3. writers # {} => (CHOOSE u \in writers : TRUE) \in writers
  OBVIOUS
<1> HIDE DEF writers
<1>4. Content(n) = IF file[n].data = Torn
                   THEN IF writers = {} THEN Torn ELSE sess[CHOOSE u \in writers : TRUE]
                   ELSE file[n].data
  BY DEF Content, writers
<1>5. Content(n)' = IF file'[n].data = Torn
                    THEN IF writers' = {} THEN Torn ELSE sess'[CHOOSE u \in writers' : TRUE]
                    ELSE file'[n].data
  BY DEF Content, writers
<1> QED BY <1>1, <1>2, <1>3, <1>4, <1>5

(* The steps that leave the files alone. *)
Quiet(w) == ~Open(w) /\ ~Pwrite(w) /\ ~PwriteEnd(w) /\ ~Ftruncate(w)

LEMMA QuietFacts ==
  ASSUME SharedInv, NEW w \in Workers, Working(w), Quiet(w)
  PROVE  file' = file /\ pc[w] # "copying" /\ pc'[w] # "copying"
<1>1. Typed /\ NothingFailed'
  BY StillNoFailure DEF SharedInv, IInv
<1>2. file' = file /\ pc[w] # "copying"
  BY <1>1, QuietStep DEF Quiet, Working, Step
<1>3. pc'[w] # "copying"
  <2> USE DEF Stays, LoadEnds, Returned, Thrown
  <2>1. CASE Call(w)
    BY <1>1, <2>1, CallFacts
  <2>2. CASE FlockEx(w)
    BY <1>1, <2>2, FlockExFacts
  <2>3. CASE Unlock(w)
    BY <1>1, <2>3, UnlockFacts
  <2>4. CASE Load(w)
    <3>1. CASE Read(w)
      <4>1. file[fd[w]].data # Torn
        BY <3>1, ReadsNoTorn DEF Read, SharedInv
      <4> QED BY <1>1, <3>1, <4>1, ReadFacts
    <3>2. CASE ~Read(w)
      BY <1>1, <2>4, <3>2, ExistsFacts, OpenRdFacts, MmapFacts, FlockShFacts, CheckFacts, RemoveFacts,
         NextEntryFacts DEF Load
    <3> QED BY <3>1, <3>2
  <2> QED BY <2>1, <2>2, <2>3, <2>4 DEF Working, Save, Quiet
<1> QED BY <1>2, <1>3

LEMMA StepCopyInv ==
  ASSUME SharedInv, NEW w \in Workers, Working(w)
  PROVE  CopyInv'
<1>1. Typed /\ Others(w) /\ LockExclusion
  BY OthersStay DEF SharedInv, IInv
<1>2. SUFFICES ASSUME NEW u \in Workers, pc'[u] = "copying"
               PROVE  file'[fd'[u]].data = Torn
  BY DEF CopyInv
<1>3. CASE Pwrite(w)
  <2>1. CASE u = w
    BY <1>1, <1>3, <2>1, PwriteFacts DEF Stays
  <2>2. CASE u # w
    <3>1. file[fd[u]].data = Torn /\ fd[u] \in Inodes /\ fd'[u] = fd[u]
      BY <1>1, <1>2, <2>2 DEF Others, SharedInv, CopyInv, Typed, WorkerInv, SaveOpen, SaveLocked
    <3> QED BY <1>1, <1>3, <3>1, PwriteFacts
  <2> QED BY <2>1, <2>2
<1>4. ASSUME ~Pwrite(w) PROVE u # w
  BY <1>1, <1>2, <1>4, QuietFacts, OpenFacts, PwriteEndFacts, FtruncateFacts DEF Quiet, Stays
<1>5. CASE ~Pwrite(w)
  <2>1. /\ u # w /\ pc[u] = "copying" /\ fd'[u] = fd[u] /\ file[fd[u]].data = Torn
        /\ fd[u] \in Inodes
    BY <1>1, <1>2, <1>4, <1>5 DEF Others, SharedInv, CopyInv, Typed, WorkerInv, SaveOpen, SaveLocked
  <2>2. CASE Open(w)
    <3>1. PICK n \in Inodes : \/ file' = file
                              \/ Unused(n) /\ file' = [file EXCEPT ![n] = [data |-> None, size |-> 0]]
      BY <1>1, <2>2, OpenFacts
    <3>2. Unused(n) => fd[u] # n
      BY DEF Unused
    <3> QED BY <1>1, <2>1, <3>1, <3>2 DEF Typed, TypeOK
  <2>3. CASE PwriteEnd(w) \/ Ftruncate(w)
    <3>1. fd[u] # fd[w]
      BY <1>1, <2>1, <2>3, PwriteEndFacts, FtruncateFacts DEF LockExclusion, HoldsEx, SaveLocked
    <3> QED BY <1>1, <2>1, <2>3, <3>1, PwriteEndFacts, FtruncateFacts
  <2>4. CASE Quiet(w)
    BY <2>1, <2>4, QuietFacts
  <2> QED BY <1>5, <2>2, <2>3, <2>4 DEF Quiet
<1> QED BY <1>3, <1>5

LEMMA PwriteContent ==
  ASSUME SharedInv, NEW w \in Workers, Pwrite(w), NEW n \in Inodes
  PROVE  Content(n)' = IF n = fd[w] THEN sess[w] ELSE Content(n)
<1>1. Typed /\ Others(w) /\ LockExclusion
  BY OthersStay DEF SharedInv, IInv, Working, Save
<1>2. /\ pc[w] = "pwrite" /\ pc'[w] = "copying" /\ fd'[w] = fd[w] /\ sess'[w] = sess[w]
      /\ file'[fd[w]].data = Torn /\ \A m \in Inodes \ {fd[w]} : file'[m] = file[m]
  BY <1>1, PwriteFacts DEF Stays
<1>3. CASE n = fd[w]
  <2>1. {u \in Workers : pc'[u] = "copying" /\ fd'[u] = n} = {w}
    BY <1>1, <1>2, <1>3 DEF Others, LockExclusion, HoldsEx, SaveLocked
  <2> QED BY <1>2, <1>3, <2>1 DEF Content
<1>4. CASE n # fd[w]
  BY <1>1, <1>2, <1>4, ContentKept
<1> QED BY <1>3, <1>4

LEMMA OpenContent ==
  ASSUME SharedInv, NEW w \in Workers, Open(w), NEW n \in Inodes
  PROVE  Content(n)' = IF fd'[w] = n /\ dir[path[w]] = None THEN None ELSE Content(n)
<1>1. Typed /\ Others(w)
  BY OthersStay DEF SharedInv, IInv, Working, Save
<1>2. /\ pc[w] = "open" /\ pc'[w] = "flockEx" /\ path[w] \in Ids /\ path'[w] = path[w]
      /\ \E m \in Inodes :
              /\ fd'[w] = m
              /\ \/ dir[path[w]] = m /\ dir' = dir /\ file' = file
                 \/ /\ Unused(m) /\ dir[path[w]] = None
                    /\ dir' = [dir EXCEPT ![path[w]] = m]
                    /\ file' = [file EXCEPT ![m] = [data |-> None, size |-> 0]]
  BY <1>1, OpenFacts DEF Typed, WorkerInv
<1>3. CASE fd'[w] = n /\ dir[path[w]] = None
  <2>1. file'[n] = [data |-> None, size |-> 0]
    BY <1>1, <1>2, <1>3, FSAssumption DEF Typed, TypeOK
  <2> QED BY <1>3, <2>1, SessionReadable DEF Content
<1>4. CASE ~(fd'[w] = n /\ dir[path[w]] = None)
  <2>1. file'[n] = file[n]
    BY <1>1, <1>2, <1>4, FSAssumption DEF Typed, TypeOK
  <2> QED BY <1>1, <1>2, <1>4, <2>1, ContentKept
<1> QED BY <1>3, <1>4

LEMMA ContentSteady ==
  ASSUME SharedInv, NEW w \in Workers, Working(w), ~Pwrite(w), ~Open(w), NEW n \in Inodes
  PROVE  Content(n)' = Content(n)
<1>1. Typed /\ Others(w) /\ LockExclusion /\ CopyInv
  BY OthersStay DEF SharedInv, IInv
<1>2. CASE PwriteEnd(w)
  <2>1. /\ pc[w] = "copying" /\ pc'[w] = "ftruncate" /\ sess[w] \in Session
        /\ file'[fd[w]].data = sess[w] /\ \A m \in Inodes \ {fd[w]} : file'[m] = file[m]
    BY <1>1, <1>2, PwriteEndFacts DEF Stays, Typed, WorkerInv, SaveOpen, SaveLocked
  <2>2. CASE n = fd[w]
    <3>1. Content(n)' = sess[w]
      BY <2>1, <2>2, SessionReadable DEF Content
    <3> QED BY <1>1, <2>1, <2>2, <3>1, ContentCopied
  <2>3. CASE n # fd[w]
    BY <1>1, <2>1, <2>3, ContentKept
  <2> QED BY <2>2, <2>3
<1>3. CASE Ftruncate(w)
  BY <1>1, <1>3, FtruncateFacts, ContentKept DEF Stays
<1>4. CASE Quiet(w)
  BY <1>1, <1>4, QuietFacts, ContentKept
<1> QED BY <1>2, <1>3, <1>4 DEF Quiet

-----------------------------------------------------------------------------
(* What the names hold.                                                    *)

(* The moment a save is seen under its name. *)
LEMMA PwriteStored ==
  ASSUME SharedInv, NEW w \in Workers, Pwrite(w)
  PROVE  Stored' = IF Unlinked(w) THEN Stored ELSE [Stored EXCEPT ![path[w]] = sess[w]]
<1>1. /\ Typed /\ dir' = dir /\ pc[w] = "pwrite" /\ path[w] \in Ids
      /\ \A i \in Ids : dir[i] = fd[w] => path[w] = i
  BY PwriteFacts DEF SharedInv, IInv, Typed, WorkerInv, NameInv, SaveOpen, SaveLocked
<1>2. ASSUME NEW i \in Ids
      PROVE  Stored'[i] = IF i = path[w] /\ ~Unlinked(w) THEN sess[w] ELSE Stored[i]
  <2>1. CASE dir[i] = None
    <3>1. fd[w] # None
      BY <1>1, FSAssumption DEF Typed, WorkerInv, SaveOpen, SaveLocked
    <3> QED BY <1>1, <2>1, <3>1 DEF Stored, Unlinked
  <2>2. CASE dir[i] # None
    <3>1. dir[i] \in Inodes
      BY <1>1, <2>2 DEF Typed, TypeOK
    <3>2. Content(dir[i])' = IF dir[i] = fd[w] THEN sess[w] ELSE Content(dir[i])
      <4>1. PICK n \in Inodes : n = dir[i]
        BY <3>1
      <4>2. Content(n)' = IF n = fd[w] THEN sess[w] ELSE Content(n)
        BY PwriteContent
      <4> QED BY <1>1, <4>1, <4>2
    <3> QED BY <1>1, <2>2, <3>2 DEF Stored, Unlinked
  <2> QED BY <2>1, <2>2
<1> QED BY <1>1, <1>2 DEF Stored

(* Only open and unlink change the directory. *)
LEMMA DirSteady ==
  ASSUME Typed, NEW w \in Workers, Working(w), ~Open(w), ~Remove(w)
  PROVE  dir' = dir
<1> USE DEF Reading
<1>1. CASE Call(w)
  BY <1>1, CallFacts
<1>2. CASE Save(w)
  BY <1>2, FlockExFacts, PwriteFacts, PwriteEndFacts, FtruncateFacts, UnlockFacts DEF Save
<1>3. CASE Load(w)
  BY <1>3 DEF Load, Exists, OpenRd, Mmap, FlockSh, Read, Check, NextEntry, LoadUnchanged
<1> QED BY <1>1, <1>2, <1>3 DEF Working

(* Creating a file, and anything a directory does not show, changes no session. *)
LEMMA SteadyStored ==
  ASSUME SharedInv, NEW w \in Workers, Working(w), ~Pwrite(w), ~Remove(w)
  PROVE  Stored' = Stored
<1>1. Typed
  BY DEF SharedInv, IInv
<1>2. CASE Open(w)
  <2>1. PICK n \in Inodes :
          /\ fd'[w] = n
          /\ \/ dir[path[w]] = n /\ dir' = dir
             \/ /\ Unused(n) /\ dir[path[w]] = None
                /\ dir' = [dir EXCEPT ![path[w]] = n]
    BY <1>1, <1>2, OpenFacts
  <2>2. path[w] \in Ids /\ n # None
    BY <1>1, <1>2, FSAssumption DEF Open, Typed, WorkerInv
  <2>3. Content(n)' = IF dir[path[w]] = None THEN None ELSE Content(n)
    BY <1>2, <2>1, OpenContent
  <2>4. ASSUME NEW i \in Ids PROVE Stored'[i] = Stored[i]
    <3>1. CASE i = path[w]
      BY <1>1, <2>1, <2>2, <2>3, <3>1 DEF Stored, Typed, TypeOK
    <3>2. CASE i # path[w] /\ dir[i] # None
      <4>1. dir'[i] = dir[i] /\ dir[i] \in Inodes
        BY <1>1, <2>1, <3>2 DEF Typed, TypeOK
      <4>2. PICK m \in Inodes : m = dir[i]
        BY <4>1
      <4>3. Content(m)' = Content(m)
        <5>1. m = n => dir[path[w]] # None
          BY <2>1, <2>2, <4>2 DEF Unused
        <5> QED BY <1>2, <2>1, <5>1, OpenContent
      <4> QED BY <4>1, <4>2, <4>3 DEF Stored
    <3>3. CASE i # path[w] /\ dir[i] = None
      <4>1. dir'[i] = None
        BY <1>1, <2>1, <3>3 DEF Typed, TypeOK
      <4> QED BY <3>3, <4>1 DEF Stored
    <3> QED BY <3>1, <3>2, <3>3
  <2> QED BY <2>4 DEF Stored
<1>3. CASE ~Open(w)
  <2>1. dir' = dir
    BY <1>1, <1>3, DirSteady
  <2>2. ASSUME NEW i \in Ids PROVE Stored'[i] = Stored[i]
    <3>1. CASE dir[i] # None
      <4>1. PICK m \in Inodes : m = dir[i]
        BY <1>1, <3>1 DEF Typed, TypeOK
      <4>2. Content(m)' = Content(m)
        BY <1>3, ContentSteady
      <4> QED BY <2>1, <4>1, <4>2 DEF Stored
    <3>2. CASE dir[i] = None
      BY <2>1, <3>2 DEF Stored
    <3> QED BY <3>1, <3>2
  <2> QED BY <2>2 DEF Stored
<1> QED BY <1>2, <1>3

LEMMA RemoveStored ==
  ASSUME SharedInv, NEW w \in Workers, Remove(w)
  PROVE  Stored' = [Stored EXCEPT ![path[w]] = None]
<1>1. Typed /\ Working(w) /\ ~Open(w) /\ ~Pwrite(w) /\ path[w] \in Ids
  BY DEF SharedInv, IInv, CallInv, CallFine, Working, Load, Remove, Open, Pwrite
<1>2. dir' = [dir EXCEPT ![path[w]] = None]
  BY <1>1, RemoveFacts
<1>3. ASSUME NEW i \in Ids PROVE Stored'[i] = IF i = path[w] THEN None ELSE Stored[i]
  <2>1. CASE i # path[w] /\ dir[i] # None
    <3>1. PICK m \in Inodes : m = dir[i]
      BY <1>1, <2>1 DEF Typed, TypeOK
    <3>2. Content(m)' = Content(m)
      BY <1>1, ContentSteady
    <3> QED BY <1>1, <1>2, <2>1, <3>1, <3>2 DEF Stored, Typed, TypeOK
  <2>2. CASE i = path[w] \/ dir[i] = None
    BY <1>1, <1>2, <2>2 DEF Stored, Typed, TypeOK
  <2> QED BY <2>1, <2>2
<1> QED BY <1>1, <1>3 DEF Stored

(* A save loses its name by a removal of it, and by nothing else. *)
LEMMA UnlinkedSteady ==
  ASSUME SharedInv, NEW w \in Workers, Working(w), NEW u \in Workers \ {w}
  PROVE  Unlinked(u)' <=> \/ Unlinked(u)
                          \/ Remove(w) /\ pc[u] \in {"flockEx", "pwrite"} /\ path[u] = path[w]
<1>1. Typed /\ Others(w)
  BY OthersStay DEF SharedInv, IInv
<1>2. SUFFICES ASSUME pc[u] \in {"flockEx", "pwrite"}
               PROVE  dir'[path[u]] # fd[u] <=> dir[path[u]] # fd[u] \/ (Remove(w) /\ path[u] = path[w])
  BY <1>1 DEF Others, Unlinked
<1>3. path[u] \in Ids /\ fd[u] \in Inodes /\ fd[u] # None
  BY <1>1, <1>2, FSAssumption DEF Typed, WorkerInv, SaveOpen, SaveLocked
<1>4. CASE Open(w)
  BY <1>1, <1>3, <1>4, OpenFacts DEF Unused, Typed, TypeOK, Open, Remove, WorkerInv
<1>5. CASE Remove(w)
  BY <1>1, <1>3, <1>5 DEF Remove, Typed, TypeOK, WorkerInv
<1>6. CASE ~Open(w) /\ ~Remove(w)
  <2>1. dir' = dir
    BY <1>1, <1>6, DirSteady
  <2> QED BY <1>6, <2>1
<1> QED BY <1>4, <1>5, <1>6

-----------------------------------------------------------------------------
(* What the calls can see.                                                 *)

LEMMA NoCallIdle ==
  ASSUME NEW w \in Workers, CallFine(w)
  PROVE  CallOf(w) = Store!NoCall <=> pc[w] = "idle"
  BY DEF CallFine, CallOf, Store!NoCall, Saves, Reads

LEMMA SeenGrows ==
  ASSUME SharedInv, CallInv', Store!Observe, NEW w \in Workers
  PROVE  /\ pc'[w] = "idle" => raced'[w] = {}
         /\ pc'[w] # "idle" =>
              /\ raced[w] \subseteq raced'[w]
              /\ \A u \in Workers : op'[u] \in Saves => path'[u] \in raced'[w]
         /\ \A i \in Ids :
              /\ \A s \in seen'[w][i] :
                   \/ s \in seen[w][i] \/ s = Stored'[i] \/ s = None
                   \/ \E u \in Workers : op[u] \in Saves /\ path[u] = i /\ s = sess[u]
              /\ pc'[w] # "idle" => Stored'[i] \in seen'[w][i]
              /\ pc'[w] # "idle" /\ pc[w] # "idle" =>
                   /\ seen[w][i] \subseteq seen'[w][i]
                   /\ \A u \in Workers :
                        op[u] \in Saves /\ path[u] = i /\ ~Done(u) /\ Done(u)' => sess[u] \in seen'[w][i]
<1>1. /\ CallOf(w) = Store!NoCall <=> pc[w] = "idle"
      /\ (CallOf(w) = Store!NoCall)' <=> pc'[w] = "idle"
  <2>1. CallFine(w) /\ CallFine(w)'
    BY DEF SharedInv, CallInv
  <2>2. CallFine(w)' => ((CallOf(w) = Store!NoCall)' <=> pc'[w] = "idle")
    BY DEF CallFine, CallOf, Store!NoCall, Saves, Reads
  <2> QED BY <2>1, <2>2, NoCallIdle
<1>2. raced'[w] = IF pc'[w] = "idle" THEN {}
                  ELSE raced[w] \cup {CallOf(u).id' : u \in {v \in Workers : op'[v] \in Saves}}
  BY <1>1 DEF Store!Observe, Store!Saving, CallOf, Saves
<1>3. ASSUME NEW i \in Ids
      PROVE  seen'[w][i] = IF pc'[w] = "idle" THEN {}
                           ELSE IF pc[w] = "idle" THEN {Stored'[i]}
                           ELSE seen[w][i] \cup {Stored'[i]} \cup
                             {CallOf(u).save : u \in {v \in Workers : CallOf(v).id = i /\ ~Done(v) /\ Done(v)'}}
  BY <1>1 DEF Store!Observe, Store!Passing, Store!Idle
<1>4. \A u \in Workers : op'[u] \in Saves => CallOf(u).id' = path'[u]
  BY DEF CallOf, Saves
<1>5. \A i \in Ids : \A u \in Workers : op[u] \in Saves => CallOf(u).save = sess[u] /\ CallOf(u).id = path[u]
  BY DEF CallOf, Saves
<1>6. \A u \in Workers : op[u] \notin Saves => CallOf(u).save = None
  BY DEF CallOf
<1>7. pc'[w] = "idle" => raced'[w] = {}
  BY <1>2
<1>8. pc'[w] # "idle" =>
        /\ raced[w] \subseteq raced'[w]
        /\ \A u \in Workers : op'[u] \in Saves => path'[u] \in raced'[w]
  BY <1>2, <1>4
<1>9. ASSUME NEW i \in Ids
      PROVE
              /\ \A s \in seen'[w][i] :
                   \/ s \in seen[w][i] \/ s = Stored'[i] \/ s = None
                   \/ \E u \in Workers : op[u] \in Saves /\ path[u] = i /\ s = sess[u]
              /\ pc'[w] # "idle" => Stored'[i] \in seen'[w][i]
              /\ pc'[w] # "idle" /\ pc[w] # "idle" =>
                   /\ seen[w][i] \subseteq seen'[w][i]
                   /\ \A u \in Workers :
                        op[u] \in Saves /\ path[u] = i /\ ~Done(u) /\ Done(u)' => sess[u] \in seen'[w][i]
  <2> DEFINE passed == {CallOf(u).save : u \in {v \in Workers : CallOf(v).id = i /\ ~Done(v) /\ Done(v)'}}
  <2>1. ASSUME NEW s \in passed
        PROVE  s = None \/ \E u \in Workers : op[u] \in Saves /\ path[u] = i /\ s = sess[u]
    <3>1. PICK u \in Workers : CallOf(u).id = i /\ s = CallOf(u).save
      OBVIOUS
    <3> QED BY <1>5, <1>6, <3>1
  <2>2. ASSUME NEW u \in Workers, op[u] \in Saves, path[u] = i, ~Done(u), Done(u)'
        PROVE  sess[u] \in passed
    BY <1>5, <2>2
  <2> HIDE DEF passed
  <2>3. seen'[w][i] = IF pc'[w] = "idle" THEN {}
                      ELSE IF pc[w] = "idle" THEN {Stored'[i]}
                      ELSE seen[w][i] \cup {Stored'[i]} \cup passed
    BY <1>3 DEF passed
  <2> QED BY <2>1, <2>2, <2>3
<1> QED BY <1>7, <1>8, <1>9

-----------------------------------------------------------------------------
(* Every step keeps the invariant.                                         *)

LEMMA StepStoredInv ==
  ASSUME SharedInv, NEW w \in Workers, Working(w)
  PROVE  StoredInv'
<1>1. /\ \A i \in Ids : OfName(Stored[i], i)
      /\ Stored = [i \in Ids |-> Stored[i]]
  BY DEF SharedInv, StoredInv, Stored
<1>2. CASE Pwrite(w)
  <2>1. path[w] \in Ids /\ OfName(sess[w], path[w])
    BY <1>2 DEF Pwrite, SharedInv, IInv, Typed, WorkerInv, OfName, SaveOpen, SaveLocked
  <2>2. \A i \in Ids : Stored'[i] = Stored[i] \/ (i = path[w] /\ Stored'[i] = sess[w])
    BY <1>1, <1>2, PwriteStored
  <2> QED BY <1>1, <2>1, <2>2 DEF StoredInv, OfName
<1>3. CASE Remove(w)
  <2>1. \A i \in Ids : Stored'[i] = Stored[i] \/ Stored'[i] = None
    BY <1>1, <1>3, RemoveStored
  <2> QED BY <1>1, <2>1 DEF StoredInv, OfName
<1>4. CASE ~Pwrite(w) /\ ~Remove(w)
  BY <1>1, <1>4, SteadyStored DEF StoredInv, OfName
<1> QED BY <1>2, <1>3, <1>4

(* Where a worker with an open file for reading was. *)
LEMMA LoadOpenFrom ==
  ASSUME SharedInv, NEW w \in Workers, Working(w), pc'[w] \in LoadOpen
  PROVE  \/ /\ OpenRd(w) /\ dir[path[w]] # None /\ pc'[w] = "mmap" /\ fd'[w] = dir[path[w]]
            /\ path[w] \in Ids /\ path'[w] = path[w] /\ op'[w] = op[w] /\ file' = file /\ dir' = dir
         \/ /\ Mmap(w) \/ FlockSh(w)
            /\ pc[w] \in LoadOpen /\ fd'[w] = fd[w] /\ path'[w] = path[w] /\ op'[w] = op[w]
            /\ file' = file /\ dir' = dir
<1> USE DEF Stays, LoadEnds, Returned, Thrown, LoadOpen, SaveOpen, SaveLocked, Reading
<1>1. Typed
  BY DEF SharedInv, IInv
<1>2. CASE Call(w)
  BY <1>1, <1>2, CallFacts
<1>3. CASE Save(w)
  BY <1>1, <1>3, OpenFacts, FlockExFacts, PwriteFacts, PwriteEndFacts, FtruncateFacts, UnlockFacts DEF Save
<1>4. CASE OpenRd(w)
  BY <1>1, <1>4, OpenRdFacts DEF Typed, WorkerInv
<1>5. CASE Mmap(w) \/ FlockSh(w)
  BY <1>1, <1>5, MmapFacts, FlockShFacts
<1>6. CASE Read(w)
  <2>1. file[fd[w]].data # Torn
    BY <1>6, ReadsNoTorn DEF Read, SharedInv
  <2> QED BY <1>1, <1>6, <2>1, ReadFacts
<1>7. CASE Exists(w) \/ Check(w) \/ Remove(w) \/ NextEntry(w)
  BY <1>1, <1>7, ExistsFacts, CheckFacts, RemoveFacts, NextEntryFacts
<1> QED BY <1>2, <1>3, <1>4, <1>5, <1>6, <1>7 DEF Working, Load

(* How a worker comes to have a file open for writing. *)
LEMMA SaveFrom ==
  ASSUME SharedInv, NEW w \in Workers, Working(w), pc'[w] \in {"flockEx", "pwrite"}
  PROVE  Open(w) \/ FlockEx(w)
<1> USE DEF Stays, LoadEnds, Returned, Thrown
<1>1. Typed
  BY DEF SharedInv, IInv
<1>2. CASE Call(w)
  BY <1>1, <1>2, CallFacts
<1>3. CASE Save(w)
  BY <1>1, <1>3, PwriteFacts, PwriteEndFacts, FtruncateFacts, UnlockFacts DEF Save
<1>4. CASE Read(w)
  <2>1. file[fd[w]].data # Torn
    BY <1>4, ReadsNoTorn DEF Read, SharedInv
  <2> QED BY <1>1, <1>4, <2>1, ReadFacts
<1>5. CASE Load(w) /\ ~Read(w)
  BY <1>1, <1>5, ExistsFacts, OpenRdFacts, MmapFacts, FlockShFacts, CheckFacts, RemoveFacts,
     NextEntryFacts DEF Load
<1> QED BY <1>2, <1>3, <1>4, <1>5 DEF Working

LEMMA StepLoadNameInv ==
  ASSUME SharedInv, NEW w \in Workers, Working(w)
  PROVE  LoadNameInv'
<1>1. Typed /\ Others(w) /\ OneNamePerFile
  BY OthersStay DEF SharedInv, IInv
<1>2. SUFFICES ASSUME NEW u \in Workers, NEW i \in Ids, pc'[u] \in LoadOpen, dir'[i] = fd'[u]
               PROVE  path'[u] = i
  BY DEF LoadNameInv, LoadOpen
<1>3. CASE u = w
  BY <1>1, <1>2, <1>3, LoadOpenFrom DEF SharedInv, LoadNameInv, OneNamePerFile
<1>4. CASE u # w
  <2>1. /\ pc[u] \in LoadOpen /\ fd'[u] = fd[u] /\ path'[u] = path[u] /\ fd[u] \in Inodes /\ fd[u] # None
        /\ dir[i] = fd[u] => path[u] = i
    BY <1>1, <1>2, <1>4, FSAssumption DEF Others, Typed, WorkerInv, SharedInv, LoadNameInv
  <2>2. dir[i] = fd[u]
    <3>1. CASE Open(w)
      BY <1>1, <1>2, <2>1, <3>1, OpenFacts DEF Unused, Typed, TypeOK
    <3>2. CASE Remove(w)
      BY <1>1, <1>2, <2>1, <3>2 DEF Remove, Typed, TypeOK
    <3>3. CASE ~Open(w) /\ ~Remove(w)
      BY <1>1, <1>2, <2>1, <3>3, DirSteady
    <3> QED BY <3>1, <3>2, <3>3
  <2> QED BY <2>1, <2>2
<1> QED BY <1>3, <1>4

LEMMA StepRacedInv ==
  ASSUME SharedInv, CallInv', Store!Observe
  PROVE  RacedInv'
  BY SeenGrows DEF RacedInv

(* What a load may have to reckon with: a save of the name, at some moment. *)
Whole(w) ==
  /\ \A u \in Workers : pc[u] \in SaveOpen => fd[u] # fd[w]
  /\ file[fd[w]].data \in Session
  /\ file[fd[w]].size = Marshalled(file[fd[w]].data)
  /\ pc[w] # "mmap" => mapLen[w] = file[fd[w]].size

LEMMA StepWholeInv ==
  ASSUME SharedInv, NEW w \in Workers, Working(w), IInv', NothingFailed', CallInv', Store!Observe
  PROVE  WholeInv'
<1>1. Typed /\ Others(w) /\ QuiescentReadable' /\ Typed'
  BY OthersStay DEF SharedInv, IInv
<1>2. SUFFICES ASSUME NEW u \in Workers, pc'[u] \in LoadOpen
               PROVE  path'[u] \in raced'[u] \/ Whole(u)'
  BY DEF WholeInv, LoadOpen, Whole
<1>3. \A v \in Workers : op'[v] \in Saves => path'[v] \in raced'[u]
  BY <1>2, SeenGrows DEF LoadOpen
<1>4. CASE u = w /\ OpenRd(w)
  <2>1. /\ dir'[path'[w]] = fd'[w] /\ dir'[path'[w]] # None /\ path'[w] \in Ids /\ pc'[w] = "mmap"
        /\ fd'[w] \in Inodes
    BY <1>1, <1>2, <1>4, LoadOpenFrom DEF OpenRd, Mmap, FlockSh, Typed, TypeOK
  <2>2. CASE \E v \in Workers : pc'[v] \in SaveOpen /\ fd'[v] = fd'[w]
    <3>1. PICK v \in Workers : pc'[v] \in SaveOpen /\ fd'[v] = fd'[w]
      BY <2>2
    <3>2. path'[v] = path'[w]
      BY <2>1, <3>1 DEF IInv, NameInv
    <3>3. op'[v] \in Saves
      BY <3>1 DEF CallInv, CallFine
    <3> QED BY <1>3, <1>4, <3>2, <3>3
  <2>3. CASE ~\E v \in Workers : pc'[v] \in SaveOpen /\ fd'[v] = fd'[w]
    <3>1. /\ file'[fd'[w]].data \notin {None, Torn}
          /\ file'[fd'[w]].size = Marshalled(file'[fd'[w]].data)
      BY <1>1, <2>1, <2>3 DEF QuiescentReadable, Marshalled
    <3>2. file'[fd'[w]].data \in Session
      BY <1>1, <2>1, <3>1 DEF Typed, TypeOK
    <3> QED BY <1>4, <2>1, <2>3, <3>1, <3>2 DEF Whole, Marshalled
  <2> QED BY <2>2, <2>3
<1>5. ASSUME pc[u] \in LoadOpen PROVE raced[u] \subseteq raced'[u] /\ (path[u] \in raced[u] \/ Whole(u))
  BY <1>2, <1>5, SeenGrows DEF LoadOpen, SharedInv, WholeInv, Whole
<1>6. CASE u = w /\ ~OpenRd(w)
  <2>1. /\ Mmap(w) \/ FlockSh(w)
        /\ pc[w] \in LoadOpen /\ fd'[w] = fd[w] /\ path'[w] = path[w] /\ file' = file
    BY <1>2, <1>6, LoadOpenFrom
  <2>2. Whole(w) => \A v \in Workers : pc'[v] \in SaveOpen => fd'[v] # fd[w]
    BY <1>1, <1>2, <1>6, <2>1 DEF Others, Whole, LoadOpen, SaveOpen, SaveLocked
  <2>3. Whole(w) => pc'[w] # "mmap" /\ mapLen'[w] = file[fd[w]].size
    BY <1>1, <1>2, <1>6, <2>1, MmapFacts, FlockShFacts DEF Stays, Whole, LoadOpen, Thrown, Returned
  <2> QED BY <1>5, <1>6, <2>1, <2>2, <2>3 DEF Whole, Marshalled
<1>7. CASE u # w
  <2>1. /\ pc[u] \in LoadOpen /\ pc'[u] = pc[u] /\ fd'[u] = fd[u] /\ path'[u] = path[u]
        /\ mapLen'[u] = mapLen[u] /\ fd[u] \in Inodes /\ fd[u] # None
    BY <1>1, <1>2, <1>7, FSAssumption DEF Others, Typed, WorkerInv
  <2>2. SUFFICES ASSUME Whole(u), path'[u] \notin raced'[u] PROVE Whole(u)'
    BY <1>5, <2>1
  <2>3. CASE Open(w)
    <3>1. PICK n \in Inodes :
              /\ fd'[w] = n
              /\ \/ dir[path[w]] = n /\ dir' = dir /\ file' = file
                 \/ Unused(n) /\ file' = [file EXCEPT ![n] = [data |-> None, size |-> 0]]
      BY <1>1, <2>3, OpenFacts
    <3>2. path[w] \in Ids /\ path'[w] = path[w] /\ op'[w] \in Saves
      BY <1>1, <2>3, OpenFacts DEF Typed, WorkerInv, SharedInv, CallInv, CallFine
    <3>3. n # fd[u]
      <4>1. path[u] # path[w]
        BY <1>3, <2>1, <2>2, <3>2
      <4>2. dir[path[w]] # fd[u]
        BY <2>1, <3>2, <4>1 DEF SharedInv, LoadNameInv, LoadOpen
      <4> QED BY <3>1, <4>2 DEF Unused
    <3>4. file'[fd[u]] = file[fd[u]]
      BY <1>1, <2>1, <3>1, <3>3 DEF Typed, TypeOK
    <3> QED BY <1>1, <2>1, <2>2, <3>1, <3>3, <3>4 DEF Whole, Others, Marshalled
  <2>4. CASE Pwrite(w) \/ PwriteEnd(w) \/ Ftruncate(w)
    <3>1. pc[w] \in SaveOpen /\ fd'[w] = fd[w]
      BY <1>1, <2>4, PwriteFacts, PwriteEndFacts, FtruncateFacts DEF Stays, SaveOpen, SaveLocked
    <3>2. fd[w] # fd[u]
      BY <2>2, <3>1 DEF Whole
    <3>3. file'[fd[u]] = file[fd[u]]
      BY <1>1, <2>1, <2>4, <3>2, PwriteFacts, PwriteEndFacts, FtruncateFacts
    <3> QED BY <1>1, <2>1, <2>2, <3>1, <3>2, <3>3 DEF Whole, Others, Marshalled
  <2>5. CASE Quiet(w)
    <3>1. file' = file
      BY <2>5, QuietFacts
    <3>2. pc'[w] \in SaveOpen => pc[w] \in SaveOpen /\ fd'[w] = fd[w]
      BY <1>1, <2>5, QuietStep DEF Quiet, Working, Step
    <3> QED BY <1>1, <2>1, <2>2, <3>1, <3>2 DEF Whole, Others, Marshalled
  <2> QED BY <2>3, <2>4, <2>5 DEF Quiet
<1> QED BY <1>4, <1>6, <1>7

(* A save that has its file open and has not written has not taken effect,  *)
(* unless the file has lost its name.                                       *)
LEMMA LateToTheName ==
  ASSUME SharedInv, NEW w \in Workers, Working(w), NEW u \in Workers \ {w},
         Unlinked(u)', ~Unlinked(u)
  PROVE  /\ Remove(w) /\ path[u] = path[w] /\ dir[path[u]] = fd[u]
         /\ op[u] \in Saves /\ path[u] \in Ids /\ ~Done(u) /\ Done(u)'
<1>1. Others(w)
  BY OthersStay DEF SharedInv, IInv
<1>2. Remove(w) /\ pc[u] \in {"flockEx", "pwrite"} /\ path[u] = path[w]
  BY UnlinkedSteady
<1>3. op[u] \in Saves /\ path[u] \in Ids
  BY <1>2 DEF SharedInv, CallInv, CallFine, IInv, Typed, WorkerInv, SaveOpen, SaveLocked
<1> QED BY <1>1, <1>2, <1>3 DEF Done, Unlinked, Written, Others

LEMMA StepSeenInv ==
  ASSUME SharedInv, NEW w \in Workers, Working(w), IInv', CallInv', StoredInv', Store!Observe
  PROVE  SeenInv'
<1>1. Typed /\ Others(w) /\ Typed'
  BY OthersStay DEF SharedInv, IInv
<1>2. ASSUME NEW u \in Workers, NEW i \in Ids, NEW s \in seen'[u][i]
      PROVE  OfName(s, i)
  <2>1. \/ s \in seen[u][i] \/ s = Stored'[i] \/ s = None
        \/ \E v \in Workers : op[v] \in Saves /\ path[v] = i /\ s = sess[v]
    BY <1>2, SeenGrows
  <2>2. OfName(Stored'[i], i)
    BY DEF StoredInv, OfName
  <2>3. s \in seen[u][i] => OfName(s, i)
    BY DEF SharedInv, SeenInv
  <2>4. ASSUME NEW v \in Workers, op[v] \in Saves, path[v] = i, s = sess[v] PROVE OfName(s, i)
    BY <2>4 DEF SharedInv, CallInv, CallFine, IInv, Typed, WorkerInv, OfName
  <2> QED BY <2>1, <2>2, <2>3, <2>4 DEF OfName
<1>3. ASSUME NEW u \in Workers, pc'[u] # "idle", NEW i \in Ids
      PROVE  Stored'[i] \in seen'[u][i]
  BY <1>3, SeenGrows
<1>4. ASSUME NEW u \in Workers, pc'[u] \in LoadOpen
      PROVE  /\ Content(fd[u])' \in seen'[u][path'[u]]
             /\ \A v \in Workers : fd'[v] = fd'[u] /\ Unlinked(v)' => sess'[v] \in seen'[u][path'[u]]
  <2>1. CASE u = w /\ OpenRd(w)
    <3>1. /\ fd'[w] = dir'[path'[w]] /\ dir'[path'[w]] # None /\ path'[w] \in Ids /\ pc'[w] = "mmap"
      BY <1>4, <2>1, LoadOpenFrom DEF OpenRd, Mmap, FlockSh
    <3>2. Content(fd[w])' \in seen'[w][path'[w]]
      <4>1. Content(fd[w])' = Stored'[path'[w]]
        BY <3>1 DEF Stored, Content
      <4> QED BY <1>3, <3>1, <4>1
    <3>3. ASSUME NEW v \in Workers, fd'[v] = fd'[w], Unlinked(v)' PROVE FALSE
      <4>1. pc'[v] \in SaveOpen /\ dir'[path'[v]] # fd'[v]
        BY <3>3 DEF Unlinked, SaveOpen, SaveLocked
      <4> QED BY <3>1, <3>3, <4>1 DEF IInv, NameInv
    <3> QED BY <2>1, <3>2, <3>3
  <2>2. CASE ~(u = w /\ OpenRd(w))
    <3>1. /\ pc[u] \in LoadOpen /\ fd'[u] = fd[u] /\ path'[u] = path[u] /\ fd[u] \in Inodes /\ fd[u] # None
          /\ path[u] \in Ids
      <4>1. CASE u = w
        BY <1>1, <1>4, <2>2, <4>1, LoadOpenFrom, FSAssumption DEF Typed, WorkerInv, LoadOpen
      <4>2. CASE u # w
        BY <1>1, <1>4, <4>2, FSAssumption DEF Typed, WorkerInv, LoadOpen, Others
      <4> QED BY <4>1, <4>2
    <3>2. /\ Content(fd[u]) \in seen[u][path[u]]
          /\ \A v \in Workers : fd[v] = fd[u] /\ Unlinked(v) => sess[v] \in seen[u][path[u]]
      BY <3>1 DEF SharedInv, SeenInv
    <3>3. /\ seen[u][path[u]] \subseteq seen'[u][path[u]]
          /\ \A v \in Workers : op[v] \in Saves /\ path[v] = path[u] /\ ~Done(v) /\ Done(v)'
                                  => sess[v] \in seen'[u][path[u]]
      BY <1>4, <3>1, SeenGrows DEF LoadOpen
    <3>4. Content(fd[u])' \in seen'[u][path[u]]
      <4>1. PICK n \in Inodes : n = fd[u]
        BY <3>1
      <4>2. Content(n)' \in seen'[u][path[u]]
        <5>1. CASE Pwrite(w)
          <6>1. CASE n # fd[w]
            BY <3>2, <3>3, <4>1, <5>1, <6>1, PwriteContent
          <6>2. CASE n = fd[w] /\ Unlinked(w)
            BY <3>2, <3>3, <4>1, <5>1, <6>2, PwriteContent
          <6>3. CASE n = fd[w] /\ ~Unlinked(w)
            <7>1. pc[w] = "pwrite" /\ path[w] \in Ids /\ dir[path[w]] = fd[u]
              BY <4>1, <5>1, <6>3 DEF Pwrite, Unlinked, SharedInv, IInv, Typed, WorkerInv, SaveOpen,
                 SaveLocked
            <7>2. path[u] = path[w]
              BY <3>1, <7>1 DEF SharedInv, LoadNameInv, LoadOpen
            <7>3. Stored'[path[u]] = sess[w]
              BY <5>1, <6>3, <7>1, <7>2, PwriteStored DEF Stored
            <7>4. Stored'[path[u]] \in seen'[u][path[u]]
              BY <1>3, <1>4, <3>1 DEF LoadOpen
            <7> QED BY <5>1, <6>3, <7>3, <7>4, PwriteContent
          <6> QED BY <6>1, <6>2, <6>3
        <5>2. CASE Open(w)
          <6>1. ~(fd'[w] = n /\ dir[path[w]] = None)
            BY <1>1, <3>1, <4>1, <5>2, OpenFacts DEF Unused
          <6> QED BY <3>2, <3>3, <4>1, <5>2, <6>1, OpenContent
        <5>3. CASE ~Pwrite(w) /\ ~Open(w)
          BY <3>2, <3>3, <4>1, <5>3, ContentSteady
        <5> QED BY <5>1, <5>2, <5>3
      <4> QED BY <3>1, <4>1, <4>2
    <3>5. ASSUME NEW v \in Workers, fd'[v] = fd'[u], Unlinked(v)'
          PROVE  sess'[v] \in seen'[u][path[u]]
      <4>1. CASE v # w /\ Unlinked(v)
        BY <1>1, <3>1, <3>2, <3>3, <3>5, <4>1 DEF Others
      <4>2. CASE v # w /\ ~Unlinked(v)
        <5>1. /\ path[v] \in Ids /\ dir[path[v]] = fd[v] /\ op[v] \in Saves /\ ~Done(v) /\ Done(v)'
              /\ fd[v] = fd[u] /\ sess'[v] = sess[v]
          BY <1>1, <3>1, <3>5, <4>2, LateToTheName DEF Others
        <5>2. path[u] = path[v]
          BY <3>1, <5>1 DEF SharedInv, LoadNameInv, LoadOpen
        <5> QED BY <3>3, <5>1, <5>2
      <4>3. CASE v = w
        <5> USE DEF Stays, LoadEnds, Returned, Thrown
        <5>1. pc'[w] \in {"flockEx", "pwrite"} /\ dir'[path'[w]] # fd'[w]
          BY <3>5, <4>3 DEF Unlinked
        <5>2. CASE FlockEx(w)
          <6>1. Unlinked(w) /\ fd'[w] = fd[w] /\ sess'[w] = sess[w]
            BY <1>1, <5>1, <5>2, FlockExFacts DEF Unlinked, Reading
          <6> QED BY <3>1, <3>2, <3>3, <3>5, <4>3, <6>1
        <5>3. CASE Open(w)
          <6>1. dir \in [Ids -> Inodes \cup {None}] /\ (pc[w] = "open" => path[w] \in Ids)
            BY <1>1 DEF Typed, TypeOK, WorkerInv
          <6>2. path'[w] = path[w] /\ dir'[path[w]] = fd'[w]
            BY <1>1, <5>3, <6>1, OpenFacts
          <6> QED BY <5>1, <6>2
        <5>4. CASE ~FlockEx(w) /\ ~Open(w)
          BY <5>1, <5>4, SaveFrom
        <5> QED BY <5>2, <5>3, <5>4
      <4> QED BY <4>1, <4>2, <4>3
    <3> QED BY <3>1, <3>4, <3>5
  <2> QED BY <2>1, <2>2
<1> QED BY <1>2, <1>3, <1>4 DEF SeenInv

(* The clock, and a step that leaves the files and the workers. *)
LEMMA IdleSharedInv ==
  ASSUME SharedInv, Tick \/ UNCHANGED vars, IInv',
         Store!Observe \/ UNCHANGED <<seen, raced>>
  PROVE  SharedInv'
<1>1. /\ UNCHANGED <<dir, file, pc, fd, mapLen, op, path, sess, crashes, faults>>
      /\ now \in Nat /\ now' \in {now, now + 1}
  BY DEF Tick, vars, callVars, SharedInv, IInv, Typed, TypeOK
<1>2. \A n : Content(n)' = Content(n)
  BY <1>1 DEF Content
<1>3. Stored' = Stored /\ \A u \in Workers : Unlinked(u)' = Unlinked(u) /\ Done(u)' = Done(u)
  BY <1>1, <1>2 DEF Stored, Unlinked, Done, Written
<1>4. CallInv'
  <2>1. ASSUME NEW s \in Session, IsExpired(s) PROVE IsExpired(s)'
    <3>1. s.lastUsed \in Nat /\ s.duration \in Int
      BY DurationsAreIntegers DEF Session
    <3> QED BY <1>1, <2>1, <3>1 DEF IsExpired
  <2>2. ASSUME NEW u \in Workers PROVE CallFine(u)'
    <3>1. CallFine(u)
      BY DEF SharedInv, CallInv
    <3>2. IsExpired(sess[u])' <=> sess[u].lastUsed + sess[u].duration < now'
      BY <1>1 DEF IsExpired
    <3>3. sess[u] \in Session /\ IsExpired(sess[u]) => IsExpired(sess[u])'
      BY <2>1, <3>2 DEF IsExpired
    <3> QED BY <1>1, <3>1, <3>3 DEF CallFine
  <2> QED BY <2>2 DEF CallInv
<1>5. CopyInv' /\ LoadNameInv' /\ NothingFailed'
  BY <1>1 DEF SharedInv, CopyInv, LoadNameInv, NothingFailed
<1>6. StoredInv'
  BY <1>3 DEF SharedInv, StoredInv, OfName
<1>7. ASSUME NEW u \in Workers
      PROVE  /\ pc[u] # "idle" => /\ raced[u] \subseteq raced'[u]
                                /\ \A i \in Ids : seen[u][i] \subseteq seen'[u][i]
             /\ \A i \in Ids : \A s \in seen'[u][i] : OfName(s, i)
             /\ pc[u] # "idle" => \A v \in Workers : op[v] \in Saves => path[v] \in raced'[u]
  <2>1. CASE Store!Observe
    <3>1. ASSUME NEW i \in Ids, NEW s \in seen'[u][i] PROVE OfName(s, i)
      <4>1. \/ s \in seen[u][i] \/ s = Stored[i] \/ s = None
            \/ \E v \in Workers : op[v] \in Saves /\ path[v] = i /\ s = sess[v]
        BY <1>3, <1>4, <2>1, <3>1, SeenGrows
      <4>2. ASSUME NEW v \in Workers, op[v] \in Saves, path[v] = i, s = sess[v] PROVE OfName(s, i)
        BY <4>2 DEF SharedInv, CallInv, CallFine, IInv, Typed, WorkerInv, OfName
      <4> QED BY <4>1, <4>2 DEF SharedInv, SeenInv, StoredInv, OfName
    <3> QED BY <1>1, <1>4, <2>1, <3>1, SeenGrows
  <2>2. CASE UNCHANGED <<seen, raced>>
    BY <2>2 DEF SharedInv, SeenInv, RacedInv
  <2> QED BY <2>1, <2>2
<1>8. RacedInv'
  BY <1>1, <1>7 DEF RacedInv
<1>9. SeenInv'
  <2>1. ASSUME NEW u \in Workers, pc[u] # "idle", NEW i \in Ids PROVE Stored'[i] \in seen'[u][i]
    BY <1>3, <1>7, <2>1 DEF SharedInv, SeenInv
  <2>2. ASSUME NEW u \in Workers, pc[u] \in LoadOpen
        PROVE  /\ Content(fd[u])' \in seen'[u][path[u]]
               /\ \A v \in Workers : fd[v] = fd[u] /\ Unlinked(v) => sess[v] \in seen'[u][path[u]]
    <3>1. path[u] \in Ids /\ pc[u] # "idle"
      BY <2>2 DEF SharedInv, IInv, Typed, WorkerInv, LoadOpen
    <3>2. Content(fd[u])' = Content(fd[u])
      BY <1>1 DEF Content
    <3> QED BY <1>7, <2>2, <3>1, <3>2 DEF SharedInv, SeenInv
  <2> QED BY <1>1, <1>3, <1>7, <2>1, <2>2 DEF SeenInv, OfName, LoadOpen
<1>10. WholeInv'
  BY <1>1, <1>7 DEF SharedInv, WholeInv, LoadOpen, Marshalled
<1> QED BY <1>4, <1>5, <1>6, <1>8, <1>9, <1>10 DEF SharedInv

LEMMA StepSharedInv ==
  ASSUME SharedInv, NothingFailed', [SharedNext]_<<vars, seen, raced>>
  PROVE  SharedInv'
<1>1. IInv'
  BY StepIInv DEF SharedInv, SharedNext, vars
<1>2. CASE Tick \/ UNCHANGED vars
  BY <1>1, <1>2, IdleSharedInv DEF SharedNext
<1>3. ASSUME NEW w \in Workers, Call(w) \/ Save(w) \/ Load(w) \/ Fault(w), SharedNext
      PROVE  SharedInv'
  <2>1. Working(w) /\ Store!Observe
    BY <1>3, FaultsCount DEF Working, SharedNext, SharedInv, IInv
  <2>2. CallInv' /\ CopyInv' /\ StoredInv' /\ LoadNameInv'
    BY <2>1, StepCallInv, StepCopyInv, StepStoredInv, StepLoadNameInv
  <2> QED BY <1>1, <2>1, <2>2, StepSeenInv, StepRacedInv, StepWholeInv DEF SharedInv
<1> QED BY <1>2, <1>3 DEF SharedNext, Next

LEMMA InitSharedInv == SharedInit => SharedInv
<1> SUFFICES ASSUME SharedInit PROVE SharedInv
  OBVIOUS
<1>1. IInv
  BY InitIInv DEF SharedInit
<1> USE DEF SharedInit, Init, SaveOpen, SaveLocked, LoadOpen, Saves, Reads
<1>2. NothingFailed /\ CallInv /\ CopyInv /\ LoadNameInv
  BY DEF NothingFailed, CallInv, CallFine, CopyInv, LoadNameInv
<1>3. StoredInv
  BY DEF StoredInv, Stored, OfName
<1>4. SeenInv /\ RacedInv /\ WholeInv
  BY DEF SeenInv, RacedInv, WholeInv
<1> QED BY <1>1, <1>2, <1>3, <1>4 DEF SharedInv

-----------------------------------------------------------------------------
(* Every step is one of the store's, or none.                              *)

StoreSame == UNCHANGED <<now, Stored, [u \in Workers |-> CallOf(u)], [u \in Workers |-> Done(u)],
                         [u \in Workers |-> Looked(u)], res>>

LEMMA OthersMap ==
  ASSUME SharedInv, NEW w \in Workers, Working(w), NEW u \in Workers \ {w}
  PROVE  /\ CallOf(u)' = CallOf(u) /\ Looked(u)' = Looked(u) /\ res'[u] = res[u]
         /\ ~Remove(w) => Done(u)' = Done(u)
<1>1. Others(w)
  BY OthersStay DEF SharedInv, IInv
<1>2. ~Remove(w) => Unlinked(u)' = Unlinked(u)
  <2>1. ~Remove(w) => (Unlinked(u)' <=> Unlinked(u))
    BY UnlinkedSteady
  <2>2. Unlinked(u) \in BOOLEAN /\ Unlinked(u)' \in BOOLEAN
    BY DEF Unlinked
  <2> QED BY <2>1, <2>2
<1> QED BY <1>1, <1>2 DEF Others, CallOf, Looked, Done, Written

LEMMA Stutters ==
  ASSUME SharedInv, Typed', NEW w \in Workers, Working(w), ~Remove(w), ~Pwrite(w),
         op'[w] = op[w], path'[w] = path[w] \/ op[w] = "removeExpired", sess'[w] = sess[w],
         res'[w] = res[w], op[w] \in Saves => Done(w)' = Done(w)
  PROVE  StoreSame
<1>1. Stored' = Stored /\ now' = now
  BY SteadyStored, StillNoFailure DEF SharedInv, IInv
<1>2. CallOf(w)' = CallOf(w) /\ Looked(w)' = Looked(w) /\ Done(w)' = Done(w)
  BY DEF CallOf, Looked, Done
<1>3. \A u \in Workers : /\ CallOf(u)' = CallOf(u) /\ Looked(u)' = Looked(u)
                        /\ Done(u)' = Done(u) /\ res'[u] = res[u]
  BY <1>2, OthersMap
<1>4. res' = res
  BY <1>3 DEF SharedInv, IInv, Typed, TypeOK
<1> QED BY <1>1, <1>3, <1>4 DEF StoreSame

LEMMA Ends ==
  ASSUME SharedInv, Typed', NEW w \in Workers, Working(w), ~Remove(w), ~Pwrite(w),
         NEW r, Returned(w, r)
  PROVE  Store!End(w, r) /\ UNCHANGED <<now, Stored>>
<1>1. Stored' = Stored /\ now' = now
  BY SteadyStored, StillNoFailure DEF SharedInv, IInv
<1>2. CallOf(w)' = Store!NoCall /\ Looked(w)' = None /\ Done(w)' = FALSE /\ res'[w] = r
  BY DEF Returned, CallOf, Looked, Done, Store!NoCall, Saves, Reads
<1>3. res \in [Workers -> Results] /\ res' \in [Workers -> Results]
  BY DEF SharedInv, IInv, Typed, TypeOK
<1>4. res' = [res EXCEPT ![w] = r]
  BY <1>2, <1>3, OthersMap
<1> QED BY <1>1, <1>2, <1>4, OthersMap DEF Store!End

LEMMA Begins ==
  ASSUME SharedInv, Typed', NEW w \in Workers, Call(w)
  PROVE  Store!Begin(w)
<1>1. Working(w) /\ ~Remove(w) /\ ~Pwrite(w) /\ CallFine(w) /\ Typed
  BY CallFacts DEF Working, Remove, Pwrite, SharedInv, IInv, CallInv
<1>2. Stored' = Stored /\ now' = now
  BY <1>1, SteadyStored, StillNoFailure DEF SharedInv
<1>3. /\ pc[w] = "idle" /\ res'[w] = "none" /\ pc'[w] # "idle" /\ op'[w] # "none"
      /\ pc'[w] \notin {"flockEx", "pwrite", "copying", "ftruncate", "unlock"}
      /\ op'[w] \in Saves => sess'[w].id = path'[w] /\ sess'[w].lastUsed = now
      /\ op'[w] = "createSession" => sess'[w].duration = Duration
      /\ op'[w] \in Reads => sess'[w] = None
      /\ op[w] = "none"
  BY <1>1, CallFacts DEF CallFine, Saves, Reads
<1>4. /\ CallOf(w) = Store!NoCall /\ CallOf(w)' # Store!NoCall
      /\ Looked(w)' = Looked(w) /\ Done(w)' = Done(w)
  BY <1>1, <1>3, NoCallIdle DEF CallOf, Looked, Done, Unlinked, Written, Store!NoCall, Saves, Reads
<1>5. /\ (Store!Saving(w))' => CallOf(w).save'.id = CallOf(w).id' /\ CallOf(w).save'.lastUsed = now
      /\ CallOf(w).op' = "createSession" => CallOf(w).save'.duration = Duration
  BY <1>3 DEF CallOf, Store!Saving, Saves, Reads
<1>6. res' = [res EXCEPT ![w] = "none"]
  <2>1. res \in [Workers -> Results] /\ res' \in [Workers -> Results]
    BY DEF SharedInv, IInv, Typed, TypeOK
  <2> QED BY <1>1, <1>3, <2>1, OthersMap
<1> QED BY <1>1, <1>2, <1>4, <1>5, <1>6, OthersMap DEF Store!Begin, Store!Idle

(* A save takes effect when it begins to write; one that has lost its name  *)
(* since has taken effect already.                                          *)
LEMMA PwriteMaps ==
  ASSUME SharedInv, Typed', NEW w \in Workers, Pwrite(w)
  PROVE  Store!Put(w) \/ StoreSame
<1>1. Working(w) /\ ~Remove(w) /\ Typed /\ CallFine(w)
  BY DEF Working, Save, Remove, Pwrite, SharedInv, IInv, CallInv
<1>2. pc[w] = "pwrite" /\ Stays(w, "copying") /\ now' = now /\ op[w] \in Saves /\ path[w] \in Ids
  BY <1>1, PwriteFacts DEF CallFine, SaveOpen, SaveLocked, Typed, WorkerInv
<1>3. CallOf(w)' = CallOf(w) /\ Looked(w)' = Looked(w) /\ Done(w)' = TRUE /\ res'[w] = res[w]
  BY <1>2 DEF Stays, CallOf, Looked, Done, Written
<1>4. res' = res
  BY <1>1, <1>3, OthersMap DEF Typed, TypeOK
<1>5. Done(w) = Unlinked(w)
  BY <1>2 DEF Done, Written, Unlinked
<1>6. CASE Unlinked(w)
  <2>1. \A u \in Workers : Done(u)' = Done(u)
    BY <1>1, <1>3, <1>5, <1>6, OthersMap
  <2> QED BY <1>1, <1>2, <1>3, <1>4, <1>6, <2>1, OthersMap, PwriteStored DEF StoreSame
<1>7. CASE ~Unlinked(w)
  <2>1. Stored' = [Stored EXCEPT ![path[w]] = sess[w]]
    BY <1>7, PwriteStored
  <2>2. CallOf(w).id = path[w] /\ CallOf(w).save = sess[w] /\ Store!Saving(w)
    BY <1>2 DEF CallOf, Store!Saving, Saves
  <2> QED BY <1>1, <1>2, <1>3, <1>4, <1>5, <1>7, <2>1, <2>2, OthersMap DEF Store!Put
<1> QED BY <1>6, <1>7

LEMMA SaveMaps ==
  ASSUME SharedInv, Typed', NEW w \in Workers, Save(w)
  PROVE  Store!Put(w) \/ Store!Saved(w) \/ StoreSame
<1>1. Working(w) /\ ~Remove(w) /\ Typed /\ CallFine(w)
  <2>1. pc[w] # "remove"
    BY DEF Save, Open, FlockEx, Pwrite, PwriteEnd, Ftruncate, Unlock
  <2> QED BY <2>1 DEF Working, Remove, SharedInv, IInv, CallInv
<1>2. CASE Open(w)
  <2>1. /\ pc[w] = "open" /\ pc'[w] = "flockEx" /\ path[w] \in Ids
        /\ op'[w] = op[w] /\ path'[w] = path[w] /\ sess'[w] = sess[w] /\ res'[w] = res[w]
        /\ dir'[path[w]] = fd'[w]
    BY <1>1, <1>2, OpenFacts DEF Typed, TypeOK, WorkerInv
  <2>2. Done(w) = FALSE /\ Done(w)' = FALSE
    BY <2>1 DEF Done, Unlinked, Written
  <2> QED BY <1>1, <2>1, <2>2, Stutters DEF Pwrite
<1>3. CASE FlockEx(w)
  <2>1. pc[w] = "flockEx" /\ Stays(w, "pwrite") /\ dir' = dir
    BY <1>1, <1>3, FlockExFacts DEF Reading
  <2>2. Done(w)' = Done(w)
    BY <2>1 DEF Done, Unlinked, Written, Stays
  <2> QED BY <1>1, <2>1, <2>2, Stutters DEF Stays, Pwrite
<1>4. CASE PwriteEnd(w) \/ Ftruncate(w)
  <2>1. /\ pc[w] \in {"copying", "ftruncate"} /\ pc'[w] \in {"ftruncate", "unlock"}
        /\ op'[w] = op[w] /\ path'[w] = path[w] /\ sess'[w] = sess[w] /\ res'[w] = res[w]
    BY <1>1, <1>4, PwriteEndFacts, FtruncateFacts DEF Stays
  <2>2. Done(w)' = Done(w)
    BY <2>1 DEF Done, Unlinked, Written
  <2> QED BY <1>1, <2>1, <2>2, Stutters DEF Pwrite
<1>5. CASE Unlock(w)
  <2>1. pc[w] = "unlock" /\ Returned(w, "ok") /\ op[w] \in Saves
    BY <1>1, <1>5, UnlockFacts DEF CallFine, SaveOpen, SaveLocked
  <2>2. Store!Saving(w) /\ Done(w)
    BY <2>1 DEF Store!Saving, CallOf, Saves, Done, Written
  <2>3. Store!End(w, "ok") /\ UNCHANGED <<now, Stored>>
    BY <1>1, <2>1, Ends DEF Pwrite
  <2> QED BY <2>2, <2>3 DEF Store!Saved
<1> QED BY <1>2, <1>3, <1>4, <1>5, PwriteMaps DEF Save

(* The moment a removal is seen: the saves that lose their name in it have  *)
(* taken effect just before.                                                *)
LEMMA RemoveOvertakes ==
  ASSUME SharedInv, NEW w \in Workers, Remove(w),
         LoadEnds(w, IF op[w] = "destroySession" THEN "ok" ELSE "null")
  PROVE  Store!Overtakes(path[w], w)
<1>1. Working(w) /\ Others(w) /\ CallFine(w) /\ pc[w] = "remove"
  BY OthersStay DEF Working, Load, Remove, SharedInv, IInv, CallInv
<1> DEFINE overtaken == {u \in Workers \ {w} : op[u] \in Saves /\ path[u] = path[w] /\ Done(u)'}
<1>2. overtaken \in SUBSET {u \in Workers : Store!Saving(u) /\ CallOf(u).id = path[w]}
  BY DEF Store!Saving, CallOf, Saves
<1>3. ASSUME NEW u \in Workers
      PROVE  Done(u)' = (u # w /\ (Done(u) \/ u \in overtaken))
  <2>1. CASE u = w
    <3>1. pc'[w] \in {"next", "idle"}
      BY DEF LoadEnds, Returned
    <3> QED BY <2>1, <3>1 DEF Done, Unlinked, Written
  <2>2. CASE u # w
    <3>1. Unlinked(u) => Unlinked(u)'
      BY <1>1, <2>2, UnlinkedSteady
    <3>2. Unlinked(u)' => Unlinked(u) \/ path[u] = path[w]
      BY <1>1, <2>2, UnlinkedSteady
    <3>3. /\ op'[u] = op[u] /\ Written(u)' = Written(u) /\ Done(u)' \in BOOLEAN /\ Done(u) \in BOOLEAN
      BY <1>1, <2>2 DEF Others, Written, Done, Unlinked
    <3> QED BY <2>2, <3>1, <3>2, <3>3 DEF Done
  <2> QED BY <2>1, <2>2
<1>4. [u \in Workers |-> Done(u)'] = [u \in Workers |-> u # w /\ (Done(u) \/ u \in overtaken)]
  BY <1>3
<1> QED BY <1>2, <1>4 DEF Store!Overtakes

LEMMA RemoveMaps ==
  ASSUME SharedInv, Typed', NEW w \in Workers, Remove(w)
  PROVE  Store!Destroy(w) \/ Store!Expire(w)
<1>1. Working(w) /\ Typed /\ CallFine(w) /\ pc[w] = "remove"
  BY DEF Working, Load, Remove, SharedInv, IInv, CallInv
<1>2. /\ LoadEnds(w, IF op[w] = "destroySession" THEN "ok" ELSE "null") /\ now' = now
      /\ Stored' = [Stored EXCEPT ![path[w]] = None]
  <2>1. path[w] \in Ids
    BY <1>1 DEF CallFine
  <2> QED BY <1>1, <2>1, RemoveFacts, RemoveStored
<1>3. Store!Overtakes(path[w], w)
  BY <1>2, RemoveOvertakes
<1>4. res \in [Workers -> Results] /\ res' \in [Workers -> Results]
  BY <1>1 DEF Typed, TypeOK
<1>5. CASE op[w] = "destroySession"
  <2>1. Returned(w, "ok")
    BY <1>2, <1>5 DEF LoadEnds
  <2>2. /\ CallOf(w).op = "destroySession" /\ CallOf(w).id = path[w] /\ CallOf(w)' = Store!NoCall
        /\ Looked(w)' = Looked(w) /\ res'[w] = "ok"
    BY <1>5, <2>1 DEF Returned, CallOf, Looked, Store!NoCall, Saves, Reads
  <2>3. res' = [res EXCEPT ![w] = "ok"]
    BY <1>1, <1>4, <2>2, OthersMap
  <2> QED BY <1>1, <1>2, <1>3, <2>2, <2>3, OthersMap DEF Store!Destroy
<1>6. CASE op[w] \in Reads
  <2>1. /\ Looked(w) = sess[w] /\ sess[w] \in Session /\ sess[w] # None
        /\ sess[w].id = path[w] /\ IsExpired(sess[w])
    BY <1>1, <1>6, SessionReadable DEF CallFine, Looked, Session
  <2>2. Store!Expired(sess[w])
    BY <2>1 DEF Store!Expired, IsExpired
  <2>3. CASE op[w] = "getSession"
    <3>1. Returned(w, "null")
      BY <1>2, <2>3 DEF LoadEnds
    <3>2. /\ CallOf(w).op = "getSession" /\ CallOf(w)' = Store!NoCall
          /\ Looked(w)' = None /\ res'[w] = "null"
      BY <2>3, <3>1 DEF Returned, CallOf, Looked, Store!NoCall, Saves, Reads
    <3>3. res' = [res EXCEPT ![w] = "null"]
      BY <1>1, <1>4, <3>2, OthersMap
    <3> QED BY <1>1, <1>2, <1>3, <2>1, <2>2, <3>2, <3>3, OthersMap DEF Store!Expire
  <2>4. CASE op[w] = "removeExpired"
    <3>1. op'[w] = op[w] /\ sess'[w] = None /\ res'[w] = res[w]
      BY <1>2, <2>4 DEF LoadEnds
    <3>2. CallOf(w).op = "removeExpired" /\ CallOf(w)' = CallOf(w) /\ Looked(w)' = None
      BY <2>4, <3>1 DEF CallOf, Looked, Saves, Reads
    <3>3. res' = res
      BY <1>1, <1>4, <3>1, OthersMap
    <3> QED BY <1>1, <1>2, <1>3, <2>1, <2>2, <3>2, <3>3, OthersMap DEF Store!Expire
  <2> QED BY <1>6, <2>3, <2>4 DEF Reads
<1> QED BY <1>1, <1>5, <1>6 DEF CallFine

(* A load that finds nothing, and one that is over. *)
LEMMA LoadEndMaps ==
  ASSUME SharedInv, Typed', NEW w \in Workers, Working(w), ~Remove(w), ~Pwrite(w),
         op[w] \in Reads, NEW r, LoadEnds(w, r)
  PROVE  \/ op[w] = "removeExpired" /\ Store!Leave(w)
         \/ op[w] = "getSession" /\ Store!End(w, r) /\ UNCHANGED <<now, Stored>>
<1>1. CASE op[w] = "removeExpired"
  <2>1. Stored' = Stored /\ now' = now
    BY SteadyStored, StillNoFailure DEF SharedInv, IInv
  <2>2. /\ CallOf(w).op = "removeExpired" /\ CallOf(w)' = CallOf(w) /\ Looked(w)' = None
        /\ Done(w)' = Done(w) /\ res'[w] = res[w]
    BY <1>1 DEF LoadEnds, CallOf, Looked, Done, Saves, Reads
  <2>3. res' = res
    BY <2>2, OthersMap DEF SharedInv, IInv, Typed, TypeOK
  <2> QED BY <1>1, <2>1, <2>2, <2>3, OthersMap DEF Store!Leave
<1>2. CASE op[w] = "getSession"
  BY <1>2, Ends DEF LoadEnds
<1> QED BY <1>1, <1>2 DEF Reads

(* A load fails only on a name a save was in progress on. *)
LEMMA ThrowMaps ==
  ASSUME SharedInv, Typed', NEW w \in Workers, Working(w), ~Remove(w), ~Pwrite(w),
         op[w] \in Reads, NEW e \in {"SystemException", "MarshalException"}, Thrown(w, e),
         path[w] \in raced[w]
  PROVE  Store!Fails(w)
<1>1. CASE op[w] = "removeExpired"
  BY <1>1, Ends DEF Thrown, Store!Fails, CallOf
<1>2. CASE op[w] = "getSession"
  BY <1>2, Ends DEF Thrown, Store!Fails, CallOf
<1> QED BY <1>1, <1>2 DEF Reads

LEMMA ReadMaps ==
  ASSUME SharedInv, Typed', NEW w \in Workers, Read(w)
  PROVE  Store!Fetch(w) \/ Store!Fails(w)
<1>1. /\ Working(w) /\ ~Remove(w) /\ ~Pwrite(w) /\ Typed /\ pc[w] = "read"
      /\ op[w] \in Reads /\ path[w] \in Ids
  BY DEF Working, Load, Remove, Pwrite, Read, SharedInv, IInv, CallInv, CallFine, LoadOpen, Typed, WorkerInv
<1>2. file[fd[w]].data # Torn
  BY <1>1, ReadsNoTorn DEF SharedInv
<1>3. CASE Unmarshals(file[fd[w]].data, mapLen[w])
  <2> DEFINE s == file[fd[w]].data
  <2>1. s \in seen[w][path[w]] \ {None}
    BY <1>1, <1>3, ReadsItsName, SessionReadable
  <2>2. sess'[w] = s /\ op'[w] = op[w] /\ path'[w] = path[w] /\ res'[w] = res[w]
    BY <1>1, <1>2, <1>3, ReadFacts
  <2>3. /\ CallOf(w)' = CallOf(w) /\ Looked(w)' = s /\ Done(w)' = Done(w)
        /\ Store!Reading(w)
        /\ CallOf(w).op = "getSession" => path[w] = CallOf(w).id
    BY <1>1, <2>2 DEF CallOf, Looked, Done, Store!Reading, Saves, Reads
  <2>4. res' = res
    BY <1>1, <2>2, OthersMap DEF Typed, TypeOK
  <2>5. Stored' = Stored /\ now' = now
    BY <1>1, SteadyStored, StillNoFailure DEF SharedInv
  <2> HIDE DEF s
  <2> QED BY <1>1, <2>1, <2>3, <2>4, <2>5, OthersMap DEF Store!Fetch
<1>4. CASE ~Unmarshals(file[fd[w]].data, mapLen[w])
  <2>1. path[w] \in raced[w]
    <3>1. SUFFICES ASSUME file[fd[w]].data \in Session, file[fd[w]].size = Marshalled(file[fd[w]].data),
                          mapLen[w] = file[fd[w]].size
                   PROVE  FALSE
      BY <1>1 DEF SharedInv, WholeInv, LoadOpen
    <3>2. Marshalled(file[fd[w]].data) \in Nat
      BY <3>1, FSAssumption DEF Session, Lengths, Marshalled
    <3> QED BY <1>4, <3>1, <3>2, SessionReadable DEF Unmarshals
  <2>2. Thrown(w, "MarshalException")
    BY <1>1, <1>2, <1>4, ReadFacts
  <2> QED BY <1>1, <2>1, <2>2, ThrowMaps
<1> QED BY <1>3, <1>4

LEMMA MmapMaps ==
  ASSUME SharedInv, Typed', NEW w \in Workers, Mmap(w)
  PROVE  Store!Fails(w) \/ StoreSame
<1>1. /\ Working(w) /\ ~Remove(w) /\ ~Pwrite(w) /\ Typed /\ pc[w] = "mmap"
      /\ op[w] \in Reads /\ op[w] \notin Saves
  BY DEF Working, Load, Remove, Pwrite, Mmap, SharedInv, IInv, CallInv, CallFine, LoadOpen, Saves, Reads
<1>2. CASE file[fd[w]].size = 0
  <2>1. path[w] \in raced[w]
    <3>1. SUFFICES ASSUME file[fd[w]].data \in Session, file[fd[w]].size = Marshalled(file[fd[w]].data)
                   PROVE  FALSE
      BY <1>1 DEF SharedInv, WholeInv, LoadOpen
    <3>2. Marshalled(file[fd[w]].data) \in 1..MaxLen
      BY <3>1 DEF Session, Lengths, Marshalled
    <3> QED BY <1>2, <3>1, <3>2, FSAssumption
  <2>2. Thrown(w, "SystemException")
    BY <1>1, <1>2, MmapFacts
  <2> QED BY <1>1, <2>1, <2>2, ThrowMaps
<1>3. CASE file[fd[w]].size # 0
  BY <1>1, <1>3, MmapFacts, Stutters
<1> QED BY <1>2, <1>3

LEMMA LoadMaps ==
  ASSUME SharedInv, Typed', NEW w \in Workers, Load(w)
  PROVE  \/ Store!Fetch(w) \/ Store!Leave(w) \/ Store!Destroy(w) \/ Store!Expire(w)
         \/ Store!Got(w) \/ Store!Swept(w) \/ Store!Fails(w) \/ StoreSame
<1>1. /\ Working(w) /\ ~Pwrite(w) /\ Typed /\ CallFine(w)
  BY DEF Working, Load, Remove, Pwrite, Exists, OpenRd, Mmap, FlockSh, Read, Check, NextEntry,
     SharedInv, IInv, CallInv
<1>2. ASSUME LoadEnds(w, "null"), pc[w] \in {"exists", "openRd"},
             dir[path[w]] = None \/ op[w] = "removeExpired"
      PROVE  Store!Leave(w) \/ Store!Got(w)
  <2>1. op[w] \in Reads /\ ~Remove(w) /\ path[w] \in Ids
    BY <1>1, <1>2 DEF CallFine, Remove, Typed, WorkerInv
  <2>2. CASE op[w] = "getSession"
    <3>1. Stored[path[w]] = None /\ Stored[path[w]] \in seen[w][path[w]]
      BY <1>2, <2>1, <2>2 DEF Stored, SharedInv, SeenInv
    <3>2. CallOf(w).op = "getSession" /\ CallOf(w).id = path[w]
      BY <2>2 DEF CallOf
    <3> QED BY <1>1, <1>2, <2>1, <2>2, <3>1, <3>2, LoadEndMaps DEF Store!Got
  <2>3. CASE op[w] # "getSession"
    BY <1>1, <1>2, <2>1, <2>3, LoadEndMaps
  <2> QED BY <2>2, <2>3
<1>3. CASE Exists(w)
  <2>1. /\ pc[w] = "exists" /\ ~Remove(w) /\ op[w] \notin Saves
        /\ \/ LoadPathExists(w) /\ Stays(w, "openRd")
           \/ ~LoadPathExists(w) /\ LoadEnds(w, "null")
    BY <1>1, <1>3, ExistsFacts DEF CallFine, Remove, Saves, Reads
  <2>2. CASE Stays(w, "openRd")
    BY <1>1, <2>1, <2>2, Stutters DEF Stays
  <2>3. CASE ~LoadPathExists(w) /\ LoadEnds(w, "null")
    BY <1>2, <2>1, <2>3 DEF LoadPathExists
  <2> QED BY <2>1, <2>2, <2>3
<1>4. CASE OpenRd(w)
  <2>1. /\ pc[w] = "openRd" /\ ~Remove(w) /\ op[w] \notin Saves
        /\ \/ dir[path[w]] = None /\ LoadEnds(w, "null")
           \/ op'[w] = op[w] /\ path'[w] = path[w] /\ sess'[w] = sess[w] /\ res'[w] = res[w]
    BY <1>1, <1>4, OpenRdFacts DEF CallFine, Remove, Saves, Reads
  <2> QED BY <1>1, <1>2, <2>1, Stutters
<1>5. CASE FlockSh(w)
  <2>1. pc[w] = "flockSh" /\ ~Remove(w) /\ op[w] \notin Saves /\ Stays(w, "read")
    BY <1>1, <1>5, FlockShFacts DEF CallFine, Remove, LoadOpen, Saves, Reads
  <2> QED BY <1>1, <2>1, Stutters DEF Stays
<1>6. CASE Check(w)
  <2>1. /\ pc[w] = "check" /\ ~Remove(w) /\ op[w] \in Reads /\ op[w] \notin Saves /\ sess[w] \in Session
    BY <1>1, <1>6 DEF Check, CallFine, Remove, Saves, Reads
  <2>2. CASE IsExpired(sess[w])
    <3>1. /\ path'[w] = path[w] \/ op[w] = "removeExpired"
          /\ op'[w] = op[w] /\ sess'[w] = sess[w] /\ res'[w] = res[w]
      BY <1>1, <1>6, <2>2, CheckFacts
    <3> QED BY <1>1, <2>1, <3>1, Stutters
  <2>3. CASE ~IsExpired(sess[w])
    <3>1. LoadEnds(w, "session")
      BY <1>1, <1>6, <2>3, CheckFacts
    <3>2. Looked(w) # None /\ ~Store!Expired(Looked(w))
      BY <2>1, <2>3, SessionReadable DEF Looked, Store!Expired, IsExpired, Session
    <3>3. op[w] = "getSession" => CallOf(w).op = "getSession"
      BY DEF CallOf
    <3> QED BY <1>1, <2>1, <3>1, <3>2, <3>3, LoadEndMaps DEF Store!Got
  <2> QED BY <2>2, <2>3
<1>7. CASE NextEntry(w)
  <2>1. /\ pc[w] = "next" /\ ~Remove(w) /\ op[w] = "removeExpired" /\ op[w] \notin Saves
        /\ \/ Returned(w, "swept")
           \/ op'[w] = op[w] /\ sess'[w] = sess[w] /\ res'[w] = res[w]
    BY <1>1, <1>7, NextEntryFacts DEF CallFine, Remove, Saves
  <2>2. CallOf(w).op = "removeExpired"
    BY <2>1 DEF CallOf
  <2> QED BY <1>1, <2>1, <2>2, Ends, Stutters DEF Store!Swept
<1> QED BY <1>3, <1>4, <1>5, <1>6, <1>7, MmapMaps, ReadMaps, RemoveMaps DEF Load

LEMMA StepMaps ==
  ASSUME SharedInv, SharedInv', [SharedNext]_<<vars, seen, raced>>
  PROVE  Store!StoreNext \/ StoreSame
<1>1. Typed'
  BY DEF SharedInv, IInv
<1>2. CASE Tick /\ Store!Observe
  <2>1. now' = now + 1 /\ UNCHANGED <<dir, file, pc, fd, op, path, sess, res>>
    BY <1>2 DEF Tick, callVars
  <2>2. UNCHANGED <<Stored, [u \in Workers |-> CallOf(u)], [u \in Workers |-> Done(u)],
                    [u \in Workers |-> Looked(u)], res>>
    BY <2>1 DEF Stored, Content, CallOf, Done, Looked, Unlinked, Written
  <2>3. Store!Pass
    BY <2>1, <2>2 DEF Store!Pass
  <2> QED BY <1>2, <2>3 DEF Store!StoreNext
<1>3. CASE UNCHANGED vars
  BY <1>3 DEF vars, callVars, StoreSame, Stored, Content, CallOf, Done, Looked, Unlinked, Written
<1>4. ASSUME NEW w \in Workers, Call(w) \/ Save(w) \/ Load(w) \/ Fault(w), SharedNext
      PROVE  Store!StoreNext \/ StoreSame
  <2>1. (Call(w) \/ Save(w) \/ Load(w)) /\ Store!Observe
    BY <1>4, FaultsCount DEF SharedNext, SharedInv, IInv
  <2> QED BY <1>1, <2>1, Begins, SaveMaps, LoadMaps DEF Store!StoreNext
<1> QED BY <1>2, <1>3, <1>4 DEF SharedNext, Next

LEMMA InitMaps == SharedInit => Store!StoreInit
<1> SUFFICES ASSUME SharedInit PROVE Store!StoreInit
  OBVIOUS
<1>1. /\ dir = [i \in Ids |-> None] /\ op = [w \in Workers |-> "none"]
      /\ path = [w \in Workers |-> None] /\ now = 0 /\ res = [w \in Workers |-> "none"]
  BY DEF SharedInit, Init
<1>2. Stored = [i \in Ids |-> None]
  BY <1>1 DEF Stored
<1>3. \A w \in Workers : CallOf(w) = Store!NoCall /\ Done(w) = FALSE /\ Looked(w) = None
  BY <1>1 DEF CallOf, Done, Looked, Store!NoCall, Saves, Reads
<1> QED BY <1>1, <1>2, <1>3 DEF SharedInit, Store!StoreInit

(* As long as no process dies and no system call fails, the workers' files  *)
(* are one session store.                                                   *)
THEOREM WorkersShareOneStore == SharedSpec /\ []NothingFailed => OneStore
<1>1. SharedInv /\ NothingFailed' /\ [SharedNext]_<<vars, seen, raced>> => SharedInv'
  BY StepSharedInv
<1>2. SharedInv /\ SharedInv' /\ [SharedNext]_<<vars, seen, raced>>
      => [Store!StoreNext]_<<now, Stored, [w \in Workers |-> CallOf(w)], [w \in Workers |-> Done(w)],
                             [w \in Workers |-> Looked(w)], res>>
  BY StepMaps DEF StoreSame
<1> QED BY <1>1, <1>2, InitSharedInv, InitMaps, PTL DEF SharedSpec, OneStore, Store!StoreSpec

(* Without crashes and faults they always are. *)
THEOREM UnfailingWorkersShareOneStore ==
  ASSUME MaxCrashes = 0, MaxFaults = 0
  PROVE  SharedSpec => OneStore
<1>1. SharedInit => Typed /\ NothingFailed
  BY InitTyped DEF SharedInit, Init, NothingFailed
<1>2. Typed /\ NothingFailed /\ [SharedNext]_<<vars, seen, raced>> => Typed' /\ NothingFailed'
  <2> SUFFICES ASSUME Typed, NothingFailed, [SharedNext]_<<vars, seen, raced>> PROVE Typed' /\ NothingFailed'
    OBVIOUS
  <2>1. Typed' /\ [Next]_vars
    BY StepTyped DEF SharedNext, vars
  <2>2. CASE Tick \/ UNCHANGED vars
    BY <2>1, <2>2 DEF Tick, vars, NothingFailed
  <2>3. ASSUME NEW w \in Workers, Working(w) PROVE NothingFailed'
    BY <2>3, StillNoFailure
  <2>4. ASSUME NEW w \in Workers PROVE ~Fault(w)
    BY DEF Fault, SyscallFails, ShortWrite, Crash, NothingFailed
  <2> QED BY <2>1, <2>2, <2>3, <2>4 DEF Next, Working
<1> QED BY <1>1, <1>2, WorkersShareOneStore, PTL DEF SharedSpec

=============================================================================
