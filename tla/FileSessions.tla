---------------------------- MODULE FileSessions ----------------------------
(***************************************************************************)
(* The session manager plugin of icespider/fileSessions/fileSessions.cpp.  *)
(*                                                                         *)
(* Every worker process (and every dispatch thread of one) runs its own    *)
(* FileSessions object over one shared directory, root; a session is a     *)
(* file there, named by its id.  The only thing the workers share is the   *)
(* file system, and the only thing that orders them is flock(2) on a file  *)
(* that another worker may unlink, so every system call that another       *)
(* worker can observe is an action of its own.  A "worker" below is one    *)
(* thread of control inside createSession, updateSession, getSession,      *)
(* destroySession or the destructor's removeExpired.                       *)
(***************************************************************************)
EXTENDS Integers, FiniteSets

CONSTANTS
  Workers,             \* threads of control that call the session manager
  Ids,                 \* session ids (random UUIDs: a new one is never reused)
  Inodes,              \* the file system's inodes
  MaxLen,              \* bound: longest marshalled session, in abstract units
  ConfiguredDuration,  \* IceSpider.FileSessions.Duration, an int
  Durations,           \* the durations sessions come to carry, shorts
  RootKind,            \* IceSpider.FileSessions.Path: "absolute", "relative" or "empty"
  MaxTime,             \* bound on the clock
  MaxCalls,            \* bound on the calls made
  MaxCrashes,          \* bound on the worker crashes
  MaxFaults,           \* bound on the failing or short system calls
  None,                \* no file, no descriptor, nullptr; an id that names no file
  Torn                 \* file content of a write that is not (or never) finished

ASSUME FSAssumption ==
  /\ MaxLen \in Nat \ {0}
  /\ ConfiguredDuration \in Int
  /\ RootKind \in {"absolute", "relative", "empty"}
  /\ MaxTime \in Nat
  /\ MaxCalls \in Nat
  /\ MaxCrashes \in Nat
  /\ MaxFaults \in Nat
  /\ None \notin Ids \cup Inodes

VARIABLES
  now,      \* time(nullptr), in seconds
  dir,      \* dir[i]: the inode that root/i names, or None
  file,     \* file[n]: what inode n holds, and its st_size
  issued,   \* issued[i]: "free", "minted" by a createSession, "known" to clients
  pc,       \* pc[w]: the next system call of worker w
  op,       \* op[w]: the operation w is in
  path,     \* path[w]: the id whose file w works on
  sess,     \* sess[w]: the session w saves or has loaded
  fd,       \* fd[w]: the inode w has open
  mapLen,   \* mapLen[w]: the length w's memory map was made with
  todo,     \* todo[w]: directory entries removeExpired has still to visit
  since,    \* since[w]: when w's removeExpired began
  res,      \* res[w]: how w's last call ended
  alone,    \* alone[w]: no other call was in progress, or begun, since w's began
  calls, crashes, faults

clientVars == <<issued, calls, alone>>
callVars   == <<op, path, sess, todo, since>>
vars == <<now, dir, file, pc, fd, mapLen, res, clientVars, callVars, crashes, faults>>

-----------------------------------------------------------------------------
(* Sessions.                                                               *)

(* static_cast<Ice::Short> of the configured int: 16 bits, two's complement *)
ToShort(n) == ((n + 32768) % 65536) - 32768
Duration == ToShort(ConfiguredDuration)

(* A session's variables are told apart by the length they marshal to; a   *)
(* new session has none.                                                   *)
Lengths == 1..MaxLen
NoVariables == 1

(* A new session lives for Duration; what a client saves with              *)
(* updateSession lives for whatever the client has set.                    *)
Session == [id : Ids, lastUsed : Nat, duration : Durations, vars : Lengths]
Marshalled(s) == s.vars

(* What a torn file may be read as: bytes of several saves, and of zeros    *)
(* where ftruncate extended a short write.  Every save to an inode writes   *)
(* the same id, so the id is that one or, cut short, no file's; lastUsed    *)
(* may be any time, earlier or later than every save's.                     *)
Garbled(i) == [id : {i, None}, lastUsed : 0..MaxTime, duration : Durations, vars : Lengths]

Readable == [id : Ids \cup {None}, lastUsed : Nat, duration : Durations, vars : Lengths]

ASSUME DurationAssumption == Durations \subseteq -32768..32767 /\ Duration \in Durations
ASSUME ContentAssumption == None \notin Readable /\ Torn \notin Readable \cup {None}

(* Mutated form: the last second of a session counts as past. *)
IsExpiredAtOnce(s) == s.lastUsed + s.duration <= now

IsExpired(s) == s.lastUsed + s.duration < now

-----------------------------------------------------------------------------
(* Files and locks.                                                        *)

SaveLocked == {"pwrite", "copying", "ftruncate", "unlock"}
SaveOpen   == {"flockEx"} \cup SaveLocked
LoadOpen   == {"mmap", "flockSh", "read"}

(* flock(2) locks belong to the open file and go with it, so who holds one *)
(* follows from where each worker is between its LOCK_ and LOCK_UN calls.  *)
HoldsEx(w, n) == pc[w] \in SaveLocked /\ fd[w] = n
HoldsSh(w, n) == pc[w] = "read" /\ fd[w] = n

(* An inode is free for open(O_CREAT) once no name and no descriptor refers to it. *)
Unused(n) == /\ \A i \in Ids : dir[i] # n
             /\ \A w \in Workers : fd[w] # n

(* removeExpired hands load() dirIter->path(), which is root/name already;  *)
(* load() prefixes root once more, and that only leaves an absolute path    *)
(* alone.  getSession hands it the bare id.                                 *)
LoadPathExists(w) == /\ dir[path[w]] # None
                     /\ op[w] = "removeExpired" => RootKind = "absolute"

-----------------------------------------------------------------------------
(* How a call ends.                                                        *)

Idle(w) == pc[w] = "idle"

(* Leaving scope closes the descriptor, which drops its lock. *)
Return(w, r) ==
  /\ pc'     = [pc     EXCEPT ![w] = "idle"]
  /\ op'     = [op     EXCEPT ![w] = "none"]
  /\ path'   = [path   EXCEPT ![w] = None]
  /\ sess'   = [sess   EXCEPT ![w] = None]
  /\ todo'   = [todo   EXCEPT ![w] = {}]
  /\ since'  = [since  EXCEPT ![w] = 0]
  /\ fd'     = [fd     EXCEPT ![w] = None]
  /\ mapLen' = [mapLen EXCEPT ![w] = 0]
  /\ res'    = [res    EXCEPT ![w] = r]

(* An exception leaves the operation, except that the destructor swallows   *)
(* whatever removeExpired throws, and with it the rest of the directory.    *)
Throw(w, e) == Return(w, IF op[w] = "removeExpired" THEN "aborted" ELSE e)

(* On to the next system call, with the descriptor as it is. *)
Goto(w, l) == /\ pc' = [pc EXCEPT ![w] = l]
              /\ UNCHANGED <<fd, mapLen, callVars, res>>

-----------------------------------------------------------------------------
(* Initially the directory is empty and nobody has called.                 *)

Init ==
  /\ now = 0
  /\ dir = [i \in Ids |-> None]
  /\ file = [n \in Inodes |-> [data |-> None, size |-> 0]]
  /\ issued = [i \in Ids |-> "free"]
  /\ pc = [w \in Workers |-> "idle"]
  /\ op = [w \in Workers |-> "none"]
  /\ path = [w \in Workers |-> None]
  /\ sess = [w \in Workers |-> None]
  /\ fd = [w \in Workers |-> None]
  /\ mapLen = [w \in Workers |-> 0]
  /\ todo = [w \in Workers |-> {}]
  /\ since = [w \in Workers |-> 0]
  /\ res = [w \in Workers |-> "none"]
  /\ alone = [w \in Workers |-> FALSE]
  /\ calls = 0 /\ crashes = 0 /\ faults = 0

Tick == /\ now < MaxTime
        /\ now' = now + 1
        /\ UNCHANGED <<dir, file, pc, fd, mapLen, res, clientVars, callVars, crashes, faults>>

-----------------------------------------------------------------------------
(* The operations are called.                                              *)

Begin(w, o, l) ==
  /\ Idle(w) /\ calls < MaxCalls
  /\ calls' = calls + 1
  /\ alone' = [u \in Workers |-> u = w /\ \A v \in Workers \ {w} : Idle(v)]
  /\ op' = [op EXCEPT ![w] = o]
  /\ pc' = [pc EXCEPT ![w] = l]
  /\ res' = [res EXCEPT ![w] = "none"]
  /\ UNCHANGED <<now, dir, file, fd, mapLen, crashes, faults>>

(* save() stamps the session and marshals it before it opens the file. *)
BeginSave(w, o, i, d, v) ==
  /\ Begin(w, o, "open")
  /\ path' = [path EXCEPT ![w] = i]
  /\ sess' = [sess EXCEPT ![w] = [id |-> i, lastUsed |-> now, duration |-> d, vars |-> v]]
  /\ UNCHANGED <<todo, since>>

CreateSession(w) == \E i \in Ids :
  /\ issued[i] = "free"
  /\ issued' = [issued EXCEPT ![i] = "minted"]
  /\ BeginSave(w, "createSession", i, Duration, NoVariables)

UpdateSession(w) == \E i \in Ids, d \in Durations, v \in Lengths :
  /\ issued[i] = "known"
  /\ BeginSave(w, "updateSession", i, d, v)
  /\ UNCHANGED issued

GetSession(w) == \E i \in Ids :
  /\ issued[i] = "known"
  /\ Begin(w, "getSession", "exists")
  /\ path' = [path EXCEPT ![w] = i]
  /\ UNCHANGED <<sess, todo, since, issued>>

DestroySession(w) == \E i \in Ids :
  /\ issued[i] = "known"
  /\ Begin(w, "destroySession", "remove")
  /\ path' = [path EXCEPT ![w] = i]
  /\ UNCHANGED <<sess, todo, since, issued>>

(* ~FileSessions.  The directory stream is taken as read in one go; an     *)
(* empty root is not swept at all.                                         *)
RemoveExpired(w) ==
  /\ Begin(w, "removeExpired", "next")
  /\ todo' = [todo EXCEPT ![w] = IF RootKind = "empty" THEN {} ELSE {i \in Ids : dir[i] # None}]
  /\ since' = [since EXCEPT ![w] = now]
  /\ UNCHANGED <<path, sess, issued>>

-----------------------------------------------------------------------------
(* save(): open, LOCK_EX, pwrite, ftruncate, LOCK_UN and close.            *)

Larger(a, b) == IF a > b THEN a ELSE b

(* Mutated form: O_TRUNC. *)
OpenTruncates(w) ==
  /\ pc[w] = "open"
  /\ \E n \in Inodes :
       /\ IF dir[path[w]] # None
          THEN /\ n = dir[path[w]] /\ UNCHANGED dir
               /\ file' = [file EXCEPT ![n] = [data |-> None, size |-> 0]]
          ELSE /\ Unused(n)
               /\ dir' = [dir EXCEPT ![path[w]] = n]
               /\ file' = [file EXCEPT ![n] = [data |-> None, size |-> 0]]
       /\ fd' = [fd EXCEPT ![w] = n]
  /\ pc' = [pc EXCEPT ![w] = "flockEx"]
  /\ UNCHANGED <<now, mapLen, callVars, res, clientVars, crashes, faults>>

Open(w) ==
  /\ pc[w] = "open"
  /\ \E n \in Inodes :
       /\ IF dir[path[w]] # None
          THEN n = dir[path[w]] /\ UNCHANGED <<dir, file>>
          ELSE /\ Unused(n)
               /\ dir' = [dir EXCEPT ![path[w]] = n]
               /\ file' = [file EXCEPT ![n] = [data |-> None, size |-> 0]]
       /\ fd' = [fd EXCEPT ![w] = n]
  /\ pc' = [pc EXCEPT ![w] = "flockEx"]
  /\ UNCHANGED <<now, mapLen, callVars, res, clientVars, crashes, faults>>

(* Mutated form: overwriting without LOCK_EX. *)
NoFlockEx(w) ==
  /\ pc[w] = "flockEx"
  /\ Goto(w, "pwrite")
  /\ UNCHANGED <<now, dir, file, clientVars, crashes, faults>>

FlockEx(w) ==
  /\ pc[w] = "flockEx"
  /\ \A u \in Workers \ {w} : ~HoldsEx(u, fd[w]) /\ ~HoldsSh(u, fd[w])
  /\ Goto(w, "pwrite")
  /\ UNCHANGED <<now, dir, file, clientVars, crashes, faults>>

(* pwrite overwrites in place: while it copies, and for ever if the        *)
(* process dies or the disk fills meanwhile, the file is neither session.  *)
Pwrite(w) ==
  /\ pc[w] = "pwrite"
  /\ \E n \in {file[fd[w]].size, Larger(file[fd[w]].size, Marshalled(sess[w]))} :
       file' = [file EXCEPT ![fd[w]] = [data |-> Torn, size |-> n]]
  /\ Goto(w, "copying")
  /\ UNCHANGED <<now, dir, clientVars, crashes, faults>>

PwriteEnd(w) ==
  /\ pc[w] = "copying"
  /\ file' = [file EXCEPT ![fd[w]] =
                [data |-> sess[w], size |-> Larger(@.size, Marshalled(sess[w]))]]
  /\ Goto(w, "ftruncate")
  /\ UNCHANGED <<now, dir, clientVars, crashes, faults>>

(* Mutated forms: the tail of a longer session stays; one byte too many does. *)
NoFtruncate(w) ==
  /\ pc[w] = "ftruncate"
  /\ Goto(w, "unlock")
  /\ UNCHANGED <<now, dir, file, clientVars, crashes, faults>>

FtruncateOneOver(w) ==
  /\ pc[w] = "ftruncate"
  /\ file' = [file EXCEPT ![fd[w]].size = Marshalled(sess[w]) + 1]
  /\ Goto(w, "unlock")
  /\ UNCHANGED <<now, dir, clientVars, crashes, faults>>

Ftruncate(w) ==
  /\ pc[w] = "ftruncate"
  /\ file' = [file EXCEPT ![fd[w]].size = Marshalled(sess[w])]
  /\ Goto(w, "unlock")
  /\ UNCHANGED <<now, dir, clientVars, crashes, faults>>

(* createSession's caller learns the id when save() has returned. *)
Unlock(w) ==
  /\ pc[w] = "unlock"
  /\ issued' = [issued EXCEPT ![path[w]] = "known"]
  /\ Return(w, "ok")
  /\ UNCHANGED <<now, dir, file, calls, alone, crashes, faults>>

-----------------------------------------------------------------------------
(* load(): exists, open, fstat and mmap, LOCK_SH, unmarshal, LOCK_UN; then  *)
(* what getSession and removeExpired do with what it returned.              *)

(* Nothing loaded, or nothing expired: getSession returns it, and           *)
(* removeExpired turns to the next entry.                                   *)
Loaded(w, r) ==
  IF op[w] = "removeExpired"
  THEN /\ pc' = [pc EXCEPT ![w] = "next"]
       /\ path' = [path EXCEPT ![w] = None]
       /\ sess' = [sess EXCEPT ![w] = None]
       /\ UNCHANGED <<op, todo, since, fd, mapLen, res>>
  ELSE Return(w, r)

LoadUnchanged == UNCHANGED <<now, dir, file, clientVars, crashes, faults>>

Exists(w) ==
  /\ pc[w] = "exists"
  /\ IF LoadPathExists(w) THEN Goto(w, "openRd") ELSE Loaded(w, "null")
  /\ LoadUnchanged

(* The entry may be gone since exists() was asked: ENOENT is a null session. *)
OpenRd(w) ==
  /\ pc[w] = "openRd"
  /\ IF dir[path[w]] = None
     THEN Loaded(w, "null")
     ELSE /\ fd' = [fd EXCEPT ![w] = dir[path[w]]]
          /\ pc' = [pc EXCEPT ![w] = "mmap"]
          /\ UNCHANGED <<mapLen, callVars, res>>
  /\ LoadUnchanged

(* The size is taken, and the map made, before the lock is asked for; a map *)
(* of no bytes is EINVAL.                                                   *)
Mmap(w) ==
  /\ pc[w] = "mmap"
  /\ IF file[fd[w]].size = 0
     THEN Throw(w, "SystemException")
     ELSE /\ mapLen' = [mapLen EXCEPT ![w] = file[fd[w]].size]
          /\ pc' = [pc EXCEPT ![w] = "flockSh"]
          /\ UNCHANGED <<fd, callVars, res>>
  /\ LoadUnchanged

(* Mutated form: reading without LOCK_SH. *)
NoFlockSh(w) == pc[w] = "flockSh" /\ Goto(w, "read") /\ LoadUnchanged

FlockSh(w) ==
  /\ pc[w] = "flockSh"
  /\ \A u \in Workers \ {w} : ~HoldsEx(u, fd[w])
  /\ Goto(w, "read")
  /\ LoadUnchanged

Unmarshals(data, len) == data \notin {None, Torn} /\ Marshalled(data) <= len

(* InputStream::read through the map: the bytes are those of the file now,  *)
(* their number that of the map.  A torn file may be refused, and may give  *)
(* some session that goes the way of any other.                             *)
Read(w) ==
  /\ pc[w] = "read"
  /\ LET data == file[fd[w]].data IN
     \/ /\ ~Unmarshals(data, mapLen[w])
        /\ Throw(w, "MarshalException")
     \/ /\ \/ data = Torn /\ \E s \in Garbled(path[w]) : sess' = [sess EXCEPT ![w] = s]
           \/ Unmarshals(data, mapLen[w]) /\ sess' = [sess EXCEPT ![w] = data]
        /\ fd' = [fd EXCEPT ![w] = None]
        /\ mapLen' = [mapLen EXCEPT ![w] = 0]
        /\ pc' = [pc EXCEPT ![w] = "check"]
        /\ UNCHANGED <<op, path, todo, since, res>>
  /\ LoadUnchanged

(* isExpired() asks the time again, with the lock gone.  removeExpired      *)
(* removes the file of the id in the session, getSession that of its        *)
(* argument.                                                                *)
Check(w) ==
  /\ pc[w] = "check"
  /\ IF IsExpired(sess[w])
     THEN /\ pc' = [pc EXCEPT ![w] = "remove"]
          /\ path' = [path EXCEPT ![w] = IF op[w] = "removeExpired" THEN sess[w].id ELSE @]
          /\ UNCHANGED <<op, sess, todo, since, fd, mapLen, res>>
     ELSE Loaded(w, "session")
  /\ LoadUnchanged

(* std::filesystem::remove: no error when there is nothing to remove.  An   *)
(* empty id is root itself, a directory that is not empty.                  *)
Remove(w) ==
  /\ pc[w] = "remove"
  /\ dir' = [i \in Ids |-> IF i = path[w] THEN None ELSE dir[i]]
  /\ \/ Loaded(w, IF op[w] = "destroySession" THEN "ok" ELSE "null")
     \/ path[w] = None /\ Throw(w, "SessionError")
  /\ UNCHANGED <<now, file, clientVars, crashes, faults>>

(* Mutated forms: ++dirIter twice, and not at all. *)
NextEntrySkips(w) ==
  /\ pc[w] = "next"
  /\ \/ todo[w] = {} /\ Return(w, "swept")
     \/ \E i, j \in todo[w] :
          /\ path' = [path EXCEPT ![w] = i]
          /\ todo' = [todo EXCEPT ![w] = @ \ {i, j}]
          /\ pc' = [pc EXCEPT ![w] = "exists"]
          /\ UNCHANGED <<op, sess, since, fd, mapLen, res>>
  /\ LoadUnchanged

NextEntryAgain(w) ==
  /\ pc[w] = "next"
  /\ \/ todo[w] = {} /\ Return(w, "swept")
     \/ \E i \in todo[w] :
          /\ path' = [path EXCEPT ![w] = i]
          /\ pc' = [pc EXCEPT ![w] = "exists"]
          /\ UNCHANGED <<op, sess, todo, since, fd, mapLen, res>>
  /\ LoadUnchanged

(* removeExpired's loop, the entries in any order. *)
NextEntry(w) ==
  /\ pc[w] = "next"
  /\ \/ /\ todo[w] = {}
        /\ Return(w, "swept")
     \/ \E i \in todo[w] :
          /\ path' = [path EXCEPT ![w] = i]
          /\ todo' = [todo EXCEPT ![w] = @ \ {i}]
          /\ pc' = [pc EXCEPT ![w] = "exists"]
          /\ UNCHANGED <<op, sess, since, fd, mapLen, res>>
  /\ LoadUnchanged

-----------------------------------------------------------------------------
(* What goes wrong outside the code.                                       *)

(* A call that returns -1 ends the operation: sysassert throws SessionError, *)
(* as destroySession does, the AdHoc file classes throw SystemException and  *)
(* std::filesystem an exception of its own.  At "unlock" and "read" it is    *)
(* LOCK_UN that may fail, with everything before it done.                    *)
SyscallFails(w) ==
  /\ faults < MaxFaults /\ faults' = faults + 1
  /\ \/ pc[w] \in {"open", "openRd", "mmap"} /\ Throw(w, "SystemException")
     \/ pc[w] \in {"exists", "next"} /\ Throw(w, "filesystem_error")
     \/ /\ pc[w] \in {"flockEx", "pwrite", "ftruncate", "unlock", "flockSh", "read", "remove"}
        /\ Throw(w, "SessionError")
  /\ UNCHANGED <<now, dir, file, clientVars, crashes>>

(* sysassert takes any count but -1 for success, a short one included. *)
ShortWrite(w) ==
  /\ pc[w] = "copying"
  /\ faults < MaxFaults /\ faults' = faults + 1
  /\ Goto(w, "ftruncate")
  /\ UNCHANGED <<now, dir, file, clientVars, crashes>>

(* The worker's process is killed and started again. *)
Crash(w) ==
  /\ ~Idle(w)
  /\ crashes < MaxCrashes /\ crashes' = crashes + 1
  /\ Return(w, "crashed")
  /\ UNCHANGED <<now, dir, file, clientVars, faults>>

-----------------------------------------------------------------------------

Call(w) == \/ CreateSession(w) \/ UpdateSession(w) \/ GetSession(w)
           \/ DestroySession(w) \/ RemoveExpired(w)

Save(w) == \/ Open(w) \/ FlockEx(w) \/ Pwrite(w) \/ PwriteEnd(w)
           \/ Ftruncate(w) \/ Unlock(w)

Load(w) == \/ Exists(w) \/ OpenRd(w) \/ Mmap(w) \/ FlockSh(w) \/ Read(w)
           \/ Check(w) \/ Remove(w) \/ NextEntry(w)

Fault(w) == SyscallFails(w) \/ ShortWrite(w) \/ Crash(w)

Next == Tick \/ \E w \in Workers : Call(w) \/ Save(w) \/ Load(w) \/ Fault(w)

Spec == Init /\ [][Next]_vars

(* The scheduler runs a thread whose system call can return; flock(2) is no *)
(* fairer than that.                                                        *)
Fairness == \A w \in Workers : WF_vars(Save(w) \/ Load(w))

FairSpec == Spec /\ Fairness

-----------------------------------------------------------------------------
(* Properties.                                                             *)

PCs == {"idle", "open", "exists", "openRd", "check", "remove", "next"} \cup SaveOpen \cup LoadOpen
Ops == {"none", "createSession", "updateSession", "getSession", "destroySession", "removeExpired"}
Results == {"none", "ok", "null", "session", "SessionError", "SystemException",
            "MarshalException", "filesystem_error", "swept", "aborted", "crashed"}

(* The shape of every variable. *)
TypeOK ==
  /\ now \in Nat
  /\ dir \in [Ids -> Inodes \cup {None}]
  /\ file \in [Inodes -> [data : Session \cup {None, Torn}, size : 0..MaxLen]]
  /\ issued \in [Ids -> {"free", "minted", "known"}]
  /\ pc \in [Workers -> PCs]
  /\ op \in [Workers -> Ops]
  /\ path \in [Workers -> Ids \cup {None}]
  /\ sess \in [Workers -> Readable \cup {None}]
  /\ fd \in [Workers -> Inodes \cup {None}]
  /\ mapLen \in [Workers -> 0..MaxLen]
  /\ todo \in [Workers -> SUBSET Ids]
  /\ since \in [Workers -> Nat]
  /\ res \in [Workers -> Results]
  /\ alone \in [Workers -> BOOLEAN]
  /\ calls \in Nat /\ crashes \in Nat /\ faults \in Nat

NothingFailed == crashes = 0 /\ faults = 0

(* Unless a process dies or a system call fails half way, no load ever      *)
(* unmarshals a half-written file: the write in place of save() is never    *)
(* seen through another worker's map.                                       *)
NoGarbageRead == NothingFailed => \A w \in Workers :
  pc[w] = "read" => file[fd[w]].data # Torn

(* When save() comes to unlock, the file holds exactly the bytes of its own *)
(* session and no tail of a longer one, however many saves raced for it.    *)
SavedWhole == NothingFailed => \A w \in Workers :
  pc[w] = "unlock" => file[fd[w]] = [data |-> sess[w], size |-> Marshalled(sess[w])]

(* A session file no save is working on is whole: it holds the session it   *)
(* is named for, can be mapped (is not empty) and unmarshals.  A getSession *)
(* that meets no save can therefore only return a session or expire it.     *)
QuiescentReadable == NothingFailed => \A i \in Ids :
  dir[i] # None /\ (\A w \in Workers : pc[w] \in SaveOpen => fd[w] # dir[i])
    => LET f == file[dir[i]] IN
         f.data \notin {None, Torn} /\ f.data.id = i /\ f.size = Marshalled(f.data)

(* Whatever died or failed before: a getSession or removeExpired that no    *)
(* other call overlaps takes a name away only from a torn file, or from one *)
(* that holds a whole session whose own time is over.  A garbled session    *)
(* read from one file never costs another its name.                         *)
RemovedInTime == [][\A w \in Workers, i \in Ids :
  /\ pc[w] = "remove" /\ op[w] # "destroySession" /\ alone[w]
  /\ dir[i] # None /\ dir'[i] = None
  => LET s == file[dir[i]].data IN s = Torn \/ s.lastUsed + s.duration < now]_vars

(* Only an expired session is removed as expired: what getSession or        *)
(* removeExpired unlinks is not a file that has been saved afresh since it  *)
(* was read.                                                                *)
LiveNeverRemoved == [][\A w \in Workers, i \in Ids :
  /\ pc[w] = "remove" /\ op[w] # "destroySession"
  /\ path[w] = i /\ dir[i] # None /\ dir'[i] = None
  => LET s == file[dir[i]].data IN s \in {None, Torn} \/ IsExpired(s)]_vars

(* When a removeExpired that no other call disturbed is over, no session    *)
(* that had expired when it began is left.                                  *)
SweepComplete == [][NothingFailed' => \A w \in Workers :
  op[w] = "removeExpired" /\ alone[w] /\ res'[w] \in {"swept", "aborted"} =>
    \A i \in Ids : dir'[i] # None =>
      LET s == file'[dir'[i]].data IN s.lastUsed + s.duration >= since[w]]_vars

(* Every call ends: nobody waits for ever for a lock, whoever is killed or  *)
(* unlinks the file, and no loop goes on for ever.                          *)
CallsEnd == \A w \in Workers : ~Idle(w) ~> Idle(w)

=============================================================================
