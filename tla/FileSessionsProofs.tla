------------------------- MODULE FileSessionsProofs -------------------------
(***************************************************************************)
(* What FileSessions promises for any number of workers, sessions and      *)
(* inodes, any durations and any number of crashes and faults.             *)
(*                                                                         *)
(* The safety properties are not inductive one by one.  They are proved    *)
(* from IInv, which adds to them where each worker's descriptor, path and  *)
(* session stand at each program counter (WorkerInv), that a half-written  *)
(* file always has its writer still copying (TornInv), and that a writer   *)
(* past its copying finds its own bytes (WriteInv).                        *)
(***************************************************************************)
EXTENDS FileSessions, TLAPS

WorkerInv == \A w \in Workers :
  /\ pc[w] \notin {"idle", "next", "remove"} => path[w] \in Ids
  /\ pc[w] \in {"open"} \cup SaveOpen => sess[w] \in Session
  /\ pc[w] = "check" => sess[w] \in Readable
  /\ pc[w] \in {"open"} \cup SaveOpen => sess[w].id = path[w]
  /\ pc[w] \in SaveOpen \cup LoadOpen => fd[w] \in Inodes
  /\ pc[w] \notin SaveOpen \cup LoadOpen => fd[w] = None

Typed == TypeOK /\ WorkerInv

LEMMA DurationsAreIntegers == Durations \subseteq Int /\ Duration \in Durations
<1>1. \A d \in -32768..32767 : d \in Int
  OBVIOUS
<1> QED BY <1>1, DurationAssumption

(* A whole session is one of the things that may be read. *)
LEMMA SessionReadable ==
  Session \subseteq Readable /\ None \notin Session /\ Torn \notin Session /\ Torn # None
  BY ContentAssumption DEF Session, Readable

-----------------------------------------------------------------------------
(* Types, with what each program counter says of a worker's variables.     *)

LEMMA InitTyped == Init => Typed
  BY FSAssumption DEF Init, Typed, TypeOK, WorkerInv, PCs, Ops, Results, SaveOpen, SaveLocked, LoadOpen

(* Returning, by whatever way, leaves a well-typed idle worker. *)
LEMMA ReturnTyped ==
  ASSUME Typed, NEW w \in Workers, NEW r \in Results, Return(w, r),
         dir' \in [Ids -> Inodes \cup {None}], UNCHANGED <<now, file>>,
         issued' \in [Ids -> {"free", "minted", "known"}],
         alone' \in [Workers -> BOOLEAN],
         calls' \in Nat, crashes' \in Nat, faults' \in Nat
  PROVE  Typed'
<1>1. TypeOK'
  <2>1. /\ pc' \in [Workers -> PCs]
        /\ op' \in [Workers -> Ops]
        /\ res' \in [Workers -> Results]
    BY DEF Typed, TypeOK, Return, PCs, Ops
  <2>2. /\ path' \in [Workers -> Ids \cup {None}]
        /\ sess' \in [Workers -> Readable \cup {None}]
        /\ fd' \in [Workers -> Inodes \cup {None}]
    BY DEF Typed, TypeOK, Return
  <2>3. /\ todo' \in [Workers -> SUBSET Ids]
        /\ since' \in [Workers -> Nat]
        /\ mapLen' \in [Workers -> 0..MaxLen]
    <3>1. 0 \in 0..MaxLen
      BY FSAssumption
    <3> QED BY <3>1 DEF Typed, TypeOK, Return
  <2>4. /\ now' \in Nat
        /\ file' \in [Inodes -> [data : Session \cup {None, Torn}, size : 0..MaxLen]]
    BY DEF Typed, TypeOK
  <2> QED BY <2>1, <2>2, <2>3, <2>4 DEF TypeOK
<1>2. ASSUME NEW u \in Workers, u # w
      PROVE  <<pc[u], path[u], sess[u], fd[u]>>' = <<pc[u], path[u], sess[u], fd[u]>>
  BY <1>2 DEF Typed, TypeOK, Return
<1>3. pc'[w] = "idle" /\ fd'[w] = None
  BY DEF Typed, TypeOK, Return
<1>4. WorkerInv'
  BY <1>2, <1>3 DEF Typed, WorkerInv, SaveOpen, SaveLocked, LoadOpen
<1> QED BY <1>1, <1>4 DEF Typed

LEMMA CallTyped ==
  ASSUME Typed, NEW w \in Workers, Call(w)
  PROVE  Typed'
<1>1. CASE CreateSession(w)
  BY <1>1, FSAssumption, DurationsAreIntegers DEF CreateSession, BeginSave, Begin, Idle, Typed, TypeOK, WorkerInv,
     Session, Readable, Lengths, NoVariables, PCs, Ops, Results, SaveOpen, SaveLocked, LoadOpen
<1>2. CASE UpdateSession(w)
  BY <1>2, FSAssumption DEF UpdateSession, BeginSave, Begin, Idle, Typed, TypeOK, WorkerInv,
     Session, Readable, PCs, Ops, Results, SaveOpen, SaveLocked, LoadOpen
<1>3. CASE GetSession(w)
  BY <1>3 DEF GetSession, Begin, Idle, Typed, TypeOK, WorkerInv,
     PCs, Ops, Results, SaveOpen, SaveLocked, LoadOpen
<1>4. CASE DestroySession(w)
  BY <1>4 DEF DestroySession, Begin, Idle, Typed, TypeOK, WorkerInv,
     PCs, Ops, Results, SaveOpen, SaveLocked, LoadOpen
<1>5. CASE RemoveExpired(w)
  BY <1>5 DEF RemoveExpired, Begin, Idle, Typed, TypeOK, WorkerInv,
     PCs, Ops, Results, SaveOpen, SaveLocked, LoadOpen
<1> QED BY <1>1, <1>2, <1>3, <1>4, <1>5 DEF Call

LEMMA SaveTyped ==
  ASSUME Typed, NEW w \in Workers, Save(w)
  PROVE  Typed'
<1>1. CASE Open(w)
  <2>1. PICK n \in Inodes :
          /\ \/ UNCHANGED <<dir, file>>
             \/ /\ dir' = [dir EXCEPT ![path[w]] = n]
                /\ file' = [file EXCEPT ![n] = [data |-> None, size |-> 0]]
          /\ fd' = [fd EXCEPT ![w] = n]
    BY <1>1 DEF Open
  <2>2. /\ dir' \in [Ids -> Inodes \cup {None}]
        /\ file' \in [Inodes -> [data : Session \cup {None, Torn}, size : 0..MaxLen]]
    <3>1. [data |-> None, size |-> 0] \in [data : Session \cup {None, Torn}, size : 0..MaxLen]
      BY FSAssumption
    <3>2. CASE UNCHANGED <<dir, file>>
      BY <3>2 DEF Typed, TypeOK
    <3>3. CASE /\ dir' = [dir EXCEPT ![path[w]] = n]
               /\ file' = [file EXCEPT ![n] = [data |-> None, size |-> 0]]
      <4> DEFINE Contents == [data : Session \cup {None, Torn}, size : 0..MaxLen]
                 new == [data |-> None, size |-> 0]
      <4>1. new \in Contents /\ file \in [Inodes -> Contents] /\ file' = [file EXCEPT ![n] = new]
        BY <3>1, <3>3 DEF Typed, TypeOK
      <4> HIDE DEF Contents, new
      <4>2. file' \in [Inodes -> Contents]
        BY <4>1
      <4>3. dir' \in [Ids -> Inodes \cup {None}]
        BY <3>3 DEF Typed, TypeOK
      <4> QED BY <4>2, <4>3 DEF Contents
    <3> QED BY <2>1, <3>2, <3>3
  <2>4. fd' \in [Workers -> Inodes \cup {None}] /\ pc' \in [Workers -> PCs]
    BY <1>1, <2>1 DEF Open, Typed, TypeOK, PCs, SaveOpen, SaveLocked, LoadOpen
  <2>5. TypeOK'
    BY <1>1, <2>2, <2>4 DEF Open, Typed, TypeOK, callVars, clientVars
  <2>3. WorkerInv'
    BY <1>1, <2>1 DEF Open, Typed, TypeOK, WorkerInv, callVars, SaveOpen, SaveLocked, LoadOpen
  <2> QED BY <2>3, <2>5 DEF Typed
<1>2. CASE FlockEx(w)
  BY <1>2 DEF FlockEx, Goto, Typed, TypeOK, WorkerInv, callVars, clientVars,
     PCs, SaveOpen, SaveLocked, LoadOpen
<1>3. CASE Pwrite(w)
  BY <1>3 DEF Pwrite, Goto, Typed, TypeOK, WorkerInv, callVars, clientVars,
     PCs, SaveOpen, SaveLocked, LoadOpen, Larger, Marshalled, Session, Lengths
<1>4. CASE PwriteEnd(w)
  BY <1>4 DEF PwriteEnd, Goto, Typed, TypeOK, WorkerInv, callVars, clientVars,
     PCs, SaveOpen, SaveLocked, LoadOpen, Larger, Marshalled, Session, Lengths
<1>5. CASE Ftruncate(w)
  BY <1>5 DEF Ftruncate, Goto, Typed, TypeOK, WorkerInv, callVars, clientVars,
     PCs, SaveOpen, SaveLocked, LoadOpen, Marshalled, Session, Lengths
<1>6. CASE Unlock(w)
  BY <1>6, ReturnTyped DEF Unlock, Typed, TypeOK, WorkerInv, Results
<1> QED BY <1>1, <1>2, <1>3, <1>4, <1>5, <1>6 DEF Save

(* Going on, to another entry of the directory or back to the caller. *)
LEMMA LoadedTyped ==
  ASSUME Typed, NEW w \in Workers, NEW r \in Results, Loaded(w, r),
         pc[w] \in {"exists", "openRd", "check", "remove"},
         dir' \in [Ids -> Inodes \cup {None}],
         UNCHANGED <<now, file, clientVars, crashes, faults>>
  PROVE  Typed'
<1>1. CASE op[w] = "removeExpired"
  <2>1. /\ pc' = [pc EXCEPT ![w] = "next"] /\ path' = [path EXCEPT ![w] = None] /\ sess' = [sess EXCEPT ![w] = None]
        /\ UNCHANGED <<op, todo, since, fd, mapLen, res>>
    BY <1>1 DEF Loaded
  <2>2. TypeOK'
    BY <2>1 DEF Typed, TypeOK, clientVars, PCs
  <2>3. fd[w] = None
    BY DEF Typed, WorkerInv, SaveOpen, SaveLocked, LoadOpen
  <2>4. \A u \in Workers : /\ pc'[u] = (IF u = w THEN "next" ELSE pc[u])
                           /\ path'[u] = (IF u = w THEN None ELSE path[u])
                           /\ sess'[u] = (IF u = w THEN None ELSE sess[u])
    BY <2>1 DEF Typed, TypeOK
  <2>5. WorkerInv'
    BY <2>1, <2>3, <2>4 DEF Typed, WorkerInv, SaveOpen, SaveLocked, LoadOpen
  <2> QED BY <2>2, <2>5 DEF Typed
<1>2. CASE op[w] # "removeExpired"
  <2>1. Return(w, r)
    BY <1>2 DEF Loaded
  <2> QED BY <2>1, ReturnTyped DEF Typed, TypeOK, clientVars
<1> QED BY <1>1, <1>2

LEMMA LoadTyped ==
  ASSUME Typed, NEW w \in Workers, Load(w)
  PROVE  Typed'
<1> USE DEF LoadUnchanged
<1>1. CASE Exists(w)
  <2>1. CASE Goto(w, "openRd")
    BY <1>1, <2>1 DEF Exists, Goto, Typed, TypeOK, WorkerInv, callVars, clientVars,
       PCs, SaveOpen, SaveLocked, LoadOpen
  <2>2. CASE Loaded(w, "null")
    BY <1>1, <2>2, LoadedTyped DEF Exists, Typed, TypeOK, Results
  <2> QED BY <1>1, <2>1, <2>2 DEF Exists
<1>2. CASE OpenRd(w)
  <2>1. CASE dir[path[w]] = None
    BY <1>2, <2>1, LoadedTyped DEF OpenRd, Typed, TypeOK, Results
  <2>2. CASE dir[path[w]] # None
    <3>1. dir[path[w]] \in Inodes
      BY <1>2, <2>2 DEF OpenRd, Typed, TypeOK, WorkerInv
    <3> QED
      BY <1>2, <2>2, <3>1 DEF OpenRd, Typed, TypeOK, WorkerInv, callVars, clientVars,
         PCs, SaveOpen, SaveLocked, LoadOpen
  <2> QED BY <2>1, <2>2
<1>3. CASE Mmap(w)
  <2>1. CASE file[fd[w]].size = 0
    BY <1>3, <2>1, ReturnTyped DEF Mmap, Throw, Typed, TypeOK, Results, clientVars
  <2>2. CASE file[fd[w]].size # 0
    <3>1. file[fd[w]].size \in 0..MaxLen
      BY <1>3 DEF Mmap, Typed, TypeOK, WorkerInv, LoadOpen
    <3> QED
      BY <1>3, <2>2, <3>1 DEF Mmap, Typed, TypeOK, WorkerInv, callVars, clientVars,
         PCs, SaveOpen, SaveLocked, LoadOpen
  <2> QED BY <2>1, <2>2
<1>4. CASE FlockSh(w)
  BY <1>4 DEF FlockSh, Goto, Typed, TypeOK, WorkerInv, callVars, clientVars,
     PCs, SaveOpen, SaveLocked, LoadOpen
<1>5. CASE Read(w)
  <2>1. ASSUME NEW s \in Readable,
               sess' = [sess EXCEPT ![w] = s], fd' = [fd EXCEPT ![w] = None],
               mapLen' = [mapLen EXCEPT ![w] = 0], pc' = [pc EXCEPT ![w] = "check"],
               UNCHANGED <<op, path, todo, since, res>>
        PROVE  Typed'
    <3>1. UNCHANGED <<now, dir, file, clientVars, crashes, faults>> /\ pc[w] = "read"
      BY <1>5 DEF Read
    <3>2. TypeOK'
      BY <2>1, <3>1, FSAssumption DEF Typed, TypeOK, clientVars, PCs
    <3>3. WorkerInv'
      BY <2>1, <3>1 DEF Typed, TypeOK, WorkerInv, SaveOpen, SaveLocked, LoadOpen
    <3> QED BY <3>2, <3>3 DEF Typed
  <2>2. Garbled(path[w]) \subseteq Readable
    <3>1. path[w] \in Ids
      BY <1>5 DEF Read, Typed, WorkerInv
    <3>2. \A n \in 0..MaxTime : n \in Nat
      BY FSAssumption
    <3> QED BY <3>1, <3>2 DEF Garbled, Readable
  <2>3. Unmarshals(file[fd[w]].data, mapLen[w]) => file[fd[w]].data \in Readable
    BY <1>5, SessionReadable DEF Read, Unmarshals, Typed, TypeOK, WorkerInv, LoadOpen
  <2>4. CASE Throw(w, "MarshalException")
    BY <1>5, <2>4, ReturnTyped DEF Read, Throw, Typed, TypeOK, Results, clientVars
  <2>5. CASE ~Throw(w, "MarshalException")
    BY <1>5, <2>1, <2>2, <2>3, <2>5 DEF Read
  <2> QED BY <2>4, <2>5
<1>6. CASE Check(w)
  <2>1. CASE IsExpired(sess[w])
    <3>1. /\ pc' = [pc EXCEPT ![w] = "remove"]
          /\ path' = [path EXCEPT ![w] = IF op[w] = "removeExpired" THEN sess[w].id ELSE @]
          /\ UNCHANGED <<op, sess, todo, since, fd, mapLen, res>>
          /\ UNCHANGED <<now, dir, file, clientVars, crashes, faults>>
          /\ pc[w] = "check"
      BY <1>6, <2>1 DEF Check, LoadUnchanged
    <3>2. path[w] \in Ids /\ sess[w].id \in Ids \cup {None}
      BY <3>1 DEF Typed, WorkerInv, Readable
    <3>3. TypeOK'
      BY <3>1, <3>2 DEF Typed, TypeOK, clientVars, PCs
    <3>4. WorkerInv'
      BY <3>1, <3>2 DEF Typed, TypeOK, WorkerInv, SaveOpen, SaveLocked, LoadOpen
    <3> QED BY <3>3, <3>4 DEF Typed
  <2>2. CASE ~IsExpired(sess[w])
    BY <1>6, <2>2, LoadedTyped DEF Check, Typed, TypeOK, Results
  <2> QED BY <2>1, <2>2
<1>7. CASE Remove(w)
  <2>1. dir' \in [Ids -> Inodes \cup {None}]
    BY <1>7 DEF Remove, Typed, TypeOK
  <2>2. CASE Loaded(w, IF op[w] = "destroySession" THEN "ok" ELSE "null")
    BY <1>7, <2>1, <2>2, LoadedTyped DEF Remove, Results
  <2>3. CASE Throw(w, "SessionError")
    BY <1>7, <2>1, <2>3, ReturnTyped DEF Remove, Throw, Typed, TypeOK, Results, clientVars
  <2> QED BY <1>7, <2>2, <2>3 DEF Remove
<1>8. CASE NextEntry(w)
  <2>1. CASE Return(w, "swept")
    BY <1>8, <2>1, ReturnTyped DEF NextEntry, Typed, TypeOK, Results, clientVars
  <2>2. CASE ~Return(w, "swept")
    <3>1. PICK i \in todo[w] :
            /\ path' = [path EXCEPT ![w] = i]
            /\ todo' = [todo EXCEPT ![w] = @ \ {i}]
            /\ pc' = [pc EXCEPT ![w] = "exists"]
            /\ UNCHANGED <<op, sess, since, fd, mapLen, res>>
      BY <1>8, <2>2 DEF NextEntry
    <3>2. UNCHANGED <<now, dir, file, clientVars, crashes, faults>> /\ pc[w] = "next"
      BY <1>8 DEF NextEntry, LoadUnchanged
    <3>3. i \in Ids /\ todo[w] \in SUBSET Ids
      BY <3>1 DEF Typed, TypeOK
    <3>4. TypeOK'
      BY <3>1, <3>2, <3>3 DEF Typed, TypeOK, clientVars, PCs
    <3>5. WorkerInv'
      BY <3>1, <3>2, <3>3 DEF Typed, TypeOK, WorkerInv, SaveOpen, SaveLocked, LoadOpen
    <3> QED BY <3>4, <3>5 DEF Typed
  <2> QED BY <2>1, <2>2
<1> QED BY <1>1, <1>2, <1>3, <1>4, <1>5, <1>6, <1>7, <1>8 DEF Load

LEMMA FaultTyped ==
  ASSUME Typed, NEW w \in Workers, Fault(w)
  PROVE  Typed'
<1>1. CASE SyscallFails(w)
  BY <1>1, ReturnTyped DEF SyscallFails, Throw, Typed, TypeOK, Results, clientVars
<1>2. CASE ShortWrite(w)
  BY <1>2 DEF ShortWrite, Goto, Typed, TypeOK, WorkerInv, callVars, clientVars,
     PCs, SaveOpen, SaveLocked, LoadOpen
<1>3. CASE Crash(w)
  BY <1>3, ReturnTyped DEF Crash, Typed, TypeOK, Results, clientVars
<1> QED BY <1>1, <1>2, <1>3 DEF Fault

LEMMA StepTyped == Typed /\ [Next]_vars => Typed'
<1> SUFFICES ASSUME Typed, [Next]_vars PROVE Typed'
  OBVIOUS
<1>1. CASE Tick
  BY <1>1 DEF Tick, Typed, TypeOK, WorkerInv, callVars, clientVars
<1>2. ASSUME NEW w \in Workers, Call(w) \/ Save(w) \/ Load(w) \/ Fault(w)
      PROVE  Typed'
  BY <1>2, CallTyped, SaveTyped, LoadTyped, FaultTyped
<1>3. CASE UNCHANGED vars
  BY <1>3 DEF vars, Typed, TypeOK, WorkerInv, callVars, clientVars
<1> QED BY <1>1, <1>2, <1>3 DEF Next

(* Every variable keeps its shape. *)
THEOREM TypeCorrect == Spec => []TypeOK
<1>1. Typed => TypeOK
  BY DEF Typed
<1> QED BY <1>1, InitTyped, StepTyped, PTL DEF Spec

-----------------------------------------------------------------------------
(* Locks.                                                                  *)

Step(w) == Call(w) \/ Save(w) \/ Load(w) \/ Fault(w)

(* A step of one worker leaves the others where they are. *)
LEMMA OthersKeep ==
  ASSUME Typed, NEW w \in Workers, Step(w), NEW u \in Workers, u # w
  PROVE  pc'[u] = pc[u] /\ fd'[u] = fd[u] /\ path'[u] = path[u] /\ sess'[u] = sess[u]
         /\ op'[u] = op[u] /\ res'[u] = res[u]
<1> USE DEF Typed, TypeOK, Return, Throw, Goto, Begin, BeginSave, Loaded, LoadUnchanged, callVars, clientVars
<1>1. CASE Call(w)
  BY <1>1 DEF Call, CreateSession, UpdateSession, GetSession, DestroySession, RemoveExpired
<1>2. CASE Save(w)
  BY <1>2 DEF Save, Open, FlockEx, Pwrite, PwriteEnd, Ftruncate, Unlock
<1>3. CASE Load(w)
  BY <1>3 DEF Load, Exists, OpenRd, Mmap, FlockSh, Read, Check, Remove, NextEntry
<1>4. CASE Fault(w)
  BY <1>4 DEF Fault, SyscallFails, ShortWrite, Crash
<1> QED BY <1>1, <1>2, <1>3, <1>4 DEF Step

(* Only the two flock(2) calls that take a lock add to what a worker holds. *)
LEMMA LocksOnlyByFlock ==
  ASSUME Typed, NEW w \in Workers, Step(w), ~FlockEx(w), ~FlockSh(w)
  PROVE  /\ pc'[w] \in SaveLocked => pc[w] \in SaveLocked /\ fd'[w] = fd[w]
         /\ pc'[w] # "read"
<1> USE DEF Typed, TypeOK, Return, Throw, Goto, Begin, BeginSave, Loaded, LoadUnchanged, callVars, clientVars,
        SaveLocked
<1>1. CASE Call(w)
  BY <1>1 DEF Call, CreateSession, UpdateSession, GetSession, DestroySession, RemoveExpired
<1>2. CASE Save(w)
  BY <1>2 DEF Save, Open, FlockEx, Pwrite, PwriteEnd, Ftruncate, Unlock
<1>3. CASE Load(w)
  BY <1>3 DEF Load, Exists, OpenRd, Mmap, FlockSh, Read, Check, Remove, NextEntry
<1>4. CASE Fault(w)
  BY <1>4 DEF Fault, SyscallFails, ShortWrite, Crash
<1> QED BY <1>1, <1>2, <1>3, <1>4 DEF Step

(* While save() holds LOCK_EX on a file no other save or load holds a lock  *)
(* on that same inode.                                                      *)
LockExclusion == \A w, u \in Workers :
  w # u /\ HoldsEx(w, fd[w]) => ~HoldsEx(u, fd[w]) /\ ~HoldsSh(u, fd[w])

LEMMA StepLocks ==
  ASSUME Typed, LockExclusion, [Next]_vars
  PROVE  LockExclusion'
<1>1. CASE Tick \/ UNCHANGED vars
  BY <1>1 DEF Tick, vars, callVars, LockExclusion, HoldsEx, HoldsSh
<1>2. ASSUME NEW w \in Workers, Step(w)
      PROVE  LockExclusion'
  <2>1. SUFFICES ASSUME NEW a \in Workers, NEW b \in Workers, a # b,
                        HoldsEx(a, fd[a])', (HoldsEx(b, fd[a]) \/ HoldsSh(b, fd[a]))'
                 PROVE  FALSE
    BY DEF LockExclusion
  <2>2. \A u \in Workers \ {w} : pc'[u] = pc[u] /\ fd'[u] = fd[u]
    BY <1>2, OthersKeep
  <2>3. CASE FlockEx(w)
    <3>1. pc'[w] = "pwrite" /\ fd'[w] = fd[w]
      BY <2>3 DEF FlockEx, Goto, Typed, TypeOK
    <3>2. \A u \in Workers \ {w} : ~HoldsEx(u, fd[w]) /\ ~HoldsSh(u, fd[w])
      BY <2>3 DEF FlockEx
    <3> QED BY <2>1, <2>2, <3>1, <3>2 DEF LockExclusion, HoldsEx, HoldsSh, SaveLocked
  <2>4. CASE FlockSh(w)
    <3>1. pc'[w] = "read" /\ fd'[w] = fd[w]
      BY <2>4 DEF FlockSh, Goto, Typed, TypeOK
    <3>2. \A u \in Workers \ {w} : ~HoldsEx(u, fd[w])
      BY <2>4 DEF FlockSh
    <3> QED BY <2>1, <2>2, <3>1, <3>2 DEF LockExclusion, HoldsEx, HoldsSh, SaveLocked
  <2>5. CASE ~FlockEx(w) /\ ~FlockSh(w)
    <3>1. /\ pc'[w] \in SaveLocked => pc[w] \in SaveLocked /\ fd'[w] = fd[w]
          /\ pc'[w] # "read"
      BY <1>2, <2>5, LocksOnlyByFlock
    <3> QED BY <2>1, <2>2, <3>1 DEF LockExclusion, HoldsEx, HoldsSh
  <2> QED BY <2>3, <2>4, <2>5
<1> QED BY <1>1, <1>2 DEF Next, Step

-----------------------------------------------------------------------------
(* What the files hold.                                                    *)

(* A half-written file has its writer still at it. *)
TornInv == NothingFailed => \A n \in Inodes :
  file[n].data = Torn => \E w \in Workers : pc[w] = "copying" /\ fd[w] = n

(* From its pwrite to its unlock a save finds in the file what it wrote. *)
WriteInv == NothingFailed => \A w \in Workers :
  /\ pc[w] = "ftruncate" => file[fd[w]].data = sess[w]
  /\ pc[w] = "unlock" => file[fd[w]] = [data |-> sess[w], size |-> Marshalled(sess[w])]

(* No two names share an inode: one is reused only when nobody has it open. *)
OneNamePerFile == \A i, j \in Ids : i # j /\ dir[i] # None => dir[i] # dir[j]

(* A save has open the file of its own session, or one that has lost its name. *)
NameInv == \A w \in Workers, i \in Ids :
  pc[w] \in SaveOpen /\ dir[i] = fd[w] => path[w] = i

IInv == /\ Typed /\ LockExclusion /\ OneNamePerFile /\ NameInv
        /\ TornInv /\ WriteInv /\ QuiescentReadable

(* A removal takes away one name, or none when it is given an id of no file. *)
LEMMA RemoveStep ==
  ASSUME Typed, NEW w \in Workers, Remove(w)
  PROVE  \/ path[w] = None /\ dir' = dir
         \/ path[w] \in Ids /\ dir' = [dir EXCEPT ![path[w]] = None]
<1>1. dir' = [i \in Ids |-> IF i = path[w] THEN None ELSE dir[i]]
  BY DEF Remove
<1>2. dir \in [Ids -> Inodes \cup {None}] /\ path[w] \in Ids \cup {None}
  BY DEF Typed, TypeOK
<1>3. CASE path[w] = None
  <2>1. \A i \in Ids : i # path[w]
    BY <1>3, FSAssumption
  <2> QED BY <1>1, <1>2, <1>3, <2>1
<1>4. CASE path[w] \in Ids
  BY <1>1, <1>2, <1>4
<1> QED BY <1>2, <1>3, <1>4

(* The steps that leave every file as it is, or end a run without failures, *)
(* and what they may do to the directory: removing a name.                  *)
LEMMA QuietStep ==
  ASSUME Typed, NEW w \in Workers, Step(w),
         ~Open(w), ~Pwrite(w), ~PwriteEnd(w), ~Ftruncate(w)
  PROVE  /\ NothingFailed' => NothingFailed /\ file' = file /\ pc[w] # "copying"
         /\ NothingFailed' /\ pc'[w] \in SaveOpen =>
              pc[w] \in SaveOpen /\ pc'[w] \notin {"ftruncate", "unlock"}
         /\ pc'[w] \in SaveOpen => pc[w] \in SaveOpen /\ fd'[w] = fd[w] /\ path'[w] = path[w]
         /\ dir' = dir \/ \E i \in Ids : dir' = [dir EXCEPT ![i] = None]
<1> USE DEF Typed, TypeOK, WorkerInv, Return, Throw, Goto, Begin, BeginSave, Loaded, LoadUnchanged,
        callVars, clientVars, SaveLocked, SaveOpen, NothingFailed
<1>1. CASE Call(w)
  <2>1. /\ pc[w] = "idle" /\ pc'[w] \in {"open", "exists", "remove", "next"}
        /\ UNCHANGED <<dir, file, crashes, faults>>
    BY <1>1 DEF Call, CreateSession, UpdateSession, GetSession, DestroySession, RemoveExpired, Idle
  <2> QED BY <2>1
<1>2. CASE Save(w)
  <2>1. CASE FlockEx(w)
    BY <2>1 DEF FlockEx
  <2>2. CASE Unlock(w)
    BY <2>2 DEF Unlock
  <2> QED BY <1>2, <2>1, <2>2 DEF Save
<1>3. CASE Load(w)
  <2>1. CASE Remove(w)
    BY <2>1, RemoveStep DEF Remove
  <2>2. CASE ~Remove(w)
    BY <1>3, <2>2 DEF Load, Exists, OpenRd, Mmap, FlockSh, Read, Check, NextEntry
  <2> QED BY <2>1, <2>2
<1>4. CASE Fault(w)
  BY <1>4 DEF Fault, SyscallFails, ShortWrite, Crash
<1> QED BY <1>1, <1>2, <1>3, <1>4 DEF Step

(* Unless something fails, a worker stays with a save until its unlock. *)
LEMMA SavesGoOn ==
  ASSUME Typed, NEW w \in Workers, Step(w), NothingFailed', pc[w] \in SaveOpen,
         ~Pwrite(w), ~PwriteEnd(w), ~Ftruncate(w), ~Unlock(w)
  PROVE  pc'[w] \in SaveOpen /\ fd'[w] = fd[w]
<1> USE DEF Typed, TypeOK, SaveOpen, SaveLocked, NothingFailed
<1>1. CASE Call(w)
  BY <1>1 DEF Call, CreateSession, UpdateSession, GetSession, DestroySession, RemoveExpired,
     BeginSave, Begin, Idle
<1>2. CASE Save(w)
  BY <1>2 DEF Save, Open, FlockEx, Goto
<1>3. CASE Load(w)
  BY <1>3 DEF Load, Exists, OpenRd, Mmap, FlockSh, Read, Check, Remove, NextEntry
<1>4. CASE Fault(w)
  BY <1>4 DEF Fault, SyscallFails, ShortWrite, Crash
<1> QED BY <1>1, <1>2, <1>3, <1>4 DEF Step

(* open(O_CREAT) finds the file, or links an inode nobody has open. *)
LEMMA OpenStep ==
  ASSUME Typed, NEW w \in Workers, Open(w)
  PROVE  \E n \in Inodes :
           /\ pc[w] = "open" /\ pc'[w] = "flockEx"
           /\ fd'[w] = n /\ path'[w] = path[w] /\ path[w] \in Ids /\ res' = res
           /\ NothingFailed' = NothingFailed
           /\ \/ dir[path[w]] = n /\ dir' = dir /\ file' = file
              \/ /\ Unused(n)
                 /\ dir' = [dir EXCEPT ![path[w]] = n]
                 /\ file' = [file EXCEPT ![n] = [data |-> None, size |-> 0]]
  BY DEF Open, Typed, TypeOK, WorkerInv, callVars, NothingFailed

(* The three calls that write do so to the file the worker has locked. *)
LEMMA WriteStep ==
  ASSUME Typed, NEW w \in Workers, Pwrite(w) \/ PwriteEnd(w) \/ Ftruncate(w)
  PROVE  /\ HoldsEx(w, fd[w]) /\ fd[w] \in Inodes /\ sess[w] \in Session
         /\ fd' = fd /\ path' = path /\ dir' = dir /\ sess' = sess /\ res' = res
         /\ NothingFailed' = NothingFailed
         /\ pc'[w] \in SaveLocked
         /\ \A n \in Inodes \ {fd[w]} : file'[n] = file[n]
         /\ Pwrite(w) => pc[w] = "pwrite" /\ pc'[w] = "copying"
         /\ PwriteEnd(w) => pc'[w] = "ftruncate" /\ file'[fd[w]].data = sess[w]
         /\ Ftruncate(w) => /\ pc[w] = "ftruncate" /\ pc'[w] = "unlock"
                            /\ file'[fd[w]] = [data |-> file[fd[w]].data, size |-> Marshalled(sess[w])]
<1> USE DEF Typed, TypeOK, WorkerInv, Goto, callVars, NothingFailed, HoldsEx, SaveLocked, SaveOpen
<1>1. CASE Pwrite(w)
  BY <1>1 DEF Pwrite, PwriteEnd, Ftruncate
<1>2. CASE PwriteEnd(w)
  BY <1>2 DEF Pwrite, PwriteEnd, Ftruncate
<1>3. CASE Ftruncate(w)
  BY <1>3 DEF Pwrite, PwriteEnd, Ftruncate
<1> QED BY <1>1, <1>2, <1>3

LEMMA StepTorn ==
  ASSUME Typed, TornInv, NEW w \in Workers, Step(w)
  PROVE  TornInv'
<1> SUFFICES ASSUME NothingFailed', NEW n \in Inodes, file'[n].data = Torn
             PROVE  \E u \in Workers : pc'[u] = "copying" /\ fd'[u] = n
  BY DEF TornInv
<1>1. ASSUME file[n].data = Torn, NothingFailed, pc[w] # "copying" \/ fd[w] # n
      PROVE  \E u \in Workers : pc'[u] = "copying" /\ fd'[u] = n
  <2>1. PICK u \in Workers : pc[u] = "copying" /\ fd[u] = n
    BY <1>1 DEF TornInv
  <2>2. pc'[u] = pc[u] /\ fd'[u] = fd[u]
    BY <1>1, <2>1, OthersKeep
  <2> QED BY <2>1, <2>2
<1>2. CASE Open(w)
  <2>1. NothingFailed /\ pc[w] # "copying"
    BY <1>2, OpenStep
  <2>2. PICK m \in Inodes : file' = file \/ file' = [file EXCEPT ![m] = [data |-> None, size |-> 0]]
    BY <1>2, OpenStep
  <2>3. file[n].data = Torn
    BY <2>2, ContentAssumption DEF Typed, TypeOK
  <2> QED BY <1>1, <2>1, <2>3
<1>3. CASE Pwrite(w) \/ PwriteEnd(w) \/ Ftruncate(w)
  <2>1. CASE n # fd[w]
    <3>1. NothingFailed /\ file'[n] = file[n]
      BY <1>3, <2>1, WriteStep
    <3> QED BY <1>1, <2>1, <3>1
  <2>2. CASE n = fd[w] /\ Pwrite(w)
    BY <2>2, WriteStep
  <2>3. CASE n = fd[w] /\ PwriteEnd(w)
    BY <2>3, WriteStep, SessionReadable
  <2>4. CASE n = fd[w] /\ Ftruncate(w)
    <3>1. /\ NothingFailed /\ pc[w] = "ftruncate"
          /\ file'[fd[w]] = [data |-> file[fd[w]].data, size |-> Marshalled(sess[w])]
      BY <2>4, WriteStep
    <3>2. file[n].data = Torn
      BY <2>4, <3>1
    <3> QED BY <1>1, <3>1, <3>2
  <2> QED BY <1>3, <2>1, <2>2, <2>3, <2>4
<1>4. CASE ~Open(w) /\ ~Pwrite(w) /\ ~PwriteEnd(w) /\ ~Ftruncate(w)
  <2>1. NothingFailed /\ file' = file /\ pc[w] # "copying"
    BY <1>4, QuietStep
  <2> QED BY <1>1, <2>1
<1> QED BY <1>2, <1>3, <1>4

LEMMA StepWrite ==
  ASSUME Typed, LockExclusion, WriteInv, NEW w \in Workers, Step(w)
  PROVE  WriteInv'
<1> SUFFICES ASSUME NothingFailed', NEW u \in Workers
             PROVE  /\ pc'[u] = "ftruncate" => file'[fd'[u]].data = sess'[u]
                    /\ pc'[u] = "unlock" =>
                         file'[fd'[u]] = [data |-> sess'[u], size |-> Marshalled(sess'[u])]
  BY DEF WriteInv, Marshalled
<1>1. u # w => pc'[u] = pc[u] /\ fd'[u] = fd[u] /\ sess'[u] = sess[u]
  BY OthersKeep
<1>2. CASE Open(w)
  <2>1. pc'[w] = "flockEx" /\ NothingFailed
    BY <1>2, OpenStep
  <2>2. u # w /\ fd[u] \in Inodes => file'[fd[u]] = file[fd[u]]
    <3>1. PICK n \in Inodes :
            file' = file \/ (Unused(n) /\ file' = [file EXCEPT ![n] = [data |-> None, size |-> 0]])
      BY <1>2, OpenStep
    <3> QED BY <3>1 DEF Unused, Typed, TypeOK
  <2> QED BY <1>1, <2>1, <2>2 DEF WriteInv, Typed, WorkerInv, SaveOpen, SaveLocked
<1>3. CASE Pwrite(w) \/ PwriteEnd(w) \/ Ftruncate(w)
  <2>1. CASE u # w
    <3>1. pc[u] \in SaveLocked => fd[u] \in Inodes \ {fd[w]}
      BY <1>3, <2>1, WriteStep DEF LockExclusion, HoldsEx, Typed, WorkerInv, SaveOpen
    <3>2. NothingFailed /\ \A n \in Inodes \ {fd[w]} : file'[n] = file[n]
      BY <1>3, WriteStep
    <3> QED BY <1>1, <2>1, <3>1, <3>2 DEF WriteInv, SaveLocked
  <2>2. CASE u = w
    BY <1>3, <2>2, WriteStep, ZenonT(60) DEF WriteInv
  <2> QED BY <2>1, <2>2
<1>4. CASE ~Open(w) /\ ~Pwrite(w) /\ ~PwriteEnd(w) /\ ~Ftruncate(w)
  <2>1. NothingFailed /\ file' = file /\ pc'[w] \notin {"ftruncate", "unlock"}
    BY <1>4, QuietStep DEF SaveOpen, SaveLocked
  <2> QED BY <1>1, <2>1 DEF WriteInv
<1> QED BY <1>2, <1>3, <1>4

-----------------------------------------------------------------------------
(* Names.                                                                  *)

LEMMA StepNames ==
  ASSUME Typed, OneNamePerFile, NameInv, NEW w \in Workers, Step(w)
  PROVE  OneNamePerFile' /\ NameInv'
<1>1. \A u \in Workers \ {w} : pc'[u] = pc[u] /\ fd'[u] = fd[u] /\ path'[u] = path[u]
  BY OthersKeep
<1>2. \A u \in Workers : pc[u] \in SaveOpen => fd[u] # None
  BY FSAssumption DEF Typed, WorkerInv
<1>3. CASE Open(w)
  <2>1. PICK n \in Inodes :
          /\ fd'[w] = n /\ path'[w] = path[w] /\ path[w] \in Ids
          /\ \/ dir[path[w]] = n /\ dir' = dir
             \/ Unused(n) /\ dir' = [dir EXCEPT ![path[w]] = n]
    BY <1>3, OpenStep
  <2>2. CASE dir[path[w]] = n /\ dir' = dir
    BY <1>1, <2>1, <2>2, FSAssumption DEF OneNamePerFile, NameInv
  <2>3. CASE Unused(n) /\ dir' = [dir EXCEPT ![path[w]] = n]
    BY <1>1, <2>1, <2>3, FSAssumption DEF OneNamePerFile, NameInv, Unused, Typed, TypeOK
  <2> QED BY <2>1, <2>2, <2>3
<1>4. CASE Pwrite(w) \/ PwriteEnd(w) \/ Ftruncate(w)
  <2>1. dir' = dir /\ fd' = fd /\ path' = path /\ pc[w] \in SaveOpen
    BY <1>4, WriteStep DEF HoldsEx, SaveOpen
  <2> QED BY <1>1, <2>1 DEF OneNamePerFile, NameInv
<1>5. CASE ~Open(w) /\ ~Pwrite(w) /\ ~PwriteEnd(w) /\ ~Ftruncate(w)
  <2>1. \A i \in Ids : dir'[i] = dir[i] \/ dir'[i] = None
    BY <1>5, QuietStep DEF Typed, TypeOK
  <2>2. pc'[w] \in SaveOpen => pc[w] \in SaveOpen /\ fd'[w] = fd[w] /\ path'[w] = path[w]
    BY <1>5, QuietStep
  <2>3. OneNamePerFile'
    BY <2>1 DEF OneNamePerFile
  <2>4. NameInv'
    BY <1>1, <1>2, <2>1, <2>2 DEF NameInv
  <2> QED BY <2>3, <2>4
<1> QED BY <1>3, <1>4, <1>5

(* A file nobody is saving to was left whole by the last save to it.  The   *)
(* step that takes the last saver away from it is that save's unlock.       *)
LEMMA StepQuiescent ==
  ASSUME IInv, NEW w \in Workers, Step(w), NameInv', OneNamePerFile'
  PROVE  QuiescentReadable'
<1> USE DEF IInv
<1> SUFFICES ASSUME NothingFailed', NEW i \in Ids, dir'[i] # None,
                    \A u \in Workers : pc'[u] \in SaveOpen => fd'[u] # dir'[i]
             PROVE  /\ file'[dir'[i]].data \notin {None, Torn}
                    /\ file'[dir'[i]].data.id = i
                    /\ file'[dir'[i]].size = Marshalled(file'[dir'[i]].data)
  BY DEF QuiescentReadable, Marshalled
<1>1. \A u \in Workers \ {w} : pc'[u] = pc[u] /\ fd'[u] = fd[u]
  BY OthersKeep
<1>2. CASE Open(w)
  <2>1. PICK n \in Inodes :
          /\ pc[w] = "open" /\ pc'[w] = "flockEx" /\ fd'[w] = n /\ path[w] \in Ids /\ NothingFailed
          /\ \/ dir[path[w]] = n /\ dir' = dir /\ file' = file
             \/ /\ Unused(n)
                /\ dir' = [dir EXCEPT ![path[w]] = n]
                /\ file' = [file EXCEPT ![n] = [data |-> None, size |-> 0]]
    BY <1>2, OpenStep
  <2>2. dir'[i] # n
    BY <2>1 DEF SaveOpen
  <2>3. dir'[i] = dir[i] /\ file'[dir'[i]] = file[dir[i]]
    BY <2>1, <2>2 DEF Typed, TypeOK
  <2>4. \A u \in Workers : pc[u] \in SaveOpen => fd[u] # dir[i]
    BY <1>1, <2>1, <2>3 DEF SaveOpen, SaveLocked
  <2> QED BY <2>1, <2>3, <2>4 DEF QuiescentReadable
<1>3. CASE Pwrite(w) \/ PwriteEnd(w) \/ Ftruncate(w)
  <2>1. /\ dir' = dir /\ fd' = fd /\ NothingFailed
        /\ pc'[w] \in SaveOpen /\ pc[w] \in SaveOpen
        /\ \A n \in Inodes \ {fd[w]} : file'[n] = file[n]
    BY <1>3, WriteStep DEF HoldsEx, SaveOpen
  <2>2. dir[i] \in Inodes \ {fd[w]}
    BY <2>1 DEF Typed, TypeOK
  <2>3. \A u \in Workers : pc[u] \in SaveOpen => fd[u] # dir[i]
    BY <1>1, <2>1, <2>2
  <2> QED BY <2>1, <2>2, <2>3 DEF QuiescentReadable
<1>4. CASE Unlock(w)
  <2>1. /\ pc[w] = "unlock" /\ dir' = dir /\ file' = file /\ NothingFailed
    BY <1>4 DEF Unlock, NothingFailed
  <2>2. CASE fd[w] = dir[i]
    <3>1. file[dir[i]] = [data |-> sess[w], size |-> Marshalled(sess[w])]
      BY <2>1, <2>2 DEF WriteInv
    <3>2. sess[w] \in Session /\ sess[w].id = path[w] /\ path[w] = i
      BY <2>1, <2>2 DEF Typed, WorkerInv, NameInv, SaveOpen, SaveLocked
    <3> QED BY <2>1, <3>1, <3>2, SessionReadable
  <2>3. CASE fd[w] # dir[i]
    BY <1>1, <2>1, <2>3 DEF QuiescentReadable
  <2> QED BY <2>2, <2>3
<1>5. CASE ~Open(w) /\ ~Pwrite(w) /\ ~PwriteEnd(w) /\ ~Ftruncate(w) /\ ~Unlock(w)
  <2>1. /\ NothingFailed /\ file' = file
        /\ pc[w] \in SaveOpen => pc'[w] \in SaveOpen /\ fd'[w] = fd[w]
    BY <1>5, QuietStep, SavesGoOn
  <2>2. dir'[i] = dir[i]
    BY <1>5, QuietStep DEF Typed, TypeOK
  <2> QED BY <1>1, <2>1, <2>2 DEF QuiescentReadable
<1> QED BY <1>2, <1>3, <1>4, <1>5

-----------------------------------------------------------------------------
(* Loads.                                                                  *)

(* Who reads holds LOCK_SH; were the file torn, its writer would hold LOCK_EX. *)
LEMMA NoTornUnderReader ==
  ASSUME Typed, LockExclusion, TornInv, NothingFailed, NEW w \in Workers, pc[w] = "read"
  PROVE  file[fd[w]].data # Torn
<1> SUFFICES ASSUME file[fd[w]].data = Torn PROVE FALSE
  OBVIOUS
<1>1. fd[w] \in Inodes
  BY DEF Typed, WorkerInv, LoadOpen
<1>2. PICK u \in Workers : pc[u] = "copying" /\ fd[u] = fd[w]
  BY <1>1 DEF TornInv
<1>3. HoldsEx(u, fd[u]) /\ HoldsSh(w, fd[u]) /\ u # w
  BY <1>2 DEF HoldsEx, HoldsSh, SaveLocked
<1> QED BY <1>3 DEF LockExclusion

-----------------------------------------------------------------------------
(* The inductive invariant and what follows from it.                       *)

LEMMA InitIInv == Init => IInv
<1> SUFFICES ASSUME Init PROVE IInv
  OBVIOUS
<1>1. Typed
  BY InitTyped
<1>2. LockExclusion /\ WriteInv /\ NameInv
  BY DEF Init, LockExclusion, HoldsEx, HoldsSh, SaveLocked, SaveOpen, WriteInv, NameInv
<1>3. OneNamePerFile /\ QuiescentReadable
  BY DEF Init, OneNamePerFile, QuiescentReadable
<1>4. TornInv
  BY ContentAssumption DEF Init, TornInv
<1> QED BY <1>1, <1>2, <1>3, <1>4 DEF IInv

LEMMA StepIInv == IInv /\ [Next]_vars => IInv'
<1> SUFFICES ASSUME IInv, [Next]_vars PROVE IInv'
  OBVIOUS
<1>1. Typed' /\ LockExclusion'
  BY StepTyped, StepLocks DEF IInv
<1>2. ASSUME NEW w \in Workers, Step(w)
      PROVE  /\ OneNamePerFile' /\ NameInv' /\ TornInv' /\ WriteInv'
             /\ QuiescentReadable'
  <2>1. OneNamePerFile' /\ NameInv'
    BY <1>2, StepNames DEF IInv
  <2>2. TornInv' /\ WriteInv'
    BY <1>2, StepTorn, StepWrite DEF IInv
  <2>3. QuiescentReadable'
    BY <1>2, <2>1, StepQuiescent
  <2> QED BY <2>1, <2>2, <2>3
<1>3. CASE Tick \/ UNCHANGED vars
  BY <1>1, <1>3 DEF Tick, vars, callVars, clientVars, IInv, OneNamePerFile, NameInv, TornInv, WriteInv,
     QuiescentReadable, NothingFailed
<1> QED BY <1>1, <1>2, <1>3 DEF Next, Step, IInv

(* As long as nothing fails no load unmarshals a half-written file. *)
THEOREM ReadsWhole == Spec => []NoGarbageRead
<1>1. IInv => NoGarbageRead
  BY NoTornUnderReader DEF IInv, NoGarbageRead
<1> QED BY <1>1, InitIInv, StepIInv, PTL DEF Spec

(* As long as nothing fails a save leaves its file exactly as it marshalled it. *)
THEOREM SavesWhole == Spec => []SavedWhole
<1>1. IInv => SavedWhole
  BY DEF IInv, WriteInv, SavedWhole
<1> QED BY <1>1, InitIInv, StepIInv, PTL DEF Spec

(* As long as nothing fails every session file between saves is readable. *)
THEOREM FilesReadable == Spec => []QuiescentReadable
<1>1. IInv => QuiescentReadable
  BY DEF IInv
<1> QED BY <1>1, InitIInv, StepIInv, PTL DEF Spec

-----------------------------------------------------------------------------
(* Sweeps.                                                                 *)

(* A call no other has overlapped has every other worker idle. *)
AloneInv == \A w \in Workers : alone[w] => \A u \in Workers \ {w} : pc[u] = "idle"

Sweeping(w) == NothingFailed /\ op[w] = "removeExpired" /\ alone[w]

(* A session that had not expired by time t. *)
LiveAt(s, t) == s.lastUsed + s.duration >= t

(* Where removeExpired's loop is at one entry of the directory. *)
AtEntry == {"exists", "openRd", "check", "remove"} \cup LoadOpen

(* What it has in hand there is the entry as it is. *)
EntryOf(w) ==
  /\ pc[w] \in AtEntry \cup {"next"}
  /\ pc[w] \in AtEntry => path[w] \in Ids
  /\ res[w] = "none"
  /\ since[w] <= now
  /\ pc[w] \in LoadOpen => dir[path[w]] = fd[w]
  /\ pc[w] \in {"flockSh", "read"} => mapLen[w] = file[fd[w]].size
  /\ pc[w] \in {"check", "remove"} => dir[path[w]] # None /\ sess[w] = file[dir[path[w]]].data

(* The entries it has left behind had not expired when it began. *)
LeftLive(w) == \A i \in Ids :
  dir[i] # None /\ i \notin todo[w] /\ ~(pc[w] \in AtEntry /\ path[w] = i)
    => LiveAt(file[dir[i]].data, since[w])

SweepInv == \A w \in Workers : Sweeping(w) => EntryOf(w) /\ LeftLive(w)

LEMMA StepAlone == Typed /\ AloneInv /\ [Next]_vars => AloneInv'
<1> SUFFICES ASSUME Typed, AloneInv, [Next]_vars PROVE AloneInv'
  OBVIOUS
<1>1. CASE Tick \/ UNCHANGED vars
  BY <1>1 DEF Tick, vars, callVars, clientVars, AloneInv
<1>2. ASSUME NEW v \in Workers, Step(v), NEW w \in Workers, alone'[w], NEW u \in Workers, u # w
      PROVE  pc'[u] = "idle"
  <2>1. CASE Call(v)
    <3>1. alone' = [x \in Workers |-> x = v /\ \A y \in Workers \ {v} : Idle(y)]
      BY <2>1 DEF Call, CreateSession, UpdateSession, GetSession, DestroySession, RemoveExpired,
         BeginSave, Begin
    <3>2. w = v /\ pc[u] = "idle"
      BY <1>2, <3>1 DEF Idle
    <3> QED BY <1>2, <3>2, OthersKeep
  <2>2. CASE Save(v) \/ Load(v) \/ Fault(v)
    <3>1. alone' = alone /\ pc[v] # "idle"
      BY <2>2 DEF Save, Open, FlockEx, Pwrite, PwriteEnd, Ftruncate, Unlock,
         Load, LoadUnchanged, Exists, OpenRd, Mmap, FlockSh, Read, Check, Remove, NextEntry,
         Fault, SyscallFails, ShortWrite, Crash, Idle, clientVars
    <3>2. w = v /\ pc[u] = "idle"
      BY <1>2, <3>1 DEF AloneInv
    <3> QED BY <1>2, <3>2, OthersKeep
  <2> QED BY <1>2, <2>1, <2>2 DEF Step
<1> QED BY <1>1, <1>2 DEF Next, Step, AloneInv

(* While a sweep is alone every file in the directory is a whole session. *)
LEMMA AloneReadable ==
  ASSUME IInv, AloneInv, NEW w \in Workers, Sweeping(w), EntryOf(w), NEW i \in Ids, dir[i] # None
  PROVE  /\ file[dir[i]].data \in Session /\ file[dir[i]].data.id = i
         /\ file[dir[i]].size = Marshalled(file[dir[i]].data)
         /\ file[dir[i]].size # 0
         /\ file[dir[i]].data \notin {None, Torn}
<1>1. \A u \in Workers : pc[u] \notin SaveOpen
  BY DEF AloneInv, Sweeping, EntryOf, AtEntry, SaveOpen, SaveLocked, LoadOpen
<1>2. /\ file[dir[i]].data \notin {None, Torn} /\ file[dir[i]].data.id = i
      /\ file[dir[i]].size = Marshalled(file[dir[i]].data)
  BY <1>1 DEF IInv, QuiescentReadable, Sweeping
<1>3. dir[i] \in Inodes
  BY DEF IInv, Typed, TypeOK
<1>4. file[dir[i]] \in [data : Session \cup {None, Torn}, size : 0..MaxLen]
  BY <1>3 DEF IInv, Typed, TypeOK
<1>5. file[dir[i]].data \in Session
  BY <1>2, <1>4
<1>6. file[dir[i]].data.vars \in 1..MaxLen
  BY <1>5 DEF Session, Lengths
<1>7. MaxLen \in Int
  BY FSAssumption
<1> QED BY <1>2, <1>5, <1>6, <1>7 DEF Marshalled

(* One step of a sweep that is alone. *)
LEMMA SweepGoesOn ==
  ASSUME IInv, AloneInv, NEW w \in Workers, Sweeping(w), EntryOf(w), LeftLive(w), Load(w),
         RootKind = "absolute"
  PROVE  /\ op'[w] = "removeExpired" => (EntryOf(w) /\ LeftLive(w))'
         /\ res'[w] \in {"swept", "aborted"} => \A i \in Ids : dir'[i] # None =>
              LiveAt(file'[dir'[i]].data, since[w])
<1>1. Typed /\ op[w] = "removeExpired" /\ res[w] = "none" /\ since[w] <= now
  BY DEF IInv, Sweeping, EntryOf
<1>2. pc[w] \in AtEntry => path[w] \in Ids
  BY DEF EntryOf
<1>3. UNCHANGED <<now, file>>
  BY DEF Load, Exists, OpenRd, Mmap, FlockSh, Read, Check, Remove, NextEntry, LoadUnchanged
<1>4. /\ pc \in [Workers -> PCs] /\ op \in [Workers -> Ops] /\ path \in [Workers -> Ids \cup {None}]
      /\ sess \in [Workers -> Readable \cup {None}] /\ fd \in [Workers -> Inodes \cup {None}]
      /\ mapLen \in [Workers -> 0..MaxLen] /\ todo \in [Workers -> SUBSET Ids]
      /\ since \in [Workers -> Nat] /\ res \in [Workers -> Results]
      /\ dir \in [Ids -> Inodes \cup {None}] /\ now \in Nat
  BY <1>1 DEF Typed, TypeOK
<1> DEFINE Entry == EntryOf(w)
<1> DEFINE On == /\ UNCHANGED <<op, since, res, todo>>
                 /\ dir' = dir
                 /\ path' = path
                 /\ pc[w] \in AtEntry /\ pc'[w] \in AtEntry
<1>5. On => LeftLive(w)' /\ path'[w] \in Ids /\ op'[w] = "removeExpired" /\ res'[w] = "none" /\ since'[w] <= now'
  BY <1>1, <1>2, <1>3 DEF LeftLive
<1>6. CASE Exists(w)
  <2>1. pc[w] = "exists" /\ dir' = dir
    BY <1>6 DEF Exists, LoadUnchanged
  <2>2. CASE dir[path[w]] # None
    <3>1. On /\ pc'[w] = "openRd"
      BY <1>4, <1>6, <2>1, <2>2 DEF Exists, LoadPathExists, Goto, callVars, AtEntry
    <3> QED BY <1>5, <3>1 DEF EntryOf, LoadOpen, AtEntry
  <2>3. CASE dir[path[w]] = None
    <3>1. pc'[w] = "next" /\ UNCHANGED <<op, since, res, todo>>
      BY <1>1, <1>4, <1>6, <2>3 DEF Exists, LoadPathExists, Loaded
    <3> QED BY <1>1, <1>3, <2>1, <2>3, <3>1 DEF EntryOf, LoadOpen, AtEntry, LeftLive
  <2> QED BY <2>2, <2>3
<1>7. CASE OpenRd(w)
  <2>1. pc[w] = "openRd" /\ dir' = dir
    BY <1>7 DEF OpenRd, LoadUnchanged
  <2>2. CASE dir[path[w]] # None
    <3>1. On /\ pc'[w] = "mmap" /\ fd'[w] = dir[path[w]]
      BY <1>4, <1>7, <2>1, <2>2 DEF OpenRd, callVars, AtEntry, LoadOpen
    <3> QED BY <1>5, <3>1 DEF EntryOf, LoadOpen, AtEntry
  <2>3. CASE dir[path[w]] = None
    <3>1. pc'[w] = "next" /\ UNCHANGED <<op, since, res, todo>>
      BY <1>1, <1>4, <1>7, <2>3 DEF OpenRd, Loaded
    <3> QED BY <1>1, <1>3, <2>1, <2>3, <3>1 DEF EntryOf, LoadOpen, AtEntry, LeftLive
  <2> QED BY <2>2, <2>3
<1>8. ASSUME pc[w] \in LoadOpen
      PROVE  /\ dir[path[w]] = fd[w] /\ fd[w] # None /\ path[w] \in Ids
             /\ file[fd[w]].data \in Session
             /\ file[fd[w]].size = Marshalled(file[fd[w]].data)
             /\ file[fd[w]].size # 0
             /\ file[fd[w]].data \notin {None, Torn}
  <2>1. dir[path[w]] = fd[w] /\ path[w] \in Ids
    BY <1>2, <1>8 DEF EntryOf, AtEntry
  <2>2. fd[w] # None
    BY <1>1, <1>8, FSAssumption DEF Typed, WorkerInv
  <2> QED BY <2>1, <2>2, AloneReadable
<1>9. CASE Mmap(w)
  <2>1. pc[w] = "mmap" /\ dir' = dir
    BY <1>9 DEF Mmap, LoadUnchanged
  <2>2. dir[path[w]] = fd[w] /\ file[fd[w]].size # 0
    BY <1>8, <2>1 DEF LoadOpen
  <2>3. On /\ pc'[w] = "flockSh" /\ fd' = fd /\ mapLen'[w] = file[fd[w]].size
    BY <1>4, <1>9, <2>1, <2>2 DEF Mmap, callVars, AtEntry, LoadOpen
  <2> QED BY <1>3, <1>5, <2>2, <2>3 DEF EntryOf, LoadOpen, AtEntry
<1>10. CASE FlockSh(w)
  <2>1. pc[w] = "flockSh" /\ dir' = dir
    BY <1>10 DEF FlockSh, LoadUnchanged
  <2>2. On /\ pc'[w] = "read" /\ fd' = fd /\ mapLen' = mapLen
    BY <1>4, <1>10, <2>1 DEF FlockSh, Goto, callVars, AtEntry, LoadOpen
  <2>3. dir[path[w]] = fd[w] /\ mapLen[w] = file[fd[w]].size
    BY <2>1 DEF EntryOf, LoadOpen
  <2> QED BY <1>3, <1>5, <2>2, <2>3 DEF EntryOf, LoadOpen, AtEntry
<1>11. CASE Read(w)
  <2>1. pc[w] = "read" /\ dir' = dir
    BY <1>11 DEF Read, LoadUnchanged
  <2>2. /\ dir[path[w]] = fd[w] /\ fd[w] # None /\ file[fd[w]].data \notin {None, Torn}
        /\ file[fd[w]].size = Marshalled(file[fd[w]].data)
        /\ file[fd[w]].data \in Session
    BY <1>8, <2>1 DEF LoadOpen
  <2>3. mapLen[w] = Marshalled(file[fd[w]].data)
    BY <2>1, <2>2 DEF EntryOf
  <2>4. Marshalled(file[fd[w]].data) \in Nat
    BY <2>2, FSAssumption DEF Marshalled, Session, Lengths
  <2>5. Unmarshals(file[fd[w]].data, mapLen[w])
    BY <2>2, <2>3, <2>4 DEF Unmarshals
  <2>6. On /\ pc'[w] = "check" /\ sess'[w] = file[fd[w]].data
    BY <1>4, <1>11, <2>1, <2>2, <2>5 DEF Read, AtEntry, LoadOpen
  <2> QED BY <1>3, <1>5, <2>2, <2>6 DEF EntryOf, LoadOpen, AtEntry
<1>12. ASSUME pc[w] \in {"check", "remove"}
       PROVE  /\ dir[path[w]] # None /\ sess[w] = file[dir[path[w]]].data /\ path[w] \in Ids
              /\ sess[w] \in Session /\ sess[w].id = path[w]
  <2>1. dir[path[w]] # None /\ sess[w] = file[dir[path[w]]].data /\ path[w] \in Ids
    BY <1>2, <1>12 DEF EntryOf, AtEntry
  <2> QED BY <2>1, AloneReadable
<1>13. CASE Check(w)
  <2>1. pc[w] = "check" /\ dir' = dir
    BY <1>13 DEF Check, LoadUnchanged
  <2>2. CASE IsExpired(sess[w])
    <3>1. On /\ pc'[w] = "remove" /\ sess' = sess
      <4>1. path' = [path EXCEPT ![w] = path[w]]
        BY <1>1, <1>12, <1>13, <2>1, <2>2 DEF Check
      <4> QED BY <1>4, <1>13, <2>1, <2>2, <4>1 DEF Check, AtEntry
    <3> QED BY <1>3, <1>5, <1>12, <2>1, <3>1 DEF EntryOf, LoadOpen, AtEntry
  <2>3. CASE ~IsExpired(sess[w])
    <3>1. pc'[w] = "next" /\ UNCHANGED <<op, since, res, todo>>
      BY <1>1, <1>4, <1>13, <2>3 DEF Check, Loaded
    <3>2. LiveAt(file[dir[path[w]]].data, since[w])
      <4>1. sess[w].lastUsed \in Nat /\ sess[w].duration \in Int
        BY <1>12, <2>1, DurationsAreIntegers DEF Session
      <4>2. since[w] \in Nat
        BY <1>4
      <4>3. sess[w].lastUsed + sess[w].duration >= now
        BY <1>4, <2>3, <4>1 DEF IsExpired
      <4>4. sess[w].lastUsed + sess[w].duration >= since[w]
        BY <1>1, <1>4, <4>1, <4>2, <4>3
      <4> QED BY <1>12, <2>1, <4>4 DEF LiveAt
    <3> QED BY <1>1, <1>3, <2>1, <3>1, <3>2 DEF EntryOf, LoadOpen, AtEntry, LeftLive
  <2> QED BY <2>2, <2>3
<1>14. CASE Remove(w)
  <2>1. pc[w] = "remove" /\ dir' = [dir EXCEPT ![path[w]] = None] /\ path[w] \in Ids
    BY <1>1, <1>2, <1>14, RemoveStep, FSAssumption DEF Remove, AtEntry
  <2>2. pc'[w] = "next" /\ UNCHANGED <<op, since, res, todo>>
    BY <1>1, <1>4, <1>14, <2>1, FSAssumption DEF Remove, Loaded
  <2>3. \A i \in Ids : dir'[i] # None => dir'[i] = dir[i] /\ i # path[w]
    BY <1>4, <2>1
  <2> QED BY <1>1, <1>3, <2>2, <2>3 DEF EntryOf, LoadOpen, AtEntry, LeftLive
<1>15. CASE NextEntry(w)
  <2>1. pc[w] = "next" /\ dir' = dir
    BY <1>15 DEF NextEntry, LoadUnchanged
  <2>2. \A i \in Ids : dir[i] # None /\ i \notin todo[w] =>
          LiveAt(file[dir[i]].data, since[w])
    BY <2>1 DEF LeftLive, AtEntry, LoadOpen
  <2>3. CASE todo[w] = {} /\ Return(w, "swept")
    <3>1. op'[w] = "none"
      BY <1>4, <2>3 DEF Return
    <3> QED BY <1>3, <2>1, <2>2, <2>3, <3>1
  <2>4. ASSUME NEW i \in todo[w],
               path' = [path EXCEPT ![w] = i], todo' = [todo EXCEPT ![w] = @ \ {i}],
               pc' = [pc EXCEPT ![w] = "exists"], UNCHANGED <<op, since, res>>
        PROVE  /\ op'[w] = "removeExpired" => (EntryOf(w) /\ LeftLive(w))'
               /\ res'[w] \notin {"swept", "aborted"}
    <3>1. path'[w] = i /\ todo'[w] = todo[w] \ {i} /\ pc'[w] = "exists" /\ i \in Ids
      BY <1>4, <2>4
    <3>2. LeftLive(w)'
      BY <1>3, <2>1, <2>2, <2>4, <3>1 DEF LeftLive, AtEntry
    <3> QED BY <1>1, <1>3, <2>4, <3>1, <3>2 DEF EntryOf, LoadOpen, AtEntry
  <2> QED BY <1>15, <2>3, <2>4 DEF NextEntry
<1> QED BY <1>6, <1>7, <1>9, <1>10, <1>11, <1>13, <1>14, <1>15 DEF Load

LEMMA StepSweep ==
  ASSUME IInv, AloneInv, AloneInv', SweepInv, [Next]_vars, RootKind = "absolute"
  PROVE  /\ SweepInv'
         /\ NothingFailed' => \A w \in Workers :
              op[w] = "removeExpired" /\ alone[w] /\ res'[w] \in {"swept", "aborted"} =>
                \A i \in Ids : dir'[i] # None => LiveAt(file'[dir'[i]].data, since[w])
<1>1. Typed
  BY DEF IInv
<1> DEFINE Swept(w) == op[w] = "removeExpired" /\ alone[w] /\ res'[w] \in {"swept", "aborted"} =>
                \A i \in Ids : dir'[i] # None => LiveAt(file'[dir'[i]].data, since[w])
<1>2. CASE Tick \/ UNCHANGED vars
  <2>1. /\ UNCHANGED <<dir, file, pc, fd, mapLen, res, alone, op, path, sess, todo, since, crashes, faults>>
        /\ now' \in Nat /\ now \in Nat /\ now <= now'
    BY <1>1, <1>2 DEF Tick, vars, callVars, clientVars, Typed, TypeOK
  <2>2. \A w \in Workers : since[w] \in Nat
    BY <1>1 DEF Typed, TypeOK
  <2>3. SweepInv'
    <3> SUFFICES ASSUME NEW w \in Workers, Sweeping(w)' PROVE EntryOf(w)' /\ LeftLive(w)'
      BY DEF SweepInv
    <3>1. EntryOf(w) /\ LeftLive(w)
      BY <2>1 DEF SweepInv, Sweeping, NothingFailed
    <3>2. since[w] <= now'
      BY <2>1, <2>2, <3>1 DEF EntryOf
    <3>3. EntryOf(w)'
      BY <2>1, <3>1, <3>2 DEF EntryOf
    <3>4. LeftLive(w)'
      BY <2>1, <3>1 DEF LeftLive
    <3> QED BY <3>3, <3>4
  <2>4. ASSUME NothingFailed', NEW w \in Workers PROVE Swept(w)
    <3> SUFFICES ASSUME op[w] = "removeExpired", alone[w] PROVE res'[w] \notin {"swept", "aborted"}
      OBVIOUS
    <3>1. res[w] = "none"
      BY <2>1, <2>4 DEF SweepInv, Sweeping, EntryOf, NothingFailed
    <3> QED BY <2>1, <3>1
  <2> QED BY <2>3, <2>4
<1>3. ASSUME NEW v \in Workers, Step(v), NothingFailed', NEW w \in Workers
      PROVE  /\ Sweeping(w)' => (EntryOf(w) /\ LeftLive(w))'
             /\ Swept(w)
  <2>1. NothingFailed /\ ~Fault(v)
    <3>1. ~Fault(v)
      BY <1>1, <1>3 DEF Fault, SyscallFails, ShortWrite, Crash, NothingFailed, Typed, TypeOK
    <3>2. UNCHANGED <<crashes, faults>>
      BY <1>3, <3>1 DEF Step, Call, CreateSession, UpdateSession, GetSession, DestroySession, RemoveExpired,
         BeginSave, Begin, Save, Open, FlockEx, Pwrite, PwriteEnd, Ftruncate, Unlock,
         Load, LoadUnchanged, Exists, OpenRd, Mmap, FlockSh, Read, Check, Remove, NextEntry
    <3> QED BY <1>3, <3>1, <3>2 DEF NothingFailed
  <2>2. CASE Call(v)
    <3>1. /\ alone' = [x \in Workers |-> x = v /\ \A y \in Workers \ {v} : Idle(y)]
          /\ Idle(v) /\ res'[v] = "none" /\ UNCHANGED <<now, dir, file>>
      BY <1>1, <2>2 DEF Call, CreateSession, UpdateSession, GetSession, DestroySession, RemoveExpired,
         BeginSave, Begin, Typed, TypeOK
    <3>2. Swept(w)
      <4> SUFFICES ASSUME op[w] = "removeExpired", alone[w], res'[w] \in {"swept", "aborted"} PROVE FALSE
        OBVIOUS
      <4>1. res[w] = "none"
        BY <2>1 DEF SweepInv, Sweeping, EntryOf
      <4>2. res'[w] = "none"
        BY <1>1, <1>3, <3>1, <4>1, OthersKeep
      <4> QED BY <4>2
    <3>3. ASSUME Sweeping(w)' PROVE (EntryOf(w) /\ LeftLive(w))'
      <4>1. w = v /\ op'[w] = "removeExpired"
        BY <3>1, <3>3 DEF Sweeping
      <4>2. RemoveExpired(w)
        BY <1>1, <2>2, <4>1 DEF Call, CreateSession, UpdateSession, GetSession, DestroySession,
           BeginSave, Begin, Typed, TypeOK
      <4>3. todo'[w] = {i \in Ids : dir[i] # None} /\ since'[w] = now /\ pc'[w] = "next"
        BY <1>1, <4>2 DEF RemoveExpired, Begin, Typed, TypeOK
      <4>4. now \in Nat
        BY <1>1 DEF Typed, TypeOK
      <4>5. EntryOf(w)'
        BY <3>1, <4>1, <4>3, <4>4 DEF EntryOf, AtEntry, LoadOpen
      <4>6. LeftLive(w)'
        BY <3>1, <4>3 DEF LeftLive
      <4> QED BY <4>5, <4>6
    <3> QED BY <3>2, <3>3
  <2>3. CASE Save(v) \/ Load(v)
    <3>1. alone' = alone /\ pc[v] # "idle"
      BY <2>3 DEF Save, Open, FlockEx, Pwrite, PwriteEnd, Ftruncate, Unlock,
         Load, LoadUnchanged, Exists, OpenRd, Mmap, FlockSh, Read, Check, Remove, NextEntry, clientVars
    <3>2. ASSUME alone[w] PROVE w = v
      BY <3>1, <3>2 DEF AloneInv
    <3>3. CASE ~alone[w]
      BY <3>1, <3>3 DEF Sweeping
    <3>4. CASE alone[w] /\ op[w] = "removeExpired"
      <4>1. w = v /\ Sweeping(w) /\ EntryOf(w) /\ LeftLive(w)
        BY <2>1, <3>2, <3>4 DEF SweepInv, Sweeping
      <4>2. ~Save(w)
        BY <4>1 DEF EntryOf, AtEntry, LoadOpen, Save, Open, FlockEx, Pwrite, PwriteEnd, Ftruncate, Unlock
      <4>3. /\ op'[w] = "removeExpired" => (EntryOf(w) /\ LeftLive(w))'
            /\ res'[w] \in {"swept", "aborted"} => \A i \in Ids : dir'[i] # None =>
                 LiveAt(file'[dir'[i]].data, since[w])
        BY <2>3, <4>1, <4>2, SweepGoesOn
      <4> QED BY <4>3 DEF Sweeping
    <3>5. CASE alone[w] /\ op[w] # "removeExpired"
      <4>1. w = v
        BY <3>2, <3>5
      <4>2. op'[w] # "removeExpired"
        BY <1>1, <2>3, <3>5, <4>1 DEF Save, Open, FlockEx, Pwrite, PwriteEnd, Ftruncate, Unlock, Goto, callVars,
           Load, LoadUnchanged, Exists, OpenRd, Mmap, FlockSh, Read, Check, Remove, NextEntry, Loaded, Return,
           Throw, Typed, TypeOK
      <4> QED BY <3>5, <4>2 DEF Sweeping
    <3> QED BY <3>3, <3>4, <3>5
  <2> QED BY <1>3, <2>1, <2>2, <2>3 DEF Step
<1>4. CASE \E v \in Workers : Step(v)
  BY <1>3, <1>4 DEF SweepInv, Sweeping
<1> QED BY <1>2, <1>4 DEF Next, Step

(* With an absolute root, a sweep that no other call disturbs, and in which *)
(* nothing fails, leaves no session that had expired when it began: neither *)
(* an entry it cannot load nor one it removes keeps it from the rest.       *)
THEOREM SweepsComplete ==
  ASSUME RootKind = "absolute"
  PROVE  Spec => SweepComplete
<1>1. Init => AloneInv /\ SweepInv
  BY DEF Init, AloneInv, SweepInv, Sweeping
<1>2. IInv /\ AloneInv /\ [Next]_vars => AloneInv'
  BY StepAlone DEF IInv
<1>3. IInv /\ AloneInv /\ AloneInv' /\ SweepInv /\ [Next]_vars => SweepInv'
  BY StepSweep
<1>4. IInv /\ AloneInv /\ AloneInv' /\ SweepInv /\ [Next]_vars =>
      [NothingFailed' => \A w \in Workers :
         op[w] = "removeExpired" /\ alone[w] /\ res'[w] \in {"swept", "aborted"} =>
           \A i \in Ids : dir'[i] # None => LET s == file'[dir'[i]].data IN s.lastUsed + s.duration >= since[w]]_vars
  BY StepSweep DEF LiveAt
<1> QED BY <1>1, <1>2, <1>3, <1>4, InitIInv, StepIInv, PTL DEF Spec, SweepComplete

-----------------------------------------------------------------------------
(* Expiry, whatever dies or fails.                                         *)

(* A whole session is in the file of its own id. *)
OwnName == \A i \in Ids :
  dir[i] # None /\ file[dir[i]].data \in Session => file[dir[i]].data.id = i

(* What a load that no other call overlaps has in hand is the file it opened *)
(* as it still is, or what could be made of it where it is torn.             *)
AsRead(w) == LET data == file[dir[path[w]]].data IN
  /\ dir[path[w]] # None
  /\ sess[w] = data \/ (data = Torn /\ sess[w].id \in {path[w], None})

Due(w) == LET s == file[dir[path[w]]].data IN
  path[w] = None \/ s = Torn \/ (s \in Session /\ s.lastUsed + s.duration < now)

InHand(w) == alone[w] /\ op[w] # "destroySession" =>
  /\ pc[w] \in LoadOpen => dir[path[w]] = fd[w]
  /\ pc[w] = "check" => AsRead(w)
  /\ pc[w] = "remove" => Due(w)

HandInv == \A w \in Workers : InHand(w)

LEMMA StepOwnName ==
  ASSUME Typed, NameInv, OwnName, NEW w \in Workers, Step(w)
  PROVE  OwnName'
<1> SUFFICES ASSUME NEW i \in Ids, dir'[i] # None, file'[dir'[i]].data \in Session
             PROVE  file'[dir'[i]].data.id = i
  BY DEF OwnName
<1>1. CASE Open(w)
  <2>1. PICK n \in Inodes :
          \/ dir' = dir /\ file' = file
          \/ /\ Unused(n) /\ path[w] \in Ids
             /\ dir' = [dir EXCEPT ![path[w]] = n]
             /\ file' = [file EXCEPT ![n] = [data |-> None, size |-> 0]]
    BY <1>1, OpenStep
  <2>2. CASE dir' = dir /\ file' = file
    BY <2>2 DEF OwnName
  <2>3. CASE ~(dir' = dir /\ file' = file)
    <3>1. file'[n].data = None
      BY <2>1, <2>3 DEF Typed, TypeOK
    <3>2. dir'[i] # n
      BY <3>1, SessionReadable
    <3>3. dir'[i] = dir[i] /\ file'[dir[i]] = file[dir[i]]
      BY <2>1, <2>3, <3>2 DEF Typed, TypeOK
    <3> QED BY <3>3 DEF OwnName
  <2> QED BY <2>2, <2>3
<1>2. CASE Pwrite(w) \/ PwriteEnd(w) \/ Ftruncate(w)
  <2>1. /\ dir' = dir /\ fd[w] \in Inodes /\ pc[w] \in SaveOpen
        /\ \A n \in Inodes \ {fd[w]} : file'[n] = file[n]
    BY <1>2, WriteStep DEF HoldsEx, SaveOpen
  <2>2. CASE dir[i] # fd[w]
    BY <2>1, <2>2 DEF OwnName, Typed, TypeOK
  <2>3. CASE dir[i] = fd[w] /\ PwriteEnd(w)
    <3>1. file'[dir[i]].data = sess[w]
      BY <2>3, WriteStep
    <3>2. sess[w].id = path[w] /\ path[w] = i
      BY <2>1, <2>3 DEF Typed, WorkerInv, NameInv
    <3> QED BY <2>1, <3>1, <3>2
  <2>4. CASE dir[i] = fd[w] /\ Ftruncate(w)
    <3>1. file'[dir[i]].data = file[dir[i]].data
      <4>1. file'[fd[w]] = [data |-> file[fd[w]].data, size |-> Marshalled(sess[w])]
        BY <2>4, WriteStep
      <4> QED BY <2>4, <4>1
    <3> QED BY <2>1, <3>1 DEF OwnName
  <2>5. CASE dir[i] = fd[w] /\ Pwrite(w)
    <3>1. file'[dir[i]].data = Torn
      BY <2>1, <2>5 DEF Pwrite, Typed, TypeOK
    <3> QED BY <2>1, <3>1, SessionReadable
  <2> QED BY <1>2, <2>2, <2>3, <2>4, <2>5
<1>3. CASE ~Open(w) /\ ~Pwrite(w) /\ ~PwriteEnd(w) /\ ~Ftruncate(w)
  <2>1. file' = file
    BY <1>3 DEF Step, Call, CreateSession, UpdateSession, GetSession, DestroySession, RemoveExpired,
       BeginSave, Begin, Save, FlockEx, Unlock, Load, LoadUnchanged, Exists, OpenRd, Mmap, FlockSh, Read,
       Check, Remove, NextEntry, Fault, SyscallFails, ShortWrite, Crash
  <2>2. dir' = dir \/ \E j \in Ids : dir' = [dir EXCEPT ![j] = None]
    BY <1>3, QuietStep
  <2>3. dir'[i] = dir[i]
    BY <2>2 DEF Typed, TypeOK
  <2> QED BY <2>1, <2>3 DEF OwnName
<1> QED BY <1>1, <1>2, <1>3

(* A worker's own step. *)
LEMMA OwnHand ==
  ASSUME Typed, OwnName, NEW w \in Workers, Step(w), InHand(w)
  PROVE  InHand(w)'
<1> SUFFICES ASSUME alone'[w], op'[w] # "destroySession", pc'[w] \in LoadOpen \cup {"check", "remove"}
             PROVE  /\ pc'[w] \in LoadOpen => dir'[path'[w]] = fd'[w]
                    /\ pc'[w] = "check" => AsRead(w)'
                    /\ pc'[w] = "remove" => Due(w)'
  BY DEF InHand
<1>1. /\ pc \in [Workers -> PCs] /\ op \in [Workers -> Ops] /\ path \in [Workers -> Ids \cup {None}]
      /\ sess \in [Workers -> Readable \cup {None}] /\ fd \in [Workers -> Inodes \cup {None}]
  BY DEF Typed, TypeOK
<1>2. ~Call(w)
  BY <1>1 DEF Call, CreateSession, UpdateSession, GetSession, DestroySession, RemoveExpired,
     BeginSave, Begin, LoadOpen
<1>3. ~Save(w)
  BY <1>1 DEF Save, Open, FlockEx, Pwrite, PwriteEnd, Ftruncate, Unlock, Goto, Return, LoadOpen
<1>4. ~Fault(w)
  BY <1>1 DEF Fault, SyscallFails, ShortWrite, Crash, Goto, Throw, Return, LoadOpen
<1>5. Load(w) /\ file' = file /\ now' = now /\ alone[w]
  BY <1>2, <1>3, <1>4 DEF Step, Load, Exists, OpenRd, Mmap, FlockSh, Read, Check, Remove, NextEntry,
     LoadUnchanged, clientVars
<1>6. ~Exists(w) /\ ~NextEntry(w) /\ ~Remove(w)
  BY <1>1 DEF Exists, NextEntry, Remove, Goto, Loaded, Throw, Return, LoadOpen
<1>7. CASE OpenRd(w)
  <2>1. pc'[w] = "mmap" /\ fd'[w] = dir[path[w]] /\ path' = path /\ dir' = dir
    BY <1>1, <1>7 DEF OpenRd, LoadUnchanged, Loaded, Return, LoadOpen, callVars
  <2> QED BY <2>1
<1>8. CASE Mmap(w) \/ FlockSh(w)
  <2>1. /\ pc[w] \in LoadOpen /\ pc'[w] \in {"flockSh", "read"} /\ fd' = fd /\ path' = path
        /\ dir' = dir /\ op' = op
    BY <1>1, <1>8 DEF Mmap, FlockSh, LoadUnchanged, Goto, Throw, Return, LoadOpen, callVars
  <2> QED BY <1>5, <2>1 DEF InHand
<1>9. CASE Read(w)
  <2>1. /\ pc[w] = "read" /\ pc'[w] = "check" /\ path' = path /\ dir' = dir /\ op' = op
        /\ path[w] \in Ids /\ fd[w] \in Inodes
    BY <1>1, <1>9 DEF Read, LoadUnchanged, Throw, Return, LoadOpen, Typed, WorkerInv
  <2>2. dir[path[w]] = fd[w] /\ fd[w] # None
    BY <1>5, <2>1, FSAssumption DEF InHand, LoadOpen
  <2>3. \/ sess'[w] = file[fd[w]].data
        \/ file[fd[w]].data = Torn /\ sess'[w].id \in {path[w], None}
    <3>1. \A s \in Garbled(path[w]) : s.id \in {path[w], None}
      BY DEF Garbled
    <3>2. \/ file[fd[w]].data = Torn /\ \E s \in Garbled(path[w]) : sess' = [sess EXCEPT ![w] = s]
          \/ sess' = [sess EXCEPT ![w] = file[fd[w]].data]
      BY <1>1, <1>9, <2>1 DEF Read, Throw, Return
    <3> QED BY <1>1, <3>1, <3>2
  <2> QED BY <1>5, <2>1, <2>2, <2>3 DEF AsRead, LoadOpen
<1>10. CASE Check(w)
  <2>1. /\ pc[w] = "check" /\ pc'[w] = "remove" /\ dir' = dir /\ op' = op /\ sess' = sess
        /\ IsExpired(sess[w]) /\ path[w] \in Ids
        /\ path'[w] \in {path[w], sess[w].id}
    BY <1>1, <1>10 DEF Check, LoadUnchanged, Loaded, Return, LoadOpen, Typed, WorkerInv
  <2>2. AsRead(w) /\ sess[w] \in Readable
    BY <1>5, <2>1 DEF InHand, Typed, WorkerInv
  <2>3. CASE sess[w] = file[dir[path[w]]].data
    <3>1. sess[w].id = path[w] /\ sess[w] \in Session
      <4>1. dir[path[w]] \in Inodes
        BY <2>1, <2>2 DEF AsRead, Typed, TypeOK
      <4>2. file[dir[path[w]]].data \in Session \cup {None, Torn}
        BY <4>1 DEF Typed, TypeOK
      <4>3. sess[w] \in Session
        BY <2>2, <2>3, <4>2, ContentAssumption
      <4> QED BY <2>1, <2>2, <2>3, <4>3 DEF OwnName, AsRead
    <3> QED BY <1>5, <2>1, <2>3, <3>1 DEF Due, IsExpired, LoadOpen
  <2>4. CASE file[dir[path[w]]].data = Torn /\ sess[w].id \in {path[w], None}
    BY <1>5, <2>1, <2>4 DEF Due, LoadOpen
  <2> QED BY <2>2, <2>3, <2>4 DEF AsRead
<1> QED BY <1>5, <1>6, <1>7, <1>8, <1>9, <1>10 DEF Load

(* A step of another worker: it begins a call, and overlaps. *)
LEMMA OthersHand ==
  ASSUME Typed, AloneInv, NEW v \in Workers, Step(v), NEW w \in Workers, w # v
  PROVE  ~alone'[w] /\ (alone[w] => dir' = dir)
<1>1. CASE Call(v)
  BY <1>1 DEF Call, CreateSession, UpdateSession, GetSession, DestroySession, RemoveExpired,
     BeginSave, Begin
<1>2. CASE Save(v) \/ Load(v) \/ Fault(v)
  <2>1. alone' = alone /\ pc[v] # "idle"
    BY <1>2 DEF Save, Open, FlockEx, Pwrite, PwriteEnd, Ftruncate, Unlock,
       Load, LoadUnchanged, Exists, OpenRd, Mmap, FlockSh, Read, Check, Remove, NextEntry,
       Fault, SyscallFails, ShortWrite, Crash, Idle, clientVars
  <2> QED BY <2>1 DEF AloneInv
<1> QED BY <1>1, <1>2 DEF Step

LEMMA StepHand == Typed /\ AloneInv /\ OwnName /\ HandInv /\ [Next]_vars => HandInv'
<1> SUFFICES ASSUME Typed, AloneInv, OwnName, HandInv, [Next]_vars, NEW w \in Workers PROVE InHand(w)'
  BY DEF HandInv
<1>1. CASE UNCHANGED vars
  BY <1>1 DEF vars, callVars, clientVars, HandInv, InHand, AsRead, Due
<1>2. CASE Tick
  <2>1. /\ UNCHANGED <<dir, file, pc, fd, alone, op, path, sess>>
        /\ now \in Nat /\ now' = now + 1
    BY <1>2 DEF Tick, callVars, clientVars, Typed, TypeOK
  <2>2. \A s \in Session : s.lastUsed \in Nat /\ s.duration \in Int
    BY DurationsAreIntegers DEF Session
  <2>3. \A s \in Session : s.lastUsed + s.duration < now => s.lastUsed + s.duration < now'
    BY <2>1, <2>2
  <2>4. Due(w) => Due(w)'
    BY <2>1, <2>3 DEF Due
  <2> QED BY <2>1, <2>4 DEF HandInv, InHand, AsRead
<1>3. ASSUME NEW v \in Workers, Step(v) PROVE InHand(w)'
  <2>1. CASE v = w
    BY <1>3, <2>1, OwnHand DEF HandInv
  <2>2. CASE v # w
    BY <1>3, <2>2, OthersHand DEF InHand
  <2> QED BY <2>1, <2>2
<1> QED BY <1>1, <1>2, <1>3 DEF Next, Step

(* The step that takes a name away is the removal of the worker in hand. *)
LEMMA RemovesInTime ==
  ASSUME Typed, AloneInv, HandInv, [Next]_vars, NEW w \in Workers, NEW i \in Ids,
         pc[w] = "remove", op[w] # "destroySession", alone[w], dir[i] # None, dir'[i] = None
  PROVE  LET s == file[dir[i]].data IN s = Torn \/ s.lastUsed + s.duration < now
<1>1. Due(w)
  BY DEF HandInv, InHand
<1>2. dir' # dir
  OBVIOUS
<1>3. PICK v \in Workers : Step(v)
  BY <1>2 DEF Next, Step, Tick, vars
<1>4. v = w
  BY <1>2, <1>3, OthersHand
<1>5. Remove(w)
  BY <1>2, <1>3, <1>4 DEF Step, Call, CreateSession, UpdateSession, GetSession, DestroySession,
     RemoveExpired, BeginSave, Begin, Idle, Save, Open, FlockEx, Pwrite, PwriteEnd, Ftruncate, Unlock,
     Load, LoadUnchanged, Exists, OpenRd, Mmap, FlockSh, Read, Check, NextEntry,
     Fault, SyscallFails, ShortWrite, Crash
<1>6. path[w] \in Ids /\ i = path[w]
  BY <1>2, <1>5, RemoveStep DEF Typed, TypeOK
<1>7. path[w] # None
  BY <1>6, FSAssumption
<1> QED BY <1>1, <1>6, <1>7 DEF Due

(* Whatever dies or fails, a getSession or removeExpired that no other call *)
(* overlaps removes only a session whose own time is over, or a torn file:  *)
(* nothing read from one file is held against another.                      *)
THEOREM RemovalsInTime == Spec => RemovedInTime
<1>1. Init => AloneInv /\ OwnName /\ HandInv
  BY DEF Init, AloneInv, OwnName, HandInv, InHand
<1>2. IInv /\ AloneInv /\ [Next]_vars => AloneInv'
  BY StepAlone DEF IInv
<1>3. IInv /\ OwnName /\ [Next]_vars => OwnName'
  <2> SUFFICES ASSUME IInv, OwnName, [Next]_vars PROVE OwnName'
    OBVIOUS
  <2>1. CASE Tick \/ UNCHANGED vars
    BY <2>1 DEF Tick, vars, OwnName
  <2>2. ASSUME NEW w \in Workers, Step(w) PROVE OwnName'
    BY <2>2, StepOwnName DEF IInv
  <2> QED BY <2>1, <2>2 DEF Next, Step
<1>4. IInv /\ AloneInv /\ OwnName /\ HandInv /\ [Next]_vars => HandInv'
  BY StepHand DEF IInv
<1>5. IInv /\ AloneInv /\ HandInv /\ [Next]_vars =>
      [\A w \in Workers, i \in Ids :
         /\ pc[w] = "remove" /\ op[w] # "destroySession" /\ alone[w]
         /\ dir[i] # None /\ dir'[i] = None
         => LET s == file[dir[i]].data IN s = Torn \/ s.lastUsed + s.duration < now]_vars
  BY RemovesInTime DEF IInv
<1> QED BY <1>1, <1>2, <1>3, <1>4, <1>5, InitIInv, StepIInv, PTL DEF Spec, RemovedInTime

=============================================================================
