----------------------------- MODULE XsltProofs -----------------------------
(***************************************************************************)
(* A stylesheet saved anew is served, for any texts, clock and number of   *)
(* changes.  The invariant says what the factory's two variables are worth *)
(* when the file's write time is one it has not had before: if the time    *)
(* noted is that of the file, the sheet kept is the file's; and while the  *)
(* factory is between its two looks, the time it took is the file's, or    *)
(* the file has been saved since and the time noted is not its own.        *)
(***************************************************************************)
EXTENDS Xslt, TLAPS

Times == {e.mtime : e \in past}

Kept ==
  /\ now \in Nat
  /\ disk \in past
  /\ \A e \in past : e.mtime \in Int /\ (e = Missing \/ e.mtime >= 0)
  /\ writeTime = MinTime \/ (writeTime \in Times /\ writeTime >= 0)
  /\ Rendering => newMtime \in Times /\ newMtime >= 0

Current ==
  /\ writeTime = disk.mtime => sheet = disk.text /\ sheet # Null
  /\ pc = "parse" => /\ newMtime = disk.mtime \/ writeTime # disk.mtime
                     /\ disk.text \in since
                     /\ newMtime = writeTime => sheet \in since \ {Null}
  /\ pc = "apply" => sheet \in since \ {Null}

CacheInv == Kept /\ (fresh => Current)

LEMMA InitCacheInv == Init => CacheInv
  BY DEF Init, CacheInv, Kept, Current, Times, Missing, MinTime, Rendering

(* The file changes: its new write time is noted nowhere if it is new. *)
LEMMA StepChange ==
  ASSUME CacheInv, NEW d, Change(d), d.mtime \in Int, d = Missing \/ d.mtime >= 0
  PROVE  CacheInv'
<1>1. past' = past \cup {d} /\ disk' = d /\ UNCHANGED <<now, sheet, writeTime, newMtime, pc>>
  BY DEF Change, factoryVars
<1>2. Kept'
  BY <1>1 DEF CacheInv, Kept, Times, Rendering
<1>3. ASSUME fresh' PROVE Current'
  <2>1. d.mtime \notin Times /\ (Rendering => fresh)
    BY <1>3 DEF Change, Times
  <2>2. writeTime # d.mtime
    <3>1. CASE writeTime \in Times
      BY <2>1, <3>1
    <3>2. CASE writeTime = MinTime
      BY <3>2 DEF MinTime, Missing
    <3> QED BY <3>1, <3>2 DEF CacheInv, Kept
  <2>3. pc \in {"parse", "apply"} => since' = since \cup {d.text} /\ Current
    BY <2>1 DEF Change, Rendering, CacheInv
  <2> QED BY <1>1, <2>2, <2>3 DEF Current
<1> QED BY <1>2, <1>3 DEF CacheInv

LEMMA StepCacheInv == CacheInv /\ [Next]_vars => CacheInv'
<1> SUFFICES ASSUME CacheInv, [Next]_vars PROVE CacheInv'
  OBVIOUS
<1>1. CASE Tick
  BY <1>1 DEF Tick, factoryVars, CacheInv, Kept, Current, Times, Rendering
<1>2. CASE Save
  <2>1. PICK t \in Texts \cup {Null} : Change([text |-> t, mtime |-> now])
    BY <1>2 DEF Save
  <2>2. now \in Int /\ now >= 0
    BY DEF CacheInv, Kept
  <2> QED BY <2>1, <2>2, StepChange
<1>3. CASE PutBack
  <2>1. PICK d \in past : Change(d)
    BY <1>3 DEF PutBack
  <2> QED BY <2>1, StepChange DEF CacheInv, Kept
<1>4. CASE Delete
  <2>1. Missing.mtime \in Int
    BY DEF Missing
  <2> QED BY <1>4, <2>1, StepChange DEF Delete
<1>5. CASE Create
  <2>1. UNCHANGED <<now, disk, past, sheet, writeTime, fresh>>
    BY <1>5 DEF Create, fileVars
  <2>2. CASE disk = Missing
    BY <1>5, <2>1, <2>2 DEF Create, CacheInv, Kept, Current, Times, Rendering
  <2>3. CASE disk # Missing
    <3>1. newMtime' = disk.mtime /\ pc' = "parse" /\ since' = {disk.text}
      BY <1>5, <2>3 DEF Create
    <3>2. disk.mtime \in Times /\ disk.mtime >= 0
      BY <2>3 DEF CacheInv, Kept, Times
    <3> QED BY <2>1, <3>1, <3>2 DEF CacheInv, Kept, Current, Times, Rendering
  <2> QED BY <2>2, <2>3
<1>6. CASE Load
  <2>1. UNCHANGED <<now, disk, past, newMtime, since, fresh>> /\ pc = "parse"
    BY <1>6 DEF Load, fileVars
  <2>2. Kept'
    BY <1>6, <2>1 DEF Load, CacheInv, Kept, Times, Rendering
  <2>3. fresh => Current'
    BY <1>6, <2>1 DEF Load, CacheInv, Current
  <2> QED BY <2>1, <2>2, <2>3 DEF CacheInv
<1>7. CASE Serialize
  BY <1>7 DEF Serialize, fileVars, CacheInv, Kept, Current, Times, Rendering
<1>8. CASE UNCHANGED vars
  BY <1>8 DEF vars, CacheInv, Kept, Current, Times, Rendering
<1> QED BY <1>1, <1>2, <1>3, <1>4, <1>5, <1>6, <1>7, <1>8 DEF Next

(* What is applied is the stylesheet as saved, never an older or a null one. *)
THEOREM SavedServed == Spec => []SavedIsServed
<1>1. CacheInv => SavedIsServed
  BY DEF CacheInv, Current, SavedIsServed
<1> QED BY <1>1, InitCacheInv, StepCacheInv, PTL DEF Spec

=============================================================================
