---------------------------- MODULE SessionStore ----------------------------
(***************************************************************************)
(* What the session managers of several workers promise together, with no  *)
(* files, locks or memory maps (session.ice's SessionManager): a map from  *)
(* ids to sessions.  A save is there at once, at some moment of its call;  *)
(* so is a removal.  A getSession returns a session the map has held at    *)
(* some moment of its call.  Three things are not promised: a call that a  *)
(* save overlaps may fail, an expired session that a call has met may be   *)
(* removed by it later, when it is live again, and removeExpired may leave *)
(* sessions that have expired since it began.                              *)
(***************************************************************************)
EXTENDS Integers

CONSTANTS
  Callers,   \* who calls
  Names,     \* the ids
  Gone,      \* no session
  Lifetime   \* the seconds a new session lives after its last save

VARIABLES
  clock,
  store,     \* store[i]: the session i, or Gone
  call,      \* call[w]: w's call, its operation, id and the session it saves
  done,      \* done[w]: w's save has taken effect
  got,       \* got[w]: the session w's call looks at, or Gone
  seen,      \* seen[w][i]: what store[i] has been since w's call began
  raced,     \* raced[w]: the ids a save was in progress on since
  answer     \* answer[w]: how w's last call ended

storeVars == <<clock, store, call, done, got, seen, raced, answer>>

NoCall == [op |-> "none", id |-> Gone, save |-> Gone]
Idle(w) == call[w] = NoCall
Saving(w) == call[w].op \in {"createSession", "updateSession"}
Reading(w) == call[w].op \in {"getSession", "removeExpired"}

Expired(s) == s.lastUsed + s.duration < clock

StoreInit ==
  /\ clock = 0
  /\ store = [i \in Names |-> Gone]
  /\ call = [w \in Callers |-> NoCall]
  /\ done = [w \in Callers |-> FALSE]
  /\ got = [w \in Callers |-> Gone]
  /\ seen = [w \in Callers |-> [i \in Names |-> {}]]
  /\ raced = [w \in Callers |-> {}]
  /\ answer = [w \in Callers |-> "none"]

(* What there was to be seen in this step: the map after it, and a save that *)
(* was there but for a moment.                                               *)
Passing(i) == {store'[i]} \cup
              {call[u].save : u \in {v \in Callers : call[v].id = i /\ ~done[v] /\ done'[v]}}

Observe ==
  /\ seen' = [w \in Callers |-> [i \in Names |->
       IF call'[w] = NoCall THEN {}
       ELSE IF Idle(w) THEN {store'[i]}
       ELSE seen[w][i] \cup Passing(i)]]
  /\ raced' = [w \in Callers |->
       IF call'[w] = NoCall THEN {}
       ELSE raced[w] \cup {call'[u].id : u \in {v \in Callers : Saving(v)'}}]

Pass == clock' = clock + 1 /\ UNCHANGED <<store, call, done, got, answer>>

Begin(w) ==
  /\ Idle(w)
  /\ call'[w] # NoCall
  /\ call' = [call EXCEPT ![w] = call'[w]]
  /\ Saving(w)' => /\ call'[w].save.id = call'[w].id
                   /\ call'[w].save.lastUsed = clock
  /\ call'[w].op = "createSession" => call'[w].save.duration = Lifetime
  /\ answer' = [answer EXCEPT ![w] = "none"]
  /\ UNCHANGED <<clock, store, done, got>>

End(w, r) ==
  /\ call' = [call EXCEPT ![w] = NoCall]
  /\ done' = [done EXCEPT ![w] = FALSE]
  /\ got' = [got EXCEPT ![w] = Gone]
  /\ answer' = [answer EXCEPT ![w] = r]

Put(w) ==
  /\ Saving(w) /\ ~done[w]
  /\ store' = [store EXCEPT ![call[w].id] = call[w].save]
  /\ done' = [done EXCEPT ![w] = TRUE]
  /\ UNCHANGED <<clock, call, got, answer>>

Saved(w) == Saving(w) /\ done[w] /\ End(w, "ok") /\ UNCHANGED <<clock, store>>

Fetch(w) ==
  /\ Reading(w)
  /\ \E i \in Names : /\ call[w].op = "getSession" => i = call[w].id
                      /\ got'[w] \in seen[w][i] \ {Gone}
  /\ got' = [got EXCEPT ![w] = got'[w]]
  /\ UNCHANGED <<clock, store, call, done, answer>>

(* removeExpired looks at the next one. *)
Leave(w) == /\ call[w].op = "removeExpired"
            /\ got' = [got EXCEPT ![w] = Gone]
            /\ UNCHANGED <<clock, store, call, done, answer>>

(* Saves that have not taken effect may do so just before a removal does. *)
Overtakes(i, finished) == \E overtaken \in SUBSET {u \in Callers : Saving(u) /\ call[u].id = i} :
  done' = [u \in Callers |-> u # finished /\ (done[u] \/ u \in overtaken)]

Destroy(w) ==
  /\ call[w].op = "destroySession"
  /\ store' = [store EXCEPT ![call[w].id] = Gone]
  /\ Overtakes(call[w].id, w)
  /\ call' = [call EXCEPT ![w] = NoCall]
  /\ answer' = [answer EXCEPT ![w] = "ok"]
  /\ UNCHANGED <<clock, got>>

Expire(w) ==
  /\ got[w] # Gone /\ Expired(got[w])
  /\ store' = [store EXCEPT ![got[w].id] = Gone]
  /\ Overtakes(got[w].id, w)
  /\ got' = [got EXCEPT ![w] = Gone]
  /\ \/ /\ call[w].op = "getSession"
        /\ call' = [call EXCEPT ![w] = NoCall]
        /\ answer' = [answer EXCEPT ![w] = "null"]
     \/ /\ call[w].op = "removeExpired"
        /\ UNCHANGED <<call, answer>>
  /\ UNCHANGED clock

Got(w) ==
  /\ call[w].op = "getSession"
  /\ \/ got[w] # Gone /\ ~Expired(got[w]) /\ End(w, "session")
     \/ Gone \in seen[w][call[w].id] /\ End(w, "null")
  /\ UNCHANGED <<clock, store>>

Swept(w) == call[w].op = "removeExpired" /\ End(w, "swept") /\ UNCHANGED <<clock, store>>

(* A save of what it reads was in progress. *)
Fails(w) ==
  /\ \/ call[w].op = "getSession" /\ call[w].id \in raced[w]
        /\ \E e \in {"SystemException", "MarshalException"} : End(w, e)
     \/ call[w].op = "removeExpired" /\ raced[w] # {} /\ End(w, "aborted")
  /\ UNCHANGED <<clock, store>>

StoreNext ==
  /\ \/ Pass
     \/ \E w \in Callers : \/ Begin(w) \/ Put(w) \/ Saved(w) \/ Fetch(w) \/ Leave(w)
                           \/ Destroy(w) \/ Expire(w) \/ Got(w) \/ Swept(w) \/ Fails(w)
  /\ Observe

(* What is seen may grow while nothing else happens. *)
StoreSpec == StoreInit /\ [][StoreNext]_<<clock, store, call, done, got, answer>>

=============================================================================
