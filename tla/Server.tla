------------------------------- MODULE Server -------------------------------
(***************************************************************************)
(* What a worker promises to the web server in front of it, with no table, *)
(* no scan, no output stream and no error handlers: each request it takes  *)
(* is refused for want of a route or performed on the first route that     *)
(* fits it, and is answered once.                                          *)
(***************************************************************************)
EXTENDS Integers, Sequences

CONSTANTS
  Fixed,     \* route elements that match themselves; any other matches anything
  Verbs,     \* the HTTP methods there are
  Asks       \* the requests, records of a path and a method

VARIABLES
  offers,    \* the routes, a set of records of a path and a method
  phase,     \* "away", "idle", "received", "asked", "performing", "answered" or "dead"
  asked,     \* the request, as it is now
  performed, \* the route it is performed on, or "none"
  answer     \* its answer: "none", "200", "4xx", "404", "405", "500" or "broken"

serverVars == <<offers, phase, asked, performed, answer>>

Fits(r, path) == Len(r.path) = Len(path) /\ \A j \in 1..Len(path) :
                   r.path[j] \in Fixed => r.path[j] = path[j]

Candidates == {r \in offers : Fits(r, asked.path)}
Eligible == {r \in Candidates : r.method = asked.method}

(* Paths in the order of their elements. *)
Precedes(p, q) == \E j \in 1..Len(q) :
  /\ \A h \in 1..(j - 1) : h <= Len(p) /\ p[h] = q[h]
  /\ j > Len(p) \/ p[j] < q[j]

Firsts == {r \in Eligible : \A s \in Eligible : ~Precedes(s.path, r.path)}

-----------------------------------------------------------------------------

ServerInit == phase = "away" /\ performed = "none" /\ answer = "none"

Open == phase = "away" /\ phase' = "idle" /\ UNCHANGED <<offers, asked, performed, answer>>

Close == phase = "idle" /\ phase' = "away" /\ UNCHANGED <<offers, asked, performed, answer>>

Receive == /\ phase = "idle" /\ phase' = "received"
           /\ asked' \in Asks
           /\ UNCHANGED <<offers, performed, answer>>

Understand == phase = "received" /\ phase' = "asked" /\ UNCHANGED <<offers, asked, performed, answer>>

Die == phase = "received" /\ phase' = "dead" /\ UNCHANGED <<offers, asked, performed, answer>>

(* 404: nothing fits.  405: something does, but for the method.  4xx: there *)
(* is no such method.                                                       *)
Refuse == /\ phase = "asked" /\ phase' = "answered"
          /\ \/ asked.method \in Verbs /\ Candidates = {} /\ answer' = "404"
             \/ asked.method \in Verbs /\ Candidates # {} /\ Eligible = {} /\ answer' = "405"
             \/ asked.method \notin Verbs /\ answer' = "4xx"
          /\ UNCHANGED <<offers, asked, performed>>

Perform == /\ phase = "asked" /\ phase' = "performing"
           /\ performed' \in Firsts
           /\ UNCHANGED <<offers, asked, answer>>

(* An error handler has rewritten the path, for another route to take. *)
Rewrite == /\ phase = "performing" /\ phase' = "asked"
           /\ asked' \in Asks /\ asked'.method = asked.method
           /\ performed' = "none"
           /\ UNCHANGED <<offers, answer>>

Reply == /\ phase = "performing" /\ phase' = "answered"
         /\ answer' \in {"200", "4xx", "500"}
         /\ UNCHANGED <<offers, asked, performed>>

(* A body failed with the status sent: what the client has is no answer, and *)
(* whatever becomes of the request cannot change that.                       *)
Break == /\ phase \in {"asked", "performing"} /\ phase' = "answered"
         /\ answer' = "broken"
         /\ UNCHANGED <<offers, asked, performed>>

Done == /\ phase = "answered" /\ phase' = "idle"
        /\ performed' = "none" /\ answer' = "none"
        /\ UNCHANGED <<offers, asked>>

ServerNext == \/ Open \/ Close \/ Receive \/ Understand \/ Die \/ Refuse
              \/ Perform \/ Rewrite \/ Reply \/ Break \/ Done

ServerSpec == ServerInit /\ [][ServerNext]_serverVars

=============================================================================
