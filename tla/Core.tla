-------------------------------- MODULE Core --------------------------------
(***************************************************************************)
(* One worker of fcgi/main.cpp: it accepts requests one after the other,   *)
(* parses each, has Core::process (core/core.cpp) execute it, and finishes *)
(* it.  process and handleError call each other: an error handler plug-in  *)
(* may rewrite the request and ask for it to be processed again, and does  *)
(* so from within handleError's own try block.  What the client sees is    *)
(* the order in which headers, status and body were written to the output. *)
(***************************************************************************)
EXTENDS Integers, Sequences

CONSTANTS
  NHandlers,    \* how many ErrorHandler plug-ins are loaded
  MaxModified,  \* bound on the times one request is answered Modified
  MaxRequests   \* bound on the requests accepted

ASSUME CoreAssumption ==
  NHandlers \in Nat /\ MaxModified \in Nat /\ MaxRequests \in Nat

VARIABLES
  at,       \* where the worker is
  out,      \* what this request has written: "header", a status, "body", or
            \* "half" of a body (or nothing of it) whose serializer threw
  frames,   \* handleError calls in progress, innermost first: the handler each is at
  modified, \* how often a handler has answered Modified
  served    \* requests accepted

coreVars == <<at, out, frames, modified, served>>

Statuses == {"200", "4xx", "500"}

CoreInit == /\ at = "accept" /\ out = <<>> /\ frames = <<>>
        /\ modified = 0 /\ served = 0

-----------------------------------------------------------------------------
(* main's loop.                                                            *)

(* FCGX_Accept_r *)
Accept ==
  /\ at = "accept" /\ served < MaxRequests
  /\ served' = served + 1
  /\ at' = "construct"
  /\ UNCHANGED <<out, frames, modified>>

(* FcgiRequest req(&core, &request): CgiRequestBase's constructor throws     *)
(* Http400BadRequest for a request without a path or with a bad query       *)
(* string or cookie.  No try block surrounds it: the worker terminates.     *)
Construct ==
  /\ at = "construct"
  /\ \/ at' = "findRoute"
     \/ at' = "terminated"
  /\ UNCHANGED <<out, frames, modified, served>>

(* FCGX_Finish_r; the request object of the loop's body is destroyed. *)
Finish ==
  /\ at = "finish"
  /\ at' = "accept"
  /\ out' = <<>> /\ frames' = <<>> /\ modified' = 0
  /\ UNCHANGED served

-----------------------------------------------------------------------------
(* Core::process.                                                          *)

Write(events) == out' = out \o events

(* process returns: to the handleError that called it, or to main. *)
Respond(events) ==
  /\ Write(events)
  /\ at' = "return"
  /\ UNCHANGED <<frames, modified, served>>

(* catch (const std::exception &): handleError begins with the first plug-in *)
HandleError ==
  /\ frames' = <<1>> \o frames
  /\ at' = "handleError"
  /\ UNCHANGED <<modified, served>>

(* catch (const HttpException &): whatever code the exception carries *)
RespondHttp == \E s \in Statuses : Respond(<<s>>)

(* the same, of what the client got wrong *)
Refuse4xx == Respond(<<"4xx">>)

(* findRoute: the route, or 400, 404 or 405 *)
Routed ==
  /\ at = "findRoute"
  /\ \/ at' = "execute" /\ UNCHANGED <<out, frames, modified, served>>
     \/ Refuse4xx

(* IRouteHandler::execute: it fetches the parameters and calls the operation *)
(* (an HttpException for what the client got wrong, any exception, an        *)
(* HttpException among them, of the operation's), and answers without a body *)
(* or through modelPartResponse.                                             *)
Execute ==
  /\ at = "execute"
  /\ \/ RespondHttp
     \/ UNCHANGED out /\ HandleError
     \/ Respond(<<"500">>)                    \* catch (...)
     \/ Respond(<<"200">>)
     \/ at' = "modelPartResponse" /\ UNCHANGED <<out, frames, modified, served>>

(* getSerializer: 400, 406, no such plug-in, or a serializer; with one, the *)
(* answer is begun.                                                         *)
ModelPartResponse ==
  /\ at = "modelPartResponse"
  /\ \/ Refuse4xx
     \/ UNCHANGED out /\ HandleError
     \/ /\ Write(<<"header", "200">>)
        /\ at' = "serialize"
        /\ UNCHANGED <<frames, modified, served>>

(* Serialize: the status is out, and some of the body may be, when it throws *)
Serialize ==
  /\ at = "serialize"
  /\ \/ Respond(<<"body">>)
     \/ /\ Write(<<"half">>)
        /\ HandleError

-----------------------------------------------------------------------------
(* Core::handleError and defaultErrorReport.                               *)

NextHandler == frames' = [frames EXCEPT ![1] = @ + 1]

(* A plug-in that answers Handled has responded, as it pleases. *)
RespondHandled == \E s \in Statuses : Respond(<<s>>) \/ Respond(<<"header", s, "body">>)

(* Mutated form: an HttpException of a plug-in is not caught. *)
AskHandlerUncaught ==
  /\ at = "handleError" /\ frames[1] <= NHandlers
  /\ \/ RespondHandled
     \/ NextHandler /\ UNCHANGED <<at, out, modified, served>>
     \/ /\ modified < MaxModified
        /\ modified' = modified + 1
        /\ at' = "findRoute"
        /\ UNCHANGED <<out, frames, served>>
     \/ at' = "terminated" /\ UNCHANGED <<out, frames, modified, served>>

(* One plug-in is asked.  It writes a response when it answers Handled, and  *)
(* nothing when it does not.  The frame of handleError is gone once a        *)
(* response is made or process is called again and returns.                  *)
AskHandler ==
  /\ at = "handleError" /\ frames[1] <= NHandlers
  /\ \/ RespondHandled                         \* Handled
     \/ /\ NextHandler                         \* Unhandled, or it throws otherwise
        /\ UNCHANGED <<at, out, modified, served>>
     \/ /\ modified < MaxModified              \* Modified: process(request, nullptr)
        /\ modified' = modified + 1
        /\ at' = "findRoute"
        /\ UNCHANGED <<out, frames, served>>
     \/ RespondHttp                            \* it throws an HttpException

DefaultErrorReport ==
  /\ at = "handleError" /\ frames[1] > NHandlers
  /\ Respond(<<"header", "500", "body">>)

(* Mutated form: no return after a plug-in's answer, on to the next one. *)
ReturnToLoop ==
  /\ at = "return"
  /\ \/ frames = <<>> /\ at' = "finish" /\ UNCHANGED frames
     \/ /\ frames # <<>> /\ frames[1] > NHandlers
        /\ frames' = Tail(frames) /\ UNCHANGED at
     \/ /\ frames # <<>> /\ frames[1] <= NHandlers
        /\ at' = "handleError" /\ NextHandler
  /\ UNCHANGED <<out, modified, served>>

(* handleError returns after process has; so does everything above it. *)
Return ==
  /\ at = "return"
  /\ IF frames = <<>>
     THEN at' = "finish" /\ UNCHANGED frames
     ELSE frames' = Tail(frames) /\ UNCHANGED at
  /\ UNCHANGED <<out, modified, served>>

-----------------------------------------------------------------------------

Work == \/ Construct \/ Routed \/ Execute \/ ModelPartResponse \/ Serialize
        \/ AskHandler \/ DefaultErrorReport \/ Return \/ Finish

CoreNext == Accept \/ Work

CoreSpec == CoreInit /\ [][CoreNext]_coreVars

(* The worker runs; that a request comes is up to the web server. *)
CoreFairSpec == CoreSpec /\ WF_coreVars(Work)

-----------------------------------------------------------------------------
(* Properties.                                                             *)

(* Exactly one status line, the headers before it and the body after. *)
Answered(o) == \E s \in 1..Len(o) :
  /\ o[s] \in Statuses
  /\ \A j \in 1..Len(o) : j < s => o[j] = "header"
  /\ \A j \in 1..Len(o) : j > s => o[j] = "body"

(* The serializer of this request, or of a rewrite of it, threw. *)
Half(o) == \E j \in 1..Len(o) : o[j] = "half"

(* Every request is finished with exactly one response, whoever wrote it    *)
(* and however often handlers had it processed again, unless a serializer   *)
(* threw: modelPartResponse writes the status before it serializes, and     *)
(* handleError then writes another.                                         *)
AnsweredOnce == at = "finish" /\ ~Half(out) => Answered(out)

(* A request that parsed is finished: no error handler and no error on the  *)
(* way stops the worker.                                                    *)
Finished == at = "findRoute" ~> at = "finish"

(* A request that does not parse is answered as a bad request, not by the   *)
(* death of the worker.                                                     *)
NeverTerminated == at # "terminated"

=============================================================================
