---------------------------- MODULE WorkerProofs ----------------------------
(***************************************************************************)
(* A worker keeps its promise for every table of routes, every request and *)
(* any number of error handlers, rewrites and plug-ins.                    *)
(*                                                                         *)
(* First Core alone: every request has been answered exactly once when it  *)
(* is finished, unless one of its serializers threw after the status was   *)
(* out.  The invariant says what has been written at each point: nothing   *)
(* until a response is begun, and a complete one when process returns.     *)
(*                                                                         *)
(* A step of the worker is a step of Core, of Router or of both, so what   *)
(* is shown of each alone holds of the worker.  What is left is how they   *)
(* hang together, Linked: while a request is performed, what findRoute     *)
(* last answered is a route for that request as it is now.                 *)
(***************************************************************************)
EXTENDS Worker, RouterProofs

-----------------------------------------------------------------------------
(* Core.                                                                   *)

Unanswered == {"accept", "construct", "terminated", "findRoute", "execute", "modelPartResponse", "handleError"}

Complete == {<<s>> : s \in Statuses} \cup {<<"header", s, "body">> : s \in Statuses}

Events == Statuses \cup {"header", "body", "half"}

OutPcs == Unanswered \cup {"serialize", "return", "finish"}

(* What is out while no serializer has thrown. *)
Whole ==
  /\ at \in Unanswered => out = <<>>
  /\ at = "serialize" => out = <<"header", "200">>
  /\ at \in {"return", "finish"} => out \in Complete

OutInv ==
  /\ out \in Seq(Events)
  /\ at \in OutPcs
  /\ ~Half(out) => Whole

(* What has been written stays. *)
LEMMA HalfStays ==
  ASSUME NEW o \in Seq(Events), NEW e \in Seq(Events)
  PROVE  /\ o \o e \in Seq(Events)
         /\ Half(o) => Half(o \o e)
         /\ Half(e) => Half(o \o e)
<1>1. o \o e \in Seq(Events) /\ Len(o \o e) = Len(o) + Len(e)
  OBVIOUS
<1>2. \A j \in 1..Len(o) : (o \o e)[j] = o[j] /\ j \in 1..Len(o \o e)
  BY <1>1
<1>3. \A j \in 1..Len(e) : (o \o e)[Len(o) + j] = e[j] /\ Len(o) + j \in 1..Len(o \o e)
  BY <1>1
<1> QED BY <1>1, <1>2, <1>3 DEF Half

LEMMA BodyAppended == <<"header", "200">> \o <<"body">> = <<"header", "200", "body">>
<1> DEFINE S == {"header", "200", "body"}
           a == <<"header", "200">> \o <<"body">>
           b == <<"header", "200", "body">>
<1>1. a \in Seq(S) /\ b \in Seq(S) /\ Len(a) = 3 /\ Len(b) = 3
  OBVIOUS
<1>2. a[1] = b[1] /\ a[2] = b[2] /\ a[3] = b[3]
  OBVIOUS
<1>3. \A i \in 1..Len(a) : a[i] = b[i]
  BY <1>1, <1>2
<1> HIDE DEF a, b, S
<1>4. a = b
  BY <1>1, <1>3, SeqEqual
<1> QED BY <1>4 DEF a, b

LEMMA StepTyped ==
  ASSUME out \in Seq(Events), at \in OutPcs, CoreNext
  PROVE  /\ out' \in Seq(Events) /\ at' \in OutPcs
         /\ Half(out) => (Half(out') \/ (at' = "accept" /\ out' = <<>>))
<1> USE DEF OutPcs, Unanswered
<1> DEFINE Written == Complete \cup {<<"header", "200">>, <<"body">>, <<"half">>}
<1>1. Written \subseteq Seq(Events)
  <2>1. \A s \in Statuses : <<s>> \in Seq(Events) /\ <<"header", s, "body">> \in Seq(Events)
    BY DEF Events
  <2>2. <<"body">> \in Seq(Events) /\ <<"half">> \in Seq(Events)
    BY DEF Events, Statuses
  <2>3. <<"header", "200">> \in Seq(Events)
    BY DEF Events, Statuses
  <2> QED BY <2>1, <2>2, <2>3 DEF Complete
<1>2. CASE UNCHANGED out /\ at' \in OutPcs
  BY <1>2 DEF Half
<1>3. CASE \E e \in Written : out' = out \o e /\ at' \in OutPcs
  <2>1. PICK e \in Written : out' = out \o e
    BY <1>3
  <2> HIDE DEF Written
  <2>2. e \in Seq(Events)
    BY <1>1, <2>1
  <2>3. out \o e \in Seq(Events) /\ (Half(out) => Half(out \o e))
    BY <2>2, HalfStays
  <2>4. Half(out') <=> Half(out \o e)
    BY <2>1 DEF Half
  <2> QED BY <1>3, <2>1, <2>3, <2>4
<1>4. CASE Finish
  BY <1>4 DEF Finish
<1>5. \A s \in Statuses : <<s>> \in Written /\ <<"header", s, "body">> \in Written
  BY DEF Complete
<1>6. /\ <<"4xx">> \in Written /\ <<"500">> \in Written /\ <<"200">> \in Written
      /\ <<"header", "500", "body">> \in Written
  BY <1>5 DEF Statuses
<1>7. <<"header", "200">> \in Written /\ <<"body">> \in Written /\ <<"half">> \in Written
  OBVIOUS
<1> HIDE DEF Written
<1>8. ASSUME Accept \/ Construct \/ Routed \/ Execute
      PROVE  \/ UNCHANGED out /\ at' \in OutPcs
             \/ \E e \in Written : out' = out \o e /\ at' \in OutPcs
  BY <1>5, <1>6, <1>8 DEF Accept, Construct, Routed, Execute, RespondHttp, Refuse4xx, Respond, Write, HandleError
<1>9. ASSUME ModelPartResponse \/ Serialize
      PROVE  \/ UNCHANGED out /\ at' \in OutPcs
             \/ \E e \in Written : out' = out \o e /\ at' \in OutPcs
  BY <1>6, <1>7, <1>9 DEF ModelPartResponse, Serialize, Refuse4xx, Respond, Write, HandleError
<1>10. ASSUME AskHandler \/ DefaultErrorReport \/ Return
       PROVE  \/ UNCHANGED out /\ at' \in OutPcs
              \/ \E e \in Written : out' = out \o e /\ at' \in OutPcs
  BY <1>5, <1>6, <1>10
     DEF AskHandler, RespondHandled, NextHandler, DefaultErrorReport, Return, RespondHttp, Respond, Write
<1> QED BY <1>2, <1>3, <1>4, <1>8, <1>9, <1>10 DEF CoreNext, Work

LEMMA StepWhole ==
  ASSUME Whole, CoreNext, out \in Seq(Events), at \in OutPcs
  PROVE  Whole' \/ Half(out')
<1> USE DEF Whole, OutPcs, Unanswered
<1>0. /\ \A s \in Statuses : <<s>> \in Complete /\ <<"header", s, "body">> \in Complete
      /\ "4xx" \in Statuses /\ "500" \in Statuses /\ "200" \in Statuses
  BY DEF Complete, Statuses
<1>1. \A s \in Statuses : <<>> \o <<s>> = <<s>> /\ <<>> \o <<"header", s, "body">> = <<"header", s, "body">>
  OBVIOUS
<1>2. ASSUME out = <<>>, NEW s \in Statuses, Respond(<<s>>) \/ Respond(<<"header", s, "body">>)
      PROVE  Whole'
  <2>1. out' \in Complete /\ at' = "return"
    BY <1>0, <1>1, <1>2 DEF Respond, Write
  <2> QED BY <2>1
<1>3. ASSUME out = <<>>, RespondHttp \/ Refuse4xx
      PROVE  Whole'
  BY <1>0, <1>2, <1>3 DEF RespondHttp, Refuse4xx
<1>4. CASE Accept
  BY <1>4 DEF Accept
<1>5. CASE Construct
  BY <1>5 DEF Construct
<1>6. CASE Routed
  BY <1>3, <1>6 DEF Routed
<1>7. CASE Execute
  <2>1. CASE Respond(<<"500">>) \/ Respond(<<"200">>)
    BY <1>0, <1>2, <1>7, <2>1 DEF Execute
  <2> QED BY <1>3, <1>7, <2>1 DEF Execute, HandleError
<1>8. CASE ModelPartResponse
  <2>1. <<>> \o <<"header", "200">> = <<"header", "200">>
    OBVIOUS
  <2> QED BY <1>3, <1>8, <2>1 DEF ModelPartResponse, HandleError, Write
<1>9. CASE Serialize
  <2>1. CASE out' = out \o <<"half">>
    <3>1. <<"half">> \in Seq(Events) /\ Half(<<"half">>)
      BY DEF Half, Events
    <3>2. Half(out \o <<"half">>)
      BY <3>1, HalfStays
    <3> QED BY <2>1, <3>2 DEF Half
  <2>2. CASE out' = out \o <<"body">> /\ at' = "return"
    <3>1. out = <<"header", "200">>
      BY <1>9 DEF Serialize
    <3>2. out' \in Complete
      BY <1>0, <2>2, <3>1, BodyAppended
    <3> QED BY <2>2, <3>2
  <2> QED BY <1>9, <2>1, <2>2 DEF Serialize, Respond, Write
<1>10. CASE AskHandler
  <2>1. CASE RespondHandled
    BY <1>2, <1>10, <2>1 DEF AskHandler, RespondHandled
  <2> QED BY <1>3, <1>10, <2>1 DEF AskHandler, NextHandler
<1>11. CASE DefaultErrorReport
  BY <1>0, <1>2, <1>11 DEF DefaultErrorReport
<1>12. CASE Return
  BY <1>12 DEF Return
<1>13. CASE Finish
  BY <1>13 DEF Finish
<1> QED BY <1>4, <1>5, <1>6, <1>7, <1>8, <1>9, <1>10, <1>11, <1>12, <1>13 DEF CoreNext, Work

LEMMA StepOut == OutInv /\ [CoreNext]_coreVars => OutInv'
<1> SUFFICES ASSUME OutInv, [CoreNext]_coreVars PROVE OutInv'
  OBVIOUS
<1>1. CASE UNCHANGED coreVars
  BY <1>1 DEF coreVars, OutInv, OutPcs, Unanswered, Whole, Half
<1>2. CASE CoreNext /\ ~Half(out)
  BY <1>2, StepTyped, StepWhole DEF OutInv
<1>3. CASE CoreNext /\ Half(out)
  <2>1. CASE at' = "accept" /\ out' = <<>>
    BY <2>1 DEF OutInv, Whole, OutPcs, Unanswered
  <2> QED BY <1>3, <2>1, StepTyped DEF OutInv
<1> QED BY <1>1, <1>2, <1>3

LEMMA InitOut == CoreInit => OutInv
  BY DEF CoreInit, OutInv, OutPcs, Unanswered, Whole

LEMMA CompleteAnswered == \A o \in Complete : Answered(o)
<1>1. \A s \in Statuses : Answered(<<s>>)
  BY DEF Answered
<1>2. \A s \in Statuses : Answered(<<"header", s, "body">>)
  BY DEF Answered
<1> QED BY <1>1, <1>2 DEF Complete

(* One response, headers first and body last. *)
THEOREM OneAnswer == CoreSpec => []AnsweredOnce
<1>1. OutInv => AnsweredOnce
  BY CompleteAnswered DEF OutInv, Whole, AnsweredOnce
<1>2. OutInv /\ [CoreNext]_coreVars => OutInv'
  BY StepOut
<1> QED BY <1>1, <1>2, InitOut, PTL DEF CoreSpec

-----------------------------------------------------------------------------
(* The worker.                                                             *)

Doing == {"execute", "modelPartResponse", "serialize", "handleError"}

NotServing == {"start", "load", "build", "unload", "exited", "aborted"}

Linked ==
  /\ life \in NotServing => at = "accept"
  /\ life \notin NotServing => life \in {"serve", "terminated"}
  /\ life = "terminated" => at \in {"accept", "terminated"}
  /\ life = "serve" => at # "terminated" /\ pc # "build"
  /\ at # "accept" => client \in AnyRequest
  /\ at # "findRoute" => pc # "scan"
  /\ at = "findRoute" /\ pc # "ready" => request = client /\ client \in Request
  /\ at \in Doing => pc = "answered" /\ result[1] = "found" /\ request = client

WInv == OutInv /\ RInv /\ Linked

-----------------------------------------------------------------------------
(* The parts.                                                              *)

LEMMA CoreStep == [WorkerNext]_workerVars => [CoreNext]_coreVars
<1> SUFFICES ASSUME [WorkerNext]_workerVars PROVE [CoreNext]_coreVars
  OBVIOUS
<1> USE DEF CoreNext, Work
<1>1. CASE CreateAdapter \/ AddPlugin \/ Activate \/ BuildTable
  BY <1>1 DEF CreateAdapter, AddPlugin, Activate, BuildTable
<1>2. CASE Receive
  BY <1>2 DEF Receive
<1>3. CASE Serving
  BY <1>3 DEF Serving, Parse, MethodRefused, Refuse4xx, Respond, Routed, LookUp, RouteChosen, Perform, Handle
<1>4. CASE LibraryChange \/ Stop \/ RemovePlugin \/ DestroyAdapter
  BY <1>4 DEF LibraryChange, Stop, RemovePlugin, DestroyAdapter
<1>5. CASE UNCHANGED workerVars
  BY <1>5 DEF workerVars
<1> QED BY <1>1, <1>2, <1>3, <1>4, <1>5 DEF WorkerNext

LEMMA RouterStep == [WorkerNext]_workerVars => [Next]_vars
<1> SUFFICES ASSUME [WorkerNext]_workerVars PROVE [Next]_vars
  OBVIOUS
<1> USE DEF Next
<1>1. CASE CreateAdapter \/ AddPlugin \/ Activate \/ BuildTable
  BY <1>1 DEF CreateAdapter, AddPlugin, Activate, BuildTable
<1>2. CASE Receive
  BY <1>2 DEF Receive
<1>3. CASE Serving
  BY <1>3 DEF Serving, Parse, Forget, MethodRefused, LookUp, RouteChosen, Perform, Handle, vars
<1>4. CASE LibraryChange \/ Stop \/ RemovePlugin \/ DestroyAdapter
  BY <1>4 DEF LibraryChange, Stop, RemovePlugin, DestroyAdapter
<1>5. CASE UNCHANGED workerVars
  BY <1>5 DEF workerVars
<1> QED BY <1>1, <1>2, <1>3, <1>4, <1>5 DEF WorkerNext

(* What holds of Core alone and of Router alone holds in a worker. *)
THEOREM WorkerOfParts == WorkerSpec => CoreSpec /\ Spec
<1>1. WorkerInit => CoreInit /\ Init
  BY DEF WorkerInit
<1> QED BY <1>1, CoreStep, RouterStep, PTL DEF WorkerSpec, CoreSpec, Spec

-----------------------------------------------------------------------------
(* The parts hang together.                                                *)

LEMMA InitLinked == WorkerInit => Linked
  BY DEF WorkerInit, CoreInit, Init, Linked, NotServing, Doing

(* Whoever calls findRoute finds it ready, or readies it. *)
LEMMA ForgetReadies ==
  ASSUME RInv, Forget, pc # "scan", pc # "build"
  PROVE  pc' = "ready"
<1>1. pc \in {"build", "ready", "scan", "answered"}
  BY DEF RInv, Types
<1> QED BY <1>1 DEF Forget, NextRequest, vars

LEMMA StepLinked == WInv /\ [WorkerNext]_workerVars => Linked'
<1> SUFFICES ASSUME WInv, [WorkerNext]_workerVars PROVE Linked'
  OBVIOUS
<1> USE DEF Linked, NotServing, Doing
<1>0. Linked /\ RInv /\ at \in OutPcs
  BY DEF WInv, OutInv
<1>1. CASE CreateAdapter \/ AddPlugin \/ Activate
  BY <1>0, <1>1 DEF CreateAdapter, AddPlugin, Activate, vars, coreVars
<1>2. CASE BuildTable
  <2>1. UNCHANGED <<coreVars, client>> /\ at = "accept"
        /\ life' \in {"build", "serve"} /\ pc' \in {"build", "ready"} /\ (life' = "serve" => pc' = "ready")
    BY <1>0, <1>2 DEF BuildTable, Place, Built
  <2> QED BY <1>0, <2>1 DEF coreVars
<1>3. CASE Receive
  BY <1>0, <1>3 DEF Receive, Accept, vars
<1>4. CASE Parse
  <2>1. pc' = "ready"
    BY <1>0, <1>4, ForgetReadies DEF Parse, Construct
  <2> QED BY <1>0, <1>4, <2>1 DEF Parse, Construct, pluginVars
<1>5. CASE MethodRefused
  <2>1. life = "serve" /\ life' = life /\ at' = "return" /\ at = "findRoute" /\ client' = client
        /\ pc' = pc /\ pc \notin {"build", "scan"}
    <3>1. client.method \in BadMethods
      BY <1>5 DEF MethodRefused
    <3>2. client \notin Request
      BY <3>1, WorkerAssumption DEF Request
    <3> QED BY <1>0, <1>5, <3>2 DEF MethodRefused, Refuse4xx, Respond, vars
  <2> QED BY <1>0, <2>1
<1>6. CASE LookUp
  <2>1. life = "serve" /\ life' = life /\ at = "findRoute" /\ at' = at /\ client' = client
    BY <1>6 DEF LookUp, coreVars
  <2>2. pc' # "build" /\ request' = client /\ client \in Request
    <3>1. CASE FindRoute /\ request' = client
      BY <3>1 DEF FindRoute
    <3>2. CASE Scan \/ ScanEnd
      BY <1>0, <2>1, <3>2 DEF Scan, ScanEnd
    <3> QED BY <1>6, <3>1, <3>2 DEF LookUp
  <2> QED BY <1>0, <2>1, <2>2
<1>7. CASE RouteChosen
  <2>1. life = "serve" /\ life' = life /\ at = "findRoute" /\ at' \in {"execute", "return"}
        /\ (at' = "execute" => result[1] = "found")
    BY <1>7 DEF RouteChosen, Routed, Refuse4xx, Respond
  <2>2. UNCHANGED <<pc, request, result, client>> /\ pc = "answered"
    BY <1>7 DEF RouteChosen, vars
  <2> QED BY <1>0, <2>1, <2>2
<1>8. CASE Perform
  <2>1. UNCHANGED <<pc, request, result, client, life>> /\ life = "serve"
    BY <1>8 DEF Perform, vars
  <2>2. \/ at \in Doing /\ at' \in Doing \cup {"return"}
        \/ at = "serialize" /\ at' \in {"return", "handleError"}
        \/ at = "return" /\ at' \in {"return", "finish"}
        \/ at = "finish" /\ at' = "accept"
    <3>1. CASE Execute \/ ModelPartResponse
      BY <3>1 DEF Execute, ModelPartResponse, RespondHttp, Refuse4xx, Respond, HandleError
    <3>2. CASE Serialize \/ DefaultErrorReport
      BY <3>2 DEF Serialize, DefaultErrorReport, Respond, HandleError
    <3>3. CASE Return \/ Finish
      BY <3>3 DEF Return, Finish
    <3> QED BY <1>8, <3>1, <3>2, <3>3 DEF Perform
  <2> QED BY <1>0, <2>1, <2>2
<1>9. CASE Handle
  <2>1. at = "handleError" /\ at' \in {"handleError", "findRoute", "return"} /\ life' = life /\ life = "serve"
    BY <1>9 DEF Handle, AskHandler, RespondHandled, RespondHttp, Respond, NextHandler
  <2>2. CASE at' = "findRoute"
    <3>1. pc' = "ready"
      BY <1>0, <1>9, <2>1, <2>2, ForgetReadies DEF Handle
    <3>2. client' \in AnyRequest
      BY <1>0, <1>9, <2>1, <2>2 DEF Handle, AnyRequest
    <3> QED BY <1>0, <2>1, <2>2, <3>1, <3>2
  <2>3. CASE at' # "findRoute"
    BY <1>0, <1>9, <2>1, <2>3 DEF Handle, vars
  <2> QED BY <2>2, <2>3
<1>10. CASE LibraryChange \/ Stop \/ RemovePlugin \/ DestroyAdapter
  BY <1>0, <1>10 DEF LibraryChange, Stop, RemovePlugin, DestroyAdapter, vars, coreVars
<1>11. CASE UNCHANGED workerVars
  BY <1>0, <1>11 DEF workerVars, vars, coreVars
<1> QED BY <1>1, <1>2, <1>3, <1>4, <1>5, <1>6, <1>7, <1>8, <1>9, <1>10, <1>11 DEF WorkerNext, Serving

LEMMA InitWInv == WorkerInit => WInv
  BY InitLinked, InitOut, InitRInv DEF WorkerInit, WInv

LEMMA StepWInv == WInv /\ [WorkerNext]_workerVars => WInv'
  BY StepLinked, StepOut, StepRInv, CoreStep, RouterStep DEF WInv

-----------------------------------------------------------------------------
(* What the client makes of what is written.                               *)

(* A complete response is one status. *)
LEMMA CompleteStatus ==
  ASSUME NEW o \in Complete, NEW refusal
  PROVE  StatusOf(o, refusal) \in {"broken", "200", "500", refusal}
  BY CompleteAnswered DEF StatusOf

LEMMA FourHundred ==
  ASSUME NEW refusal
  PROVE  StatusOf(<<"4xx">>, refusal) = refusal
<1>1. Len(<<"4xx">>) = 1 /\ <<"4xx">>[1] = "4xx"
  OBVIOUS
<1>2. ~Half(<<"4xx">>)
  BY <1>1 DEF Half
<1>3. Answered(<<"4xx">>)
  BY CompleteAnswered DEF Complete, Statuses
<1> QED BY <1>1, <1>2, <1>3 DEF StatusOf

(* A request refused on the way to its route. *)
LEMMA Refused ==
  ASSUME OutInv, at = "findRoute", Refuse4xx
  PROVE  Half(out') \/ out' = <<"4xx">>
<1>1. CASE Half(out)
  <2>1. <<"4xx">> \in Seq(Events)
    BY DEF Events, Statuses
  <2>2. Half(out \o <<"4xx">>)
    BY <1>1, <2>1, HalfStays DEF OutInv
  <2> QED BY <2>2 DEF Refuse4xx, Respond, Write, Half
<1>2. CASE ~Half(out)
  <2>1. out = <<>>
    BY <1>2 DEF OutInv, Whole, Unanswered
  <2>2. <<>> \o <<"4xx">> = <<"4xx">>
    OBVIOUS
  <2> QED BY <2>1, <2>2 DEF Refuse4xx, Respond, Write
<1> QED BY <1>1, <1>2

-----------------------------------------------------------------------------
(* Routes.                                                                 *)

LEMMA SameFit ==
  ASSUME NEW r \in Route, NEW p
  PROVE  Applies(r, p) <=> Promise!Fits(r, p)
<1>1. \A j \in 1..Len(r.path) : r.path[j] \in Literals \cup Parameters
  BY RouteTypes
<1> QED BY <1>1, RouterAssumption DEF Applies, Promise!Fits

LEMMA SameOrder == \A p, q : Before(p, q) <=> Promise!Precedes(p, q)
  BY DEF Before, Promise!Precedes

LEMMA LookedUp ==
  ASSUME RInv, pc = "answered", request = client
  PROVE  \/ result[1] = "found" /\ result[2] \in Promise!Firsts
         \/ result[1] = "404" /\ Promise!Candidates = {}
         \/ result[1] = "405" /\ Promise!Candidates # {} /\ Promise!Eligible = {}
<1>1. Loaded \subseteq Route
  BY DEF RInv, Types, Loaded
<1>2. Promise!Candidates = {r \in Loaded : Applies(r, request.path)}
  BY <1>1, SameFit DEF Promise!Candidates
<1>3. Promise!Eligible = {r \in Promise!Candidates : r.method = request.method}
  BY DEF Promise!Eligible
<1>4. LookupCorrect
  BY DEF RInv
<1> QED BY <1>2, <1>3, <1>4, SameOrder DEF LookupCorrect, Promise!Firsts

-----------------------------------------------------------------------------
(* Every step of the worker is one of Server or none.                      *)

LEMMA InitPromise == WorkerInit => Promise!ServerInit
  BY DEF WorkerInit, CoreInit, Promise!ServerInit, Phase, Performed, AnswerGiven

LEMMA LoadedStays == [WorkerNext]_workerVars => UNCHANGED Loaded
<1>1. [Next]_vars => UNCHANGED allRoutes
  BY DEF Next, Place, Built, FindRoute, Scan, ScanEnd, NextRequest, vars
<1> QED BY <1>1, RouterStep DEF Loaded

LEMMA StepAway ==
  ASSUME WInv, UNCHANGED Loaded,
         CreateAdapter \/ AddPlugin \/ Activate \/ BuildTable \/ Stop \/ RemovePlugin \/ DestroyAdapter
  PROVE  [Promise!ServerNext]_(Promise!serverVars)
<1>1. Linked
  BY DEF WInv
<1>2. at = "accept" /\ at' = "accept" /\ client' = client
  BY <1>1 DEF Linked, NotServing, CreateAdapter, AddPlugin, Activate, BuildTable, Stop,
     RemovePlugin, DestroyAdapter, coreVars
<1>3. Phase \in {"away", "idle"} /\ Phase' \in {"away", "idle"}
  BY <1>2 DEF Phase
<1>4. Performed = "none" /\ Performed' = "none" /\ AnswerGiven = "none" /\ AnswerGiven' = "none"
  BY <1>3 DEF Performed, AnswerGiven
<1> QED BY <1>2, <1>3, <1>4 DEF Promise!ServerNext, Promise!Open, Promise!Close, Promise!serverVars

LEMMA StepArrives ==
  ASSUME WInv, UNCHANGED Loaded, Receive \/ Parse
  PROVE  [Promise!ServerNext]_(Promise!serverVars)
<1>1. CASE Receive
  <2>1. Phase = "idle" /\ Phase' = "received" /\ client' \in AnyRequest
    BY <1>1 DEF Receive, Accept, Phase
  <2>2. Performed = "none" /\ Performed' = "none" /\ AnswerGiven = "none" /\ AnswerGiven' = "none"
    BY <2>1 DEF Performed, AnswerGiven
  <2> QED BY <2>1, <2>2 DEF Promise!ServerNext, Promise!Receive
<1>2. CASE Parse
  <2>1. Phase = "received" /\ Phase' \in {"asked", "dead"} /\ client' = client
    BY <1>2 DEF Parse, Construct, Phase
  <2>2. Performed = "none" /\ Performed' = "none" /\ AnswerGiven = "none" /\ AnswerGiven' = "none"
    BY <2>1 DEF Performed, AnswerGiven
  <2> QED BY <2>1, <2>2 DEF Promise!ServerNext, Promise!Understand, Promise!Die
<1> QED BY <1>1, <1>2

LEMMA StepAsked ==
  ASSUME WInv, UNCHANGED Loaded, MethodRefused \/ LookUp \/ RouteChosen
  PROVE  [Promise!ServerNext]_(Promise!serverVars)
<1>0. Linked /\ RInv /\ OutInv
  BY DEF WInv
<1>1. life = "serve" /\ life' = life /\ at = "findRoute" /\ client' = client
  BY DEF MethodRefused, LookUp, RouteChosen, Routed
<1>2. Phase = "asked" /\ Performed = "none" /\ AnswerGiven = "none"
  BY <1>1 DEF Phase, Performed, AnswerGiven
<1>3. CASE LookUp
  <2>1. Phase' = "asked"
    BY <1>1, <1>3 DEF LookUp, Phase, coreVars
  <2>2. Performed' = "none" /\ AnswerGiven' = "none"
    BY <2>1 DEF Performed, AnswerGiven
  <2> QED BY <1>1, <1>2, <2>1, <2>2 DEF Promise!serverVars
<1>4. CASE MethodRefused
  <2>1. pc # "answered" /\ UNCHANGED <<pc, result>> /\ client.method \notin Methods
    <3>1. client.method \in BadMethods
      BY <1>4 DEF MethodRefused
    <3>2. client \notin Request /\ client.method \notin Methods
      BY <3>1, WorkerAssumption DEF Request
    <3> QED BY <1>0, <1>1, <1>4, <3>2 DEF Linked, MethodRefused, vars
  <2>2. Phase' = "answered" /\ Performed' = "none"
    BY <1>1, <1>4, <2>1 DEF MethodRefused, Refuse4xx, Respond, Phase, Performed
  <2>3. Half(out') \/ out' = <<"4xx">>
    BY <1>0, <1>1, <1>4, Refused DEF MethodRefused
  <2>4. Refusal' = "4xx"
    BY <2>1 DEF Refusal
  <2>5. AnswerGiven' \in {"broken", "4xx"}
    <3>1. CASE Half(out')
      BY <2>2, <3>1 DEF AnswerGiven, StatusOf
    <3>2. CASE out' = <<"4xx">>
      BY <2>2, <2>4, <3>2, FourHundred DEF AnswerGiven
    <3> QED BY <2>3, <3>1, <3>2
  <2> QED BY <1>1, <1>2, <2>1, <2>2, <2>5 DEF Promise!ServerNext, Promise!Refuse, Promise!Break
<1>5. CASE RouteChosen
  <2>1. UNCHANGED <<pc, request, result>> /\ pc = "answered" /\ request = client /\ client \in Request
    BY <1>0, <1>1, <1>5 DEF RouteChosen, Linked, vars
  <2>2. \/ result[1] = "found" /\ result[2] \in Promise!Firsts
        \/ result[1] = "404" /\ Promise!Candidates = {}
        \/ result[1] = "405" /\ Promise!Candidates # {} /\ Promise!Eligible = {}
    BY <1>0, <2>1, LookedUp
  <2>3. client.method \in Methods
    BY <2>1 DEF Request
  <2>4. CASE at' = "execute"
    <3>1. Phase' = "performing" /\ result[1] = "found"
      BY <1>1, <1>5, <2>4 DEF Phase, RouteChosen
    <3>2. Performed' = result[2] /\ AnswerGiven' = "none"
      BY <2>1, <3>1 DEF Performed, AnswerGiven
    <3> QED BY <1>1, <1>2, <2>2, <3>1, <3>2 DEF Promise!ServerNext, Promise!Perform
  <2>5. CASE at' # "execute"
    <3>1. at' = "return" /\ Refuse4xx /\ result[1] # "found"
      BY <1>5, <2>5 DEF RouteChosen, Routed, Refuse4xx, Respond
    <3>2. Phase' = "answered" /\ Performed' = "none" /\ Refusal' = result[1]
      BY <1>1, <2>1, <3>1 DEF Phase, Performed, Refusal
    <3>3. Half(out') \/ out' = <<"4xx">>
      BY <1>0, <1>1, <3>1, Refused
    <3>4. AnswerGiven' \in {"broken", result[1]}
      <4>1. CASE Half(out')
        BY <3>2, <4>1 DEF AnswerGiven, StatusOf
      <4>2. CASE out' = <<"4xx">>
        BY <3>2, <4>2, FourHundred DEF AnswerGiven
      <4> QED BY <3>3, <4>1, <4>2
    <3> QED BY <1>1, <1>2, <2>2, <2>3, <3>1, <3>2, <3>4
          DEF Promise!ServerNext, Promise!Refuse, Promise!Break
  <2> QED BY <2>4, <2>5
<1> QED BY <1>3, <1>4, <1>5

(* A step that only writes, or ends, the response to a request in hand. *)
LEMMA StepPerforms ==
  ASSUME WInv, WInv', UNCHANGED Loaded, Perform \/ Handle
  PROVE  [Promise!ServerNext]_(Promise!serverVars)
<1>0. Linked /\ RInv /\ OutInv /\ Linked' /\ OutInv'
  BY DEF WInv
<1>1. life = "serve" /\ life' = life
  BY DEF Perform, Handle
<1>2. CASE at \in Doing /\ at' \in Doing \cup {"return"} /\ UNCHANGED <<pc, request, result, client>>
  <2>1. Phase = "performing" /\ pc = "answered" /\ result[1] = "found" /\ AnswerGiven = "none"
    BY <1>0, <1>1, <1>2 DEF Linked, Phase, AnswerGiven, Doing
  <2>2. CASE at' \in Doing
    <3>1. Phase' = "performing" /\ Performed' = Performed /\ AnswerGiven' = "none"
      BY <1>1, <1>2, <2>1, <2>2 DEF Phase, Performed, AnswerGiven, Doing
    <3> QED BY <1>2, <2>1, <3>1 DEF Promise!serverVars
  <2>3. CASE at' = "return"
    <3>1. Phase' = "answered" /\ Performed' = Performed /\ Refusal' = "4xx"
      BY <1>1, <1>2, <2>1, <2>3 DEF Phase, Performed, Refusal
    <3>2. AnswerGiven' \in {"broken", "200", "500", "4xx"}
      <4>1. CASE Half(out')
        BY <3>1, <4>1 DEF AnswerGiven, StatusOf
      <4>2. CASE ~Half(out')
        <5>1. out' \in Complete
          BY <1>0, <2>3, <4>2 DEF OutInv, Whole
        <5> QED BY <3>1, <5>1, CompleteStatus DEF AnswerGiven
      <4> QED BY <4>1, <4>2
    <3> QED BY <1>2, <2>1, <3>1, <3>2 DEF Promise!ServerNext, Promise!Reply, Promise!Break
  <2> QED BY <1>2, <2>2, <2>3
<1>3. CASE Return /\ UNCHANGED <<vars, client>>
  <2>1. Phase = "answered" /\ Phase' = "answered" /\ UNCHANGED <<out, pc, result>>
    BY <1>1, <1>3 DEF Return, Phase, vars
  <2>2. UNCHANGED <<Performed, AnswerGiven>>
    BY <2>1 DEF Performed, AnswerGiven, Refusal
  <2> QED BY <1>3, <2>1, <2>2 DEF Promise!serverVars
<1>4. CASE Finish /\ UNCHANGED <<vars, client>>
  <2>1. Phase = "answered" /\ Phase' = "idle"
    BY <1>1, <1>4 DEF Finish, Phase
  <2>2. Performed' = "none" /\ AnswerGiven' = "none"
    BY <2>1 DEF Performed, AnswerGiven
  <2> QED BY <1>4, <2>1, <2>2 DEF Promise!ServerNext, Promise!Done
<1>5. CASE Handle /\ at' = "findRoute"
  <2>1. at = "handleError"
    BY <1>5 DEF Handle, AskHandler
  <2>2. Phase = "performing" /\ Phase' = "asked"
    BY <1>1, <1>5, <2>1 DEF Phase
  <2>3. AnswerGiven = "none" /\ AnswerGiven' = "none" /\ Performed' = "none"
    BY <2>2 DEF AnswerGiven, Performed
  <2>4. client' \in AnyRequest /\ client'.method = client.method
    BY <1>0, <1>5, <2>1 DEF Handle, Linked
  <2> QED BY <2>2, <2>3, <2>4 DEF Promise!ServerNext, Promise!Rewrite
<1>6. CASE Handle /\ at' # "findRoute"
  <2>1. at = "handleError" /\ at' \in {"handleError", "return"} /\ UNCHANGED <<vars, client>>
    BY <1>6 DEF Handle, AskHandler, RespondHandled, RespondHttp, Respond, NextHandler
  <2> QED BY <1>2, <2>1 DEF vars, Doing
<1>7. CASE Execute /\ UNCHANGED <<vars, client>>
  <2>1. at \in Doing /\ at' \in Doing \cup {"return"}
    BY <1>7 DEF Execute, RespondHttp, Respond, HandleError, Doing
  <2> QED BY <1>2, <1>7, <2>1 DEF vars
<1>8. CASE (ModelPartResponse \/ Serialize \/ DefaultErrorReport) /\ UNCHANGED <<vars, client>>
  <2>1. at \in Doing /\ at' \in Doing \cup {"return"}
    BY <1>8 DEF ModelPartResponse, Serialize, DefaultErrorReport, Refuse4xx, Respond, HandleError, Doing
  <2> QED BY <1>2, <1>8, <2>1 DEF vars
<1> QED BY <1>3, <1>4, <1>5, <1>6, <1>7, <1>8 DEF Perform

LEMMA StepPromise == WInv /\ WInv' /\ [WorkerNext]_workerVars => [Promise!ServerNext]_(Promise!serverVars)
<1> SUFFICES ASSUME WInv, WInv', [WorkerNext]_workerVars
             PROVE  [Promise!ServerNext]_(Promise!serverVars)
  OBVIOUS
<1>0. UNCHANGED Loaded
  BY LoadedStays
<1>1. CASE CreateAdapter \/ AddPlugin \/ Activate \/ BuildTable \/ Stop \/ RemovePlugin \/ DestroyAdapter
  BY <1>0, <1>1, StepAway
<1>2. CASE Receive \/ Parse
  BY <1>0, <1>2, StepArrives
<1>3. CASE MethodRefused \/ LookUp \/ RouteChosen
  BY <1>0, <1>3, StepAsked
<1>4. CASE Perform \/ Handle
  BY <1>0, <1>4, StepPerforms
<1>5. CASE LibraryChange \/ UNCHANGED workerVars
  <2>1. UNCHANGED <<coreVars, vars, life, client>>
    BY <1>5 DEF LibraryChange, workerVars
  <2>2. UNCHANGED <<Phase, Performed, AnswerGiven>>
    BY <2>1 DEF Phase, Performed, AnswerGiven, Refusal, coreVars, vars
  <2> QED BY <1>0, <2>1, <2>2 DEF Promise!serverVars
<1> QED BY <1>1, <1>2, <1>3, <1>4, <1>5 DEF WorkerNext, Serving

(* A worker implements Server. *)
THEOREM WorkerKeepsPromise == WorkerSpec => PromiseKept
<1>1. WInv /\ [WorkerNext]_workerVars => WInv'
  BY StepWInv
<1> QED BY <1>1, InitWInv, InitPromise, StepPromise, PTL DEF WorkerSpec, PromiseKept, Promise!ServerSpec

=============================================================================
