------------------------------- MODULE Worker -------------------------------
(***************************************************************************)
(* One worker process from start to exit: fcgi/main.cpp, the constructors  *)
(* and destructor of Core and CoreWithDefaultRouter (core/core.cpp), and   *)
(* between them the requests.  It composes Core, which leaves open what    *)
(* findRoute answers, with Router, which leaves open who asks: findRoute   *)
(* works on the request as the error handlers have left it, and process    *)
(* goes by its answer.                                                     *)
(***************************************************************************)
EXTENDS Core, Router

CONSTANTS
  Plugins,     \* names of Plugin factories, as FileSessions is one
  BadMethods,  \* what a request may have for a method: none, or no HTTP method
  MaxChanges   \* bound on the plug-in libraries loaded or unloaded while it runs

ASSUME WorkerAssumption == MaxChanges \in Nat /\ Methods \cap BadMethods = {}

VARIABLES
  life,     \* "start", "load", "build", "serve", "unload", "exited", or how it ended else
  cgi,      \* FCGX_IsCGI()
  manager,  \* the plug-ins AdHoc::PluginManager::getDefault() knows
  adapter,  \* Core::pluginAdapter: "none" (nullptr), "holding", "active" or "destroyed"
  servants, \* the plug-ins it holds
  pending,  \* the plug-ins a loop of the constructor or destructor has still to visit
  changes,  \* how often manager has changed
  client    \* the request, as its error handlers have rewritten it

pluginVars == <<cgi, manager, adapter, servants, pending, changes>>
workerVars == <<coreVars, vars, life, pluginVars, client>>

AnyRequest == [path : RequestPaths, method : Methods \cup BadMethods]

WorkerInit ==
  /\ Init /\ CoreInit
  /\ life = "start"
  /\ cgi \in BOOLEAN
  /\ manager \in SUBSET Plugins
  /\ adapter = "none" /\ servants = {} /\ pending = {}
  /\ changes = 0
  /\ client = NoRequest

-----------------------------------------------------------------------------
(* Core::Core, CoreWithDefaultRouter::CoreWithDefaultRouter.               *)

CreateAdapter ==
  /\ life = "start"
  /\ adapter' = IF manager = {} THEN "none" ELSE "holding"
  /\ pending' = manager
  /\ life' = "load"
  /\ UNCHANGED <<coreVars, vars, cgi, manager, servants, changes, client>>

(* create() of a plug-in may throw; main does not catch it. *)
AddPlugin == \E p \in pending :
  /\ life = "load"
  /\ \/ /\ servants' = servants \cup {p}
        /\ pending' = pending \ {p}
        /\ UNCHANGED life
     \/ /\ life' = "terminated"
        /\ UNCHANGED <<servants, pending>>
  /\ UNCHANGED <<coreVars, vars, cgi, manager, adapter, changes, client>>

Activate ==
  /\ life = "load" /\ pending = {}
  /\ adapter' = IF adapter = "holding" THEN "active" ELSE adapter
  /\ life' = "build"
  /\ UNCHANGED <<coreVars, vars, cgi, manager, servants, pending, changes, client>>

BuildTable ==
  /\ life = "build"
  /\ Place \/ Built
  /\ life' = IF pc' = "ready" THEN "serve" ELSE life
  /\ UNCHANGED <<coreVars, pluginVars, client>>

-----------------------------------------------------------------------------
(* main's requests.                                                        *)

(* A CGI process has the one request. *)
Receive ==
  /\ life = "serve" /\ Accept
  /\ cgi => served = 0
  /\ client' \in AnyRequest
  /\ UNCHANGED <<vars, life, pluginVars>>

(* Whoever calls findRoute, it starts anew. *)
Forget == IF pc = "answered" THEN NextRequest ELSE UNCHANGED vars

Parse ==
  /\ life = "serve" /\ Construct
  /\ life' = IF at' = "terminated" THEN "terminated" ELSE life
  /\ Forget
  /\ UNCHANGED <<pluginVars, client>>

(* getRequestMethod throws, before findRoute looks at any route. *)
MethodRefused ==
  /\ life = "serve" /\ at = "findRoute"
  /\ client.method \in BadMethods
  /\ Refuse4xx
  /\ UNCHANGED <<vars, life, pluginVars, client>>

LookUp ==
  /\ life = "serve" /\ at = "findRoute"
  /\ \/ FindRoute /\ request' = client
     \/ Scan
     \/ ScanEnd
  /\ UNCHANGED <<coreVars, life, pluginVars, client>>

(* process goes on with the route, or answers for the exception. *)
RouteChosen ==
  /\ life = "serve" /\ pc = "answered" /\ Routed
  /\ at' = "execute" <=> result[1] = "found"
  /\ UNCHANGED <<vars, life, pluginVars, client>>

Perform ==
  /\ life = "serve"
  /\ Execute \/ ModelPartResponse \/ Serialize \/ DefaultErrorReport \/ Return \/ Finish
  /\ UNCHANGED <<vars, life, pluginVars, client>>

(* Mutated form: the route the request came in for is kept for its rewrite. *)
HandleKeepsRoute ==
  /\ life = "serve" /\ AskHandler
  /\ IF at' = "findRoute"
     THEN client' \in [path : RequestPaths, method : {client.method}] /\ UNCHANGED vars
     ELSE UNCHANGED <<vars, client>>
  /\ UNCHANGED <<life, pluginVars>>

(* An error handler that answers Modified has rewritten the request's path. *)
Handle ==
  /\ life = "serve" /\ AskHandler
  /\ IF at' = "findRoute"
     THEN client' \in [path : RequestPaths, method : {client.method}] /\ Forget
     ELSE UNCHANGED <<vars, client>>
  /\ UNCHANGED <<life, pluginVars>>

(* What is executed may load or unload libraries, and plug-ins with them. *)
LibraryChange ==
  /\ life = "serve" /\ at = "execute"
  /\ changes < MaxChanges /\ changes' = changes + 1
  /\ \E p \in Plugins : manager' \in {manager \cup {p}, manager \ {p}} \ {manager}
  /\ UNCHANGED <<coreVars, vars, life, cgi, adapter, servants, pending, client>>

-----------------------------------------------------------------------------
(* Core::~Core.                                                            *)

(* The one request is over, or FCGX_Accept_r has failed. *)
Stop ==
  /\ life = "serve" /\ at = "accept"
  /\ cgi => served = 1
  /\ pending' = manager
  /\ life' = IF manager = {} THEN "exited" ELSE "unload"
  /\ UNCHANGED <<coreVars, vars, cgi, manager, adapter, servants, changes, client>>

(* No adapter (a null pointer), or NotRegisteredException out of a          *)
(* destructor: the process aborts.                                          *)
RemovePlugin == \E p \in pending :
  /\ life = "unload"
  /\ IF adapter = "none" \/ p \notin servants
     THEN life' = "aborted" /\ UNCHANGED <<servants, pending>>
     ELSE servants' = servants \ {p} /\ pending' = pending \ {p} /\ UNCHANGED life
  /\ UNCHANGED <<coreVars, vars, cgi, manager, adapter, changes, client>>

DestroyAdapter ==
  /\ life = "unload" /\ pending = {}
  /\ adapter' = "destroyed"
  /\ life' = "exited"
  /\ UNCHANGED <<coreVars, vars, cgi, manager, servants, pending, changes, client>>

-----------------------------------------------------------------------------

Serving == \/ Parse \/ MethodRefused \/ LookUp \/ RouteChosen \/ Perform \/ Handle

WorkerNext == \/ CreateAdapter \/ AddPlugin \/ Activate \/ BuildTable
              \/ Receive \/ Serving \/ LibraryChange
              \/ Stop \/ RemovePlugin \/ DestroyAdapter

WorkerSpec == WorkerInit /\ [][WorkerNext]_workerVars

(* The worker runs; that a request comes is up to the web server. *)
WorkerFairSpec == WorkerSpec /\ WF_workerVars(Serving)

-----------------------------------------------------------------------------
(* The promise kept.                                                       *)

Phase == IF life # "serve" THEN IF at = "terminated" THEN "dead" ELSE "away"
         ELSE IF at = "accept" THEN "idle"
         ELSE IF at = "construct" THEN "received"
         ELSE IF at = "findRoute" THEN "asked"
         ELSE IF at \in {"return", "finish"} THEN "answered"
         ELSE "performing"

Performed == IF Phase \in {"performing", "answered"} /\ pc = "answered" /\ result[1] = "found"
             THEN result[2] ELSE "none"

(* How a refusal of findRoute's is told apart from the other ways a request *)
(* is refused.                                                              *)
Refusal == IF pc = "answered" /\ result[1] # "found" THEN result[1] ELSE "4xx"

(* What the client makes of the output. *)
StatusOf(o, refusal) ==
  IF Half(o) THEN "broken"
  ELSE IF ~Answered(o) THEN "malformed"
  ELSE IF \E j \in 1..Len(o) : o[j] = "500" THEN "500"
  ELSE IF \E j \in 1..Len(o) : o[j] = "200" THEN "200"
  ELSE refusal

AnswerGiven == IF Phase = "answered" THEN StatusOf(out, Refusal) ELSE "none"

Promise == INSTANCE Server WITH
  Fixed <- Literals, Verbs <- Methods, Asks <- AnyRequest,
  offers <- Loaded, phase <- Phase, asked <- client,
  performed <- Performed, answer <- AnswerGiven

(* Whatever the table, the handlers and their rewrites do, the worker keeps *)
(* what Server promises: a request is performed on the first route that     *)
(* fits it as it is now, or refused with the status the routes call for,    *)
(* and answered once.                                                       *)
PromiseKept == Promise!ServerSpec

=============================================================================
