---------------------------- MODULE RouteCompiler ----------------------------
(***************************************************************************)
(* The route compiler, compile/routeCompiler.cpp: from a route of the      *)
(* configuration and the operations of the slice files it generates a      *)
(* class whose constructor fetches proxies and whose execute() fetches the *)
(* parameters, calls the operations and responds.  The model follows the   *)
(* routes of a configuration through applyDefaults and, one after another, *)
(* through processRoute, and keeps, of a class's text, which identifiers   *)
(* it declares and which it uses:                                          *)
(*   _p_n   what the request gives for parameter n, a local of execute     *)
(*   _pd_n  the default of n, _pn_n its key, _pi_n its index in the path   *)
(*   prxN   a proxy, _ar_o the pending result of operation o               *)
(* Names are numbered in the order the maps of the configuration and of    *)
(* the compiler iterate in; "", the name compile gives to the operation of *)
(* a route that has just one, comes first.                                 *)
(***************************************************************************)
EXTENDS Integers, Sequences, FiniteSets

CONSTANTS
  Names,      \* names of parameters, of a mashup's operations and members
  Operations, \* operations of interfaces
  Slices,     \* slice files
  Declares,   \* Declares[s]: the operations and structures slice file s declares
  Signature,  \* Signature[o]: the names of o's parameters
  Interface,  \* Interface[o]: the interface o belongs to
  Returns,    \* the operations that return something
  Types,      \* types a Body parameter may be declared to be a member of
  Structures, \* types of responses that mashups assemble
  MembersOf,  \* MembersOf[t]: the names of t's members
  Unknown,    \* names a configuration may give that are no operation's or type's
  Configurations, \* [routes, slices, routeBases]: routes in the order of their names
  None        \* absent

ASSUME CompilerAssumption ==
  /\ Names \subseteq Nat \ {0} /\ None \notin Nat \cup Operations \cup Types \cup Unknown \cup {"StringMap"}
  /\ Signature \in [Operations -> Seq(Names)]
  /\ Returns \subseteq Operations
  /\ "StringMap" \notin Types
  /\ Declares \in [Slices -> SUBSET (Operations \cup Structures)]
  /\ MembersOf \in [Structures -> SUBSET Names]

VARIABLES
  routes,     \* the configuration's routes, as applyDefaults changes them
  routeBases, \* the base classes the configuration describes
  units,      \* units[s]: the parsed unit of slice file s
  caught,     \* whether a caller of compile catches what it throws
  at,         \* the route in progress
  todo,       \* names the loop in progress has still to visit
  proxies,    \* proxies[i]: the number of interface i's proxy
  body,       \* the type of _pbody, or None
  bodyReads,  \* how often execute reads the request's body
  declared,   \* identifiers declared in the class and in execute
  used,       \* identifiers used
  index,      \* index[n]: the value of _pi_n
  args,       \* args[o]: what is passed for each parameter of operation o
  classes,    \* the classes written so far: bases, and numbers of routes
  cpp,        \* the output: "old", "empty", "partial", "removed", "complete", or
              \* "truncated" where a write has failed and "damaged" by what came after
  pc

vars == <<routes, routeBases, units, caught, at, todo, proxies, body, bodyReads, declared, used, index, args,
          classes, cpp, pc>>
text == <<proxies, body, bodyReads, declared, used, index, args>>
config == <<routeBases, units, caught>>
same == <<config, routes, at, classes>>

route == routes[at]

Single == 0

-----------------------------------------------------------------------------

Least(S) == CHOOSE n \in S : \A m \in S : n <= m

Put(f, x, v) == [y \in DOMAIN f \cup {x} |-> IF y = x THEN v ELSE f[y]]

(* An operation's parameter, by the name the route knows it by *)
Override(operation, p) ==
  IF p \in DOMAIN operation.paramOverrides THEN operation.paramOverrides[p] ELSE p

(* What a configuration holds, as routes.ice declares it. *)
IsMap(f, D, R) == DOMAIN f \subseteq D /\ f \in [DOMAIN f -> R]

Parameter == [source : {"URL", "Body", "QueryString", "Header", "Cookie"}, key : Names \cup {None},
              isOptional : BOOLEAN, default : BOOLEAN, type : Types \cup {None}, hasUserSource : BOOLEAN]

IsOperation(o) ==
  /\ o \in [operation : Operations \cup Unknown, paramOverrides : {o.paramOverrides}]
  /\ IsMap(o.paramOverrides, Names, Names)

IsRoute(r) ==
  /\ r \in [path : Seq([parameter : BOOLEAN, name : Names]), operation : Operations \cup Unknown \cup {None},
            operations : {r.operations}, type : Structures \cup Unknown \cup {None}, mutators : BOOLEAN,
            params : {r.params}]
  /\ IsMap(r.operations, Names \cup {Single}, {r.operations[n] : n \in DOMAIN r.operations})
  /\ \A n \in DOMAIN r.operations : IsOperation(r.operations[n])
  /\ IsMap(r.params, Names, Parameter)

ParametersOf(o) == {Signature[o][j] : j \in DOMAIN Signature[o]}

findParameters(r) ==
  UNION {{Override(r.operations[n], p) : p \in ParametersOf(r.operations[n].operation)}
           : n \in DOMAIN r.operations}

(* Where in the path {key} is: elements are counted from 0, literals too. *)
Occurrences(path, key) ==
  {j - 1 : j \in {i \in DOMAIN path : path[i].parameter /\ path[i].name = key}}

Last(S) == IF S = {} THEN -1 ELSE CHOOSE n \in S : \A m \in S : m <= n

-----------------------------------------------------------------------------

(* findOperation and findType look through the units for a name. *)
Declared(name, u) == u \in Slices /\ name \in Declares[u]
OperationFound(name) == name \in Operations /\ \E u \in DOMAIN units : Declared(name, u)
TypeFound(name) == name \in Structures /\ \E u \in DOMAIN units : Declared(name, u)

Start(c) ==
  /\ routes = c.routes /\ routeBases = c.routeBases /\ at = 1
  /\ todo = {}
  /\ proxies = <<>> /\ body = None /\ bodyReads = 0
  /\ declared = {} /\ used = {} /\ index = <<>> /\ args = <<>>
  /\ classes = <<>> /\ cpp = "old"

Init ==
  /\ \E c \in Configurations : Start(c) /\ units = [u \in c.slices |-> 1]
  /\ caught = TRUE /\ pc = "applyDefaults"

(* An exception, and what the ScopeExits and FilePtrs leave of the output.  *)
Fail(left) == pc' = "failed" /\ cpp' = left /\ UNCHANGED <<same, todo, text>>

(* The loop over todo is over, the next begins. *)
NextLoop(l, S) == todo = {} /\ pc' = l /\ todo' = S

-----------------------------------------------------------------------------
(* applyDefaults.                                                          *)

(* A route with one operation gets it as operation "".  findOperation      *)
(* throws for an operation no unit has: the output is not open yet, nor is *)
(* uDestroy set.                                                           *)
ApplyDefaults ==
  /\ pc = "applyDefaults" /\ at <= Len(routes)
  /\ LET r == IF route.operation = None THEN route
              ELSE [route EXCEPT !.operations =
                      Put(@, Single, [operation |-> route.operation, paramOverrides |-> <<>>])]
     IN IF \A n \in DOMAIN r.operations : OperationFound(r.operations[n].operation)
        THEN /\ routes' = [routes EXCEPT ![at] = r] /\ todo' = findParameters(r)
             /\ pc' = "default" /\ UNCHANGED <<config, at, text, classes, cpp>>
        ELSE pc' = "thrown" /\ UNCHANGED <<same, todo, text, cpp>>

DefaultParameter(n) == [source |-> "URL", key |-> n, isOptional |-> FALSE, default |-> FALSE,
                        type |-> None, hasUserSource |-> FALSE]

(* Mutated form: whether the path has the parameter is not asked. *)
AnySource(p) == TRUE

(* A parameter that the URL is to give has a source only if the path has it. *)
HasUserSource(p) == IF p.source = "URL" THEN Occurrences(route.path, p.key) # {} ELSE p.hasUserSource

(* One parameter of the route's operations gets its key and its source. *)
ApplyDefault ==
  /\ pc = "default" /\ todo # {}
  /\ LET n     == Least(todo)
         given == route.params[n]
         definition == IF n \notin DOMAIN route.params THEN DefaultParameter(n)
                       ELSE IF given.key = None /\ given.source # "Body" THEN [given EXCEPT !.key = n]
                       ELSE given
     IN /\ routes' = [routes EXCEPT ![at].params =
                        Put(@, n, [definition EXCEPT !.hasUserSource = HasUserSource(definition)])]
        /\ todo' = todo \ {n}
  /\ UNCHANGED <<config, at, text, classes, cpp, pc>>

NextDefaults ==
  /\ pc = "default" /\ NextLoop("applyDefaults", {}) /\ at' = at + 1
  /\ UNCHANGED <<config, routes, text, classes, cpp>>

(* compile opens the source and the header, and if it cannot open both     *)
(* leaves the one it did open, empty.                                      *)
OpenOutput ==
  /\ pc = "applyDefaults" /\ at > Len(routes)
  /\ \/ /\ pc' = "bases" /\ cpp' = "partial" /\ UNCHANGED <<config, routes, at, todo, text, classes>>
     \/ Fail(cpp) \/ Fail("empty")

(* processConfiguration: the headers, then processBases. *)
ProcessBases ==
  /\ pc = "bases" /\ pc' = "routes" /\ at' = 1
  /\ classes' = routeBases
  /\ UNCHANGED <<config, routes, todo, text, cpp>>

(* processRoute writes the head of the class of the next route. *)
ProcessRoute ==
  /\ pc = "routes" /\ at <= Len(routes)
  /\ NextLoop("proxies", DOMAIN route.operations)
  /\ classes' = Append(classes, at)
  /\ proxies' = <<>> /\ body' = None /\ bodyReads' = 0
  /\ declared' = {} /\ used' = {} /\ index' = <<>> /\ args' = <<>>
  /\ UNCHANGED <<config, routes, at, cpp>>

-----------------------------------------------------------------------------
(* processRoute: the constructor.                                          *)

(* An interface gets the next number when its first operation comes. *)
AddProxy(n) ==
  /\ LET i == Interface[route.operations[n].operation] IN
     proxies' = IF i \in DOMAIN proxies THEN proxies ELSE Put(proxies, i, Cardinality(DOMAIN proxies))
  /\ todo' = todo \ {n}
  /\ UNCHANGED <<same, body, bodyReads, declared, used, index, args, cpp, pc>>

(* Mutated form: the operations in any order. *)
InitializeProxyAnyOrder == pc = "proxies" /\ \E n \in todo : AddProxy(n)

InitializeProxy == pc = "proxies" /\ todo # {} /\ AddProxy(Least(todo))

Execute ==
  /\ pc = "proxies"
  /\ NextLoop("fetch", DOMAIN route.params)
  /\ UNCHANGED <<same, text, cpp>>

-----------------------------------------------------------------------------
(* processRoute: execute() fetches the parameters.                         *)

(* end() of the map of parameters is dereferenced. *)
Undefined == pc' = "undefined" /\ UNCHANGED <<same, todo, text, cpp>>

BodyType(p) == IF p.type = None THEN "StringMap" ELSE p.type

(* Mutated form: doneBody is not set. *)
ReadBodyAgain(p) ==
  /\ bodyReads' = bodyReads + 1
  /\ body' = IF p.key = None THEN body ELSE BodyType(p)

(* processParameterSourceBody: a parameter with a key is taken from _pbody, *)
(* read once; one without is the whole body.                                *)
ReadBody(p) ==
  /\ bodyReads' = IF p.key = None \/ body = None THEN bodyReads + 1 ELSE bodyReads
  /\ body' = IF p.key # None /\ body = None THEN BodyType(p) ELSE body

(* The identifiers an initialiser of _p_n uses: the index or the key, and   *)
(* what stands in for a value the request lacks.                            *)
Fetching(n, p) ==
  (IF p.source = "URL" THEN {<<"_pi", n>>}
   ELSE IF p.source # "Body" \/ (p.key # None /\ p.type = None) THEN {<<"_pn", n>>}
   ELSE {})
  \cup
  (IF p.isOptional \/ p.source = "URL" THEN {}
   ELSE IF p.default THEN {<<"_pd", n>>} ELSE {<<"_pn", n>>})

FetchParameter ==
  /\ pc = "fetch" /\ todo # {}
  /\ LET n == Least(todo)
         p == route.params[n]
     IN IF ~p.hasUserSource
        THEN todo' = todo \ {n} /\ UNCHANGED <<same, text, cpp, pc>>
        ELSE IF n \notin findParameters(route) THEN Undefined
        ELSE /\ IF p.source = "Body" THEN ReadBody(p) ELSE UNCHANGED <<body, bodyReads>>
             /\ declared' = declared \cup {<<"_p", n>>}
             /\ used' = used \cup Fetching(n, p)
             /\ todo' = todo \ {n}
             /\ UNCHANGED <<same, proxies, index, args, cpp, pc>>

Fetched ==
  /\ pc = "fetch"
  /\ IF route.operation = None
     THEN NextLoop("mashup", DOMAIN route.operations)
     ELSE NextLoop("single", {})
  /\ UNCHANGED <<same, text, cpp>>

-----------------------------------------------------------------------------
(* processRoute: execute() calls the operations and responds.              *)

(* _p_ or _pd_, by the route's parameter q, and always with the name p. *)
Argument(q, p) == IF route.params[q].hasUserSource THEN <<"_p", p>> ELSE <<"_pd", p>>

Calls(n, arguments) ==
  /\ args' = Put(args, n, arguments)
  /\ used' = used \cup {arguments[p] : p \in DOMAIN arguments}

Mutating == IF route.mutators THEN {<<"_responseModel", 0>>} ELSE {}

(* The proxy of the one operation is prx0. *)
AddSingleOperation ==
  /\ pc = "single"
  /\ LET o == route.operation IN
     /\ args' = Put(args, Single, [p \in ParametersOf(o) |-> Argument(p, p)])
     /\ used' = used \cup {Argument(p, p) : p \in ParametersOf(o)} \cup Mutating
     /\ declared' = declared \cup IF o \in Returns THEN {<<"_responseModel", 0>>} ELSE {}
  /\ pc' = "declare" /\ todo' = DOMAIN route.params
  /\ UNCHANGED <<same, proxies, body, bodyReads, index, cpp>>

AddMashupOperation ==
  /\ pc = "mashup" /\ todo # {}
  /\ LET n == Least(todo)
         operation == route.operations[n]
     IN /\ Calls(n, [p \in ParametersOf(operation.operation) |-> Argument(Override(operation, p), p)])
        /\ declared' = declared \cup {<<"_ar", n>>}
        /\ todo' = todo \ {n}
  /\ UNCHANGED <<same, proxies, body, bodyReads, index, cpp, pc>>

(* A member of the mashup's type is the result of the operation, or else    *)
(* the parameter, of its name.                                              *)
Assemble ==
  /\ NextLoop("declare", DOMAIN route.params)
  /\ declared' = declared \cup {<<"_responseModel", 0>>}
  /\ used' = used \cup Mutating \cup
       {IF m \in DOMAIN route.operations THEN <<"_ar", m>> ELSE <<"_p", m>> : m \in MembersOf[route.type]}
  /\ UNCHANGED <<same, proxies, body, bodyReads, index, args, cpp>>

(* Mutated form: the output stays when findType throws. *)
AssembleResponseLeft ==
  /\ pc = "mashup" /\ todo = {}
  /\ IF TypeFound(route.type) THEN Assemble ELSE Fail("partial")

(* findType throws for a type no slice file has, and outClose removes the   *)
(* output.  Unless nothing catches: then the program is terminated where it *)
(* threw, and (with g++'s and clang++'s runtime) nothing is cleaned up.     *)
AssembleResponse ==
  /\ pc = "mashup" /\ todo = {}
  /\ IF TypeFound(route.type) THEN Assemble ELSE Fail(IF caught THEN "removed" ELSE "partial")

-----------------------------------------------------------------------------
(* processRoute: the private members; processConfiguration ends.           *)

(* Mutated form: a default only beside a source. *)
MembersSourced(n, p) ==
  IF ~p.hasUserSource THEN {}
  ELSE {<<IF p.source = "URL" THEN "_pi" ELSE "_pn", n>>} \cup IF p.default THEN {<<"_pd", n>>} ELSE {}

Members(n, p) ==
  (IF p.hasUserSource THEN {<<IF p.source = "URL" THEN "_pi" ELSE "_pn", n>>} ELSE {})
  \cup (IF p.default THEN {<<"_pd", n>>} ELSE {})

DeclareParameter ==
  /\ pc = "declare" /\ todo # {}
  /\ LET n == Least(todo)
         p == route.params[n]
     IN IF p.default /\ n \notin findParameters(route) THEN Undefined
        ELSE /\ declared' = declared \cup Members(n, p)
             /\ index' = IF p.hasUserSource /\ p.source = "URL"
                         THEN Put(index, n, Last(Occurrences(route.path, p.key))) ELSE index
             /\ todo' = todo \ {n}
             /\ UNCHANGED <<same, proxies, body, bodyReads, used, args, cpp, pc>>

EndRoute ==
  /\ pc = "declare" /\ NextLoop("routes", {}) /\ at' = at + 1
  /\ UNCHANGED <<config, routes, classes, text, cpp>>

(* Every class is written, and registered after them, and the files are     *)
(* closed.  What fputs, fprintbf and fclose say of it is not looked at.      *)
EndConfiguration ==
  /\ pc = "routes" /\ at > Len(routes)
  /\ pc' = "done" /\ cpp' \in {"complete", "truncated"}
  /\ UNCHANGED <<config, routes, at, todo, text, classes>>

-----------------------------------------------------------------------------

Next == \/ ApplyDefaults \/ ApplyDefault \/ NextDefaults
        \/ OpenOutput \/ ProcessBases \/ ProcessRoute \/ InitializeProxy \/ Execute \/ FetchParameter \/ Fetched
        \/ AddSingleOperation \/ AddMashupOperation \/ AssembleResponse
        \/ DeclareParameter \/ EndRoute \/ EndConfiguration

Spec == Init /\ [][Next]_vars

-----------------------------------------------------------------------------
(* Properties.                                                             *)

(* The class of a route is complete. *)
Generated == pc = "declare" /\ todo = {}

Params == DOMAIN route.params

(* Every name a route gives a parameter for is one of its operations', and  *)
(* each of those has a source or a default.                                 *)
Provided == /\ Params \subseteq findParameters(route)
            /\ \A n \in Params : route.params[n].hasUserSource \/ route.params[n].default

(* A mashup's members are its operations or parameters from the request,    *)
(* and a mutator has a response to work on.                                 *)
Answerable ==
  /\ route.operation = None => \A m \in MembersOf[route.type] :
       m \in DOMAIN route.operations \/ (m \in Params /\ route.params[m].hasUserSource)
  /\ route.mutators /\ route.operation # None => route.operation \in Returns

NoOverrides == \A n \in DOMAIN route.operations : DOMAIN route.operations[n].paramOverrides = {}

(* For a route whose parameters all come from somewhere and whose response  *)
(* can be made, without overrides, the class generated declares every       *)
(* identifier it uses, and no iterator runs past the end on the way.        *)
SymbolsDeclared == (Generated \/ pc = "undefined") /\ Provided /\ Answerable /\ NoOverrides =>
  Generated /\ used \subseteq declared

(* The index a generated class looks a URL parameter up by is that of a     *)
(* path element {key} of its own path: on a request the router matched with *)
(* that path getURLParamStr never finds its index out of range.             *)
UrlIndexInPath == Generated => \A n \in DOMAIN index :
  index[n] \in Occurrences(route.path, route.params[n].key)

(* execute() takes keyed body parameters from one reading of the body,      *)
(* however many there are: the stream cannot be read twice.                 *)
BodyReadOnce ==
  pc \in {"fetch", "single", "mashup", "declare"} /\ (\A n \in Params : route.params[n].source = "Body" => route.params[n].key # None) => bodyReads <= 1

(* The proxy that the one operation of a route is called on, prx0, is that  *)
(* of its own interface, even if the route lists other operations as well.  *)
SingleOnItsProxy == Generated /\ route.operation # None =>
  proxies[Interface[route.operation]] = 0

(* A compilation that fails leaves its caller no half-written source file   *)
(* that could be taken for a finished one, however many of the classes were *)
(* written already.                                                         *)
NoHalfOutput == pc \in {"failed", "thrown"} /\ caught => cpp # "partial"

(* Every operation of a mashup is passed what the route calls its           *)
(* parameter: the parameter that paramOverrides names, if it names one.     *)
OverridesHonoured == Generated => \A n \in DOMAIN args : \A p \in DOMAIN args[n] :
  args[n][p][2] = Override(route.operations[n], p)

=============================================================================
