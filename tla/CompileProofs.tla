---------------------------- MODULE CompileProofs ----------------------------
(***************************************************************************)
(* What a compilation leaves behind, for any configuration, slice files    *)
(* and command line.  OutputInv says what the output is worth at each      *)
(* program counter; ClassesInv that after k routes the classes are the     *)
(* base classes and then routes 1 to k, which at the loop's end is all of  *)
(* them; StatusInv what an exit status said when it was set.               *)
(* AppliedInv says what applyDefaults has given the routes before the one  *)
(* in progress, and ClassInv what is in the class being written for the    *)
(* names that the loop in progress has visited.  UnitsInv relates the map  *)
(* of units to all those that were created.                                *)
(***************************************************************************)
EXTENDS Compile, SequenceTheorems, FiniteSetTheorems, WellFoundedInduction, TLAPS

(* The output is not open yet. *)
Before == {"main", "loadConfiguration", "loadUnits", "applyDefaults", "default"}

OutputInv ==
  /\ pc \in Before => cpp = "old"
  /\ pc \in {"failed", "thrown"} => cpp \notin Generates /\ (caught => cpp # "partial")

LEMMA InitOutputInv == CallInit => OutputInv
  BY DEF CallInit, Start, OutputInv, Before

LEMMA StepOutputInv == OutputInv /\ [CallNext]_<<vars, callVars>> => OutputInv'
<1> SUFFICES ASSUME OutputInv, [CallNext]_<<vars, callVars>> PROVE OutputInv'
  OBVIOUS
<1> USE DEF OutputInv, Before, Generates
<1>1. CASE Main \/ LoadConfiguration \/ LoadUnit \/ UnitsLoaded
  BY <1>1 DEF Main, Exit, LoadConfiguration, LoadUnit, LoadFails, UnitsLoaded, same, config
<1>2. CASE DestroyUnits \/ Terminate \/ PostProcess
  BY <1>2 DEF DestroyUnits, Terminate, PostProcess, Exit, same, config
<1>3. CASE CompileStep
  <2>1. CASE ApplyDefaults \/ ApplyDefault \/ NextDefaults
    BY <2>1 DEF ApplyDefaults, ApplyDefault, NextDefaults, NextLoop, same, config
  <2>2. CASE OpenOutput \/ ProcessBases \/ ProcessRoute \/ EndRoute \/ EndConfiguration
    BY <2>2 DEF OpenOutput, Fail, ProcessBases, ProcessRoute, EndRoute, EndConfiguration, NextLoop, same, config
  <2>3. CASE InitializeProxy \/ Execute \/ FetchParameter \/ Fetched
    BY <2>3 DEF InitializeProxy, AddProxy, Execute, FetchParameter, Undefined, Fetched, NextLoop, same, config
  <2>4. CASE AddSingleOperation \/ AddMashupOperation \/ DeclareParameter
    BY <2>4 DEF AddSingleOperation, AddMashupOperation, DeclareParameter, Undefined, same, config
  <2>5. CASE AssembleResponse
    BY <2>5 DEF AssembleResponse, Assemble, NextLoop, Fail, same, config
  <2> QED BY <1>3, <2>1, <2>2, <2>3, <2>4, <2>5 DEF CompileStep, Next
<1>4. CASE UNCHANGED <<vars, callVars>>
  BY <1>4 DEF vars
<1> QED BY <1>1, <1>2, <1>3, <1>4 DEF CallNext

(* A compilation that fails leaves a caller that catches no half-written    *)
(* output: routeCompiler.cpp's outClose removes what was being written.     *)
THEOREM FailureLeavesNoHalf == CallSpec => []NoHalfOutput
<1>1. OutputInv => NoHalfOutput
  BY DEF OutputInv, NoHalfOutput
<1> QED BY <1>1, InitOutputInv, StepOutputInv, PTL DEF CallSpec

-----------------------------------------------------------------------------

(* Within the turn of a route. *)
Inner == {"proxies", "fetch", "single", "mashup", "declare"}

(* What is written after k routes. *)
Classes(k) == routeBases \o [n \in 1..k |-> n]

ClassesInv ==
  /\ pc = "routes" => at \in 1..(Len(routes) + 1) /\ classes = Classes(at - 1)
  /\ pc \in Inner => at \in 1..Len(routes) /\ classes = Classes(at)
  /\ pc \in {"done", "compiled"} => cpp \in Generates /\ classes = Classes(Len(routes))

StatusInv ==
  /\ pc # "exited" => status = None
  /\ pc = "exited" => ZeroMeansCompiled

ListsInv == IsList(routes) /\ IsList(routeBases)

CompileInv == OutputInv /\ ListsInv /\ ClassesInv /\ StatusInv

(* Sequences: a function on 1..n is one, and one with an element changed    *)
(* still is.                                                                *)
LEMMA FunctionIsSeq ==
  ASSUME NEW S, NEW n \in Nat, NEW f \in [1..n -> S]
  PROVE  f \in Seq(S)
  OBVIOUS

LEMMA ListExcept ==
  ASSUME NEW s, IsList(s), NEW j, NEW e
  PROVE  IsList([s EXCEPT ![j] = e])
<1> DEFINE S == {s[i] : i \in DOMAIN s} \cup {e}
           t == [s EXCEPT ![j] = e]
<1>1. s \in Seq(S) /\ DOMAIN s = 1..Len(s) /\ Len(s) \in Nat
  BY SeqMonotonic, LenProperties DEF IsList
<1>2. t \in [1..Len(s) -> {t[i] : i \in DOMAIN t}]
  BY <1>1
<1>3. t \in Seq({t[i] : i \in DOMAIN t})
  <2> HIDE DEF t
  <2> QED BY <1>1, <1>2, FunctionIsSeq
<1> QED BY <1>3 DEF IsList

(* No route, and one route more. *)
LEMMA ClassesNone == IsList(routeBases) => Classes(0) = routeBases
  BY DEF IsList, Classes

LEMMA ClassesAppend ==
  ASSUME IsList(routeBases), NEW k \in Nat
  PROVE  Append(Classes(k), k + 1) = Classes(k + 1)
<1> DEFINE S == {routeBases[j] : j \in DOMAIN routeBases} \cup Nat
<1>1. routeBases \in Seq(S)
  BY SeqMonotonic DEF IsList
<1>2. [n \in 1..k |-> n] \in Seq(S) /\ [n \in 1..(k + 1) |-> n] \in Seq(S)
  OBVIOUS
<1>3. [n \in 1..(k + 1) |-> n] = [n \in 1..k |-> n] \o <<k + 1>>
  BY <1>2
<1>4. <<k + 1>> \in Seq(S)
  OBVIOUS
<1>5. Classes(k + 1) = Classes(k) \o <<k + 1>>
  BY <1>1, <1>2, <1>3, <1>4, ConcatAssociative DEF Classes
<1>6. Classes(k) \in Seq(S)
  BY <1>1, <1>2, ConcatProperties DEF Classes
<1> QED BY <1>4, <1>5, <1>6

-----------------------------------------------------------------------------
(* The invariant, one part after another.                                  *)

LEMMA InitCompileInv == CallInit => CompileInv
<1> SUFFICES ASSUME CallInit PROVE CompileInv
  OBVIOUS
<1>1. PICK c \in Cases : routes = c.configuration.routes /\ routeBases = c.configuration.routeBases
  BY DEF CallInit, Start
<1>2. ListsInv
  BY <1>1, CompileAssumption DEF ListsInv
<1>3. pc \in {"main", "loadConfiguration"} /\ status = None
  BY DEF CallInit
<1> QED BY <1>2, <1>3, InitOutputInv DEF CompileInv, ClassesInv, StatusInv, Inner

LEMMA StepLists == ListsInv /\ [CallNext]_<<vars, callVars>> => ListsInv'
<1> SUFFICES ASSUME ListsInv, [CallNext]_<<vars, callVars>> PROVE ListsInv'
  OBVIOUS
<1> USE DEF ListsInv
<1>1. CASE Main \/ LoadConfiguration \/ LoadUnit \/ UnitsLoaded \/ DestroyUnits \/ Terminate \/ PostProcess
  BY <1>1 DEF Main, LoadConfiguration, LoadUnit, UnitsLoaded, DestroyUnits, Terminate, PostProcess, same, config
<1>2. CASE ApplyDefaults
  <2>1. routes' = routes \/ \E e : routes' = [routes EXCEPT ![at] = e]
    BY <1>2 DEF ApplyDefaults, same
  <2>2. routeBases' = routeBases
    BY <1>2 DEF ApplyDefaults, same, config
  <2> QED BY <2>1, <2>2, ListExcept
<1>3. CASE ApplyDefault
  <2>1. PICK e : routes' = [routes EXCEPT ![at] = e]
    BY <1>3 DEF ApplyDefault
  <2>2. routeBases' = routeBases
    BY <1>3 DEF ApplyDefault, config
  <2>3. IsList([routes EXCEPT ![at] = e])
    BY ListExcept
  <2> QED BY <2>1, <2>2, <2>3 DEF IsList
<1>4. CASE NextDefaults \/ OpenOutput \/ ProcessBases \/ ProcessRoute \/ InitializeProxy \/ Execute
  BY <1>4 DEF NextDefaults, OpenOutput, Fail, ProcessBases, ProcessRoute, InitializeProxy, AddProxy, Execute, same, config
<1>5. CASE FetchParameter \/ Fetched \/ AddSingleOperation \/ AddMashupOperation
  BY <1>5 DEF FetchParameter, Undefined, Fetched, AddSingleOperation, AddMashupOperation, same, config
<1>6. CASE AssembleResponse \/ DeclareParameter \/ EndRoute \/ EndConfiguration
  BY <1>6 DEF AssembleResponse, Assemble, Fail, DeclareParameter, Undefined, EndRoute, EndConfiguration, same, config
<1>7. CASE UNCHANGED <<vars, callVars>>
  BY <1>7 DEF vars
<1> QED BY <1>1, <1>2, <1>3, <1>4, <1>5, <1>6, <1>7 DEF CallNext, CompileStep, Next

LEMMA StepClasses == ListsInv /\ ClassesInv /\ [CallNext]_<<vars, callVars>> => ClassesInv'
<1> SUFFICES ASSUME ListsInv, ClassesInv, [CallNext]_<<vars, callVars>> PROVE ClassesInv'
  OBVIOUS
<1>0. Len(routes) \in Nat
  BY LenProperties DEF ListsInv, IsList
<1>1. CASE Main \/ LoadConfiguration \/ LoadUnit \/ UnitsLoaded
  BY <1>1 DEF Main, Exit, LoadConfiguration, LoadUnit, LoadFails, UnitsLoaded, ClassesInv, Inner
<1>2. CASE DestroyUnits \/ Terminate \/ PostProcess
  BY <1>2 DEF DestroyUnits, Terminate, PostProcess, Exit, same, config, ClassesInv, Classes, Inner
<1>3. CASE ApplyDefaults \/ ApplyDefault \/ NextDefaults \/ OpenOutput
  BY <1>3 DEF ApplyDefaults, ApplyDefault, NextDefaults, NextLoop, OpenOutput, Fail, ClassesInv, Inner
<1>4. CASE ProcessBases
  <2>1. pc' = "routes" /\ at' = 1 /\ classes' = routeBases /\ UNCHANGED <<routes, routeBases>>
    BY <1>4 DEF ProcessBases, config
  <2>2. classes' = Classes(0)'
    BY <2>1, ClassesNone DEF ListsInv, Classes
  <2> QED BY <1>0, <2>1, <2>2 DEF ClassesInv, Inner
<1>5. CASE ProcessRoute
  <2>1. /\ pc = "routes" /\ at <= Len(routes) /\ pc' = "proxies"
        /\ classes' = Append(classes, at) /\ UNCHANGED <<routes, routeBases, at>>
    BY <1>5 DEF ProcessRoute, NextLoop, config
  <2>2. at \in 1..Len(routes) /\ classes = Classes(at - 1)
    BY <1>0, <2>1 DEF ClassesInv
  <2>3. at - 1 \in Nat /\ (at - 1) + 1 = at
    BY <1>0, <2>2
  <2>4. Append(Classes(at - 1), (at - 1) + 1) = Classes((at - 1) + 1)
    BY <2>3, ClassesAppend DEF ListsInv
  <2>5. classes' = Classes(at)
    BY <2>1, <2>2, <2>3, <2>4
  <2> QED BY <2>1, <2>2, <2>5 DEF ClassesInv, Classes, Inner
<1>6. CASE InitializeProxy \/ Execute \/ FetchParameter \/ Fetched
  BY <1>6 DEF InitializeProxy, AddProxy, Execute, FetchParameter, Undefined, Fetched, NextLoop, same, config,
              ClassesInv, Classes, Inner
<1>7. CASE AddSingleOperation \/ AddMashupOperation
  BY <1>7 DEF AddSingleOperation, AddMashupOperation, same, config, ClassesInv, Classes, Inner
<1>8. CASE AssembleResponse \/ DeclareParameter
  BY <1>8 DEF AssembleResponse, Assemble, NextLoop, Fail, DeclareParameter, Undefined, same, config, ClassesInv, Classes, Inner
<1>9. CASE EndRoute
  <2>1. pc = "declare" /\ pc' = "routes" /\ at' = at + 1 /\ UNCHANGED <<routes, routeBases, classes>>
    BY <1>9 DEF EndRoute, NextLoop, config
  <2>2. at \in 1..Len(routes) /\ classes = Classes(at)
    BY <2>1 DEF ClassesInv, Inner
  <2>3. at' - 1 = at
    BY <1>0, <2>1, <2>2
  <2> QED BY <1>0, <2>1, <2>2, <2>3 DEF ClassesInv, Classes, Inner
<1>10. CASE EndConfiguration
  <2>1. /\ pc = "routes" /\ at > Len(routes) /\ pc' = "done" /\ cpp' \in Generates
        /\ UNCHANGED <<routes, routeBases, classes>>
    BY <1>10 DEF EndConfiguration, config, Generates
  <2>2. at - 1 = Len(routes) /\ classes = Classes(at - 1)
    BY <1>0, <2>1 DEF ClassesInv
  <2> QED BY <2>1, <2>2 DEF ClassesInv, Classes, Inner
<1>11. CASE UNCHANGED <<vars, callVars>>
  BY <1>11 DEF vars, ClassesInv, Classes, Inner
<1> QED BY <1>1, <1>2, <1>3, <1>4, <1>5, <1>6, <1>7, <1>8, <1>9, <1>10, <1>11 DEF CallNext, CompileStep, Next

LEMMA StepStatus == CompileInv /\ [CallNext]_<<vars, callVars>> => StatusInv'
<1> SUFFICES ASSUME CompileInv, [CallNext]_<<vars, callVars>> PROVE StatusInv'
  OBVIOUS
<1> USE DEF CompileInv
<1>0. None \notin Nat /\ Terminated \in Nat
  BY CompilerAssumption DEF Terminated
<1>1. CASE Main
  <2>1. pc = "main" /\ cpp = "old" /\ cpp' = cpp /\ status = None
    BY <1>1 DEF Main, OutputInv, StatusInv, Before
  <2>2. \/ pc' = "exited" /\ status' \in {1, Terminated}
        \/ pc' = "loadConfiguration" /\ status' = status
    BY <1>1 DEF Main, Exit
  <2> QED BY <2>1, <2>2 DEF StatusInv, ZeroMeansCompiled, Terminated, Generates
<1>2. CASE LoadConfiguration \/ LoadUnit \/ UnitsLoaded \/ DestroyUnits
  BY <1>2 DEF LoadConfiguration, LoadUnit, LoadFails, UnitsLoaded, DestroyUnits, callVars, StatusInv
<1>3. CASE Terminate
  <2>1. cpp' = cpp /\ cpp \notin Generates /\ status' = Terminated /\ pc' = "exited"
    BY <1>3 DEF Terminate, Exit, OutputInv
  <2> QED BY <2>1 DEF StatusInv, ZeroMeansCompiled, Terminated
<1>4. CASE PostProcess
  <2>1. /\ pc = "compiled" /\ pc' = "exited" /\ UNCHANGED <<classes, routes, routeBases, options>>
        /\ ~options.post => status' = 0 /\ cpp' = cpp
        /\ options.post => cpp' \in {cpp, "damaged"}
    BY <1>4 DEF PostProcess, Exit, same, config
  <2>2. cpp \in Generates /\ classes = Classes(Len(routes)) /\ DOMAIN routes = 1..Len(routes)
    BY <2>1, LenProperties DEF ClassesInv, ListsInv, IsList
  <2> QED BY <2>1, <2>2 DEF StatusInv, ZeroMeansCompiled, Classes, Terminated
<1>5. CASE CompileStep
  <2>1. UNCHANGED callVars /\ pc # "exited" /\ pc' # "exited"
    <3>1. CASE ApplyDefaults \/ ApplyDefault \/ NextDefaults \/ OpenOutput \/ ProcessBases \/ ProcessRoute
      BY <1>5, <3>1 DEF CompileStep, ApplyDefaults, ApplyDefault, NextDefaults, NextLoop, OpenOutput, Fail, ProcessBases, ProcessRoute
    <3>2. CASE InitializeProxy \/ Execute \/ FetchParameter \/ Fetched \/ AddSingleOperation \/ AddMashupOperation
      BY <1>5, <3>2 DEF CompileStep, InitializeProxy, AddProxy, Execute, FetchParameter, Undefined, Fetched, NextLoop, AddSingleOperation, AddMashupOperation
    <3>3. CASE AssembleResponse \/ DeclareParameter \/ EndRoute \/ EndConfiguration
      BY <1>5, <3>3 DEF CompileStep, AssembleResponse, Assemble, NextLoop, Fail, DeclareParameter, Undefined, EndRoute, EndConfiguration
    <3> QED BY <1>5, <3>1, <3>2, <3>3 DEF CompileStep, Next
  <2> QED BY <2>1 DEF StatusInv, callVars
<1>6. CASE UNCHANGED <<vars, callVars>>
  BY <1>6 DEF vars, callVars, StatusInv, ZeroMeansCompiled
<1> QED BY <1>1, <1>2, <1>3, <1>4, <1>5, <1>6 DEF CallNext

(* With exit status 0 every class of the configuration was generated, and   *)
(* the output is of it, for whatever a failed write or a post-processor     *)
(* leaves of it; after the usage or a termination it is not, however far    *)
(* main and compile got.                                                    *)
THEOREM ExitStatusTells == CallSpec => []ZeroMeansCompiled
<1>1. CompileInv /\ [CallNext]_<<vars, callVars>> => CompileInv'
  BY StepOutputInv, StepLists, StepClasses, StepStatus DEF CompileInv
<1>2. CompileInv => ZeroMeansCompiled
  <2>1. None # 0 /\ None # 1 /\ None # Terminated
    BY CompilerAssumption DEF Terminated
  <2>2. status = None => ZeroMeansCompiled
    BY <2>1 DEF ZeroMeansCompiled
  <2> QED BY <2>2 DEF CompileInv, StatusInv
<1> QED BY <1>1, <1>2, InitCompileInv, PTL DEF CallSpec


-----------------------------------------------------------------------------
(* The routes and what applyDefaults makes of them.                        *)

RoutesInv == ListsInv /\ \A k \in DOMAIN routes : IsRoute(routes[k])

LEMMA LeastOfSome ==
  ASSUME NEW S, S \subseteq Nat, S # {}
  PROVE  Least(S) \in S /\ \A m \in S : Least(S) <= m
<1> DEFINE Less == OpToRel(<, Nat)
<1>1. IsWellFoundedOn(Less, Nat)
  BY NatLessThanWellFounded
<1>2. \A x, y \in Nat : <<y, x>> \in Less <=> y < x
  BY DEF OpToRel
<1> HIDE DEF Less
<1>3. PICK x \in S : \A y \in S : ~(<<y, x>> \in Less)
  BY <1>1, WFMin
<1>4. \A m \in S : x <= m
  <2>1. \A m \in S : ~(m < x) /\ m \in Nat /\ x \in Nat
    BY <1>2, <1>3
  <2> QED BY <2>1
<1> QED BY <1>4 DEF Least

LEMMA MapPut ==
  ASSUME NEW f, NEW D, NEW R, IsMap(f, D, R), NEW x \in D, NEW v \in R
  PROVE  IsMap(Put(f, x, v), D, R)
  BY DEF IsMap, Put

(* The parameters of operations that were found are names. *)
LEMMA ParametersAreNames ==
  ASSUME NEW r, IsRoute(r), \A n \in DOMAIN r.operations : r.operations[n].operation \in Operations
  PROVE  findParameters(r) \subseteq Names
<1>1. ASSUME NEW n \in DOMAIN r.operations, NEW p \in ParametersOf(r.operations[n].operation)
      PROVE  Override(r.operations[n], p) \in Names
  <2>1. p \in Names
    BY <1>1, CompilerAssumption DEF ParametersOf
  <2>2. IsMap(r.operations[n].paramOverrides, Names, Names)
    BY DEF IsRoute, IsOperation
  <2> QED BY <2>1, <2>2 DEF Override, IsMap
<1> QED BY <1>1 DEF findParameters

(* A route that was given its operation, all of whose operations are found; *)
(* and of which the parameters S have their sources.                        *)
Found(r) ==
  /\ r.operation # None => Single \in DOMAIN r.operations /\ r.operations[Single].operation = r.operation
  /\ \A n \in DOMAIN r.operations : r.operations[n].operation \in Operations

Sourced(r, S) ==
  /\ S \subseteq DOMAIN r.params
  /\ \A n \in S : r.params[n].source = "URL" /\ r.params[n].hasUserSource =>
       Occurrences(r.path, r.params[n].key) # {}

Ready(r) == Found(r) /\ Sourced(r, findParameters(r))

AppliedInv ==
  /\ pc \in {"main", "loadConfiguration", "loadUnits"} => at = 1
  /\ pc = "applyDefaults" => at \in 1..(Len(routes) + 1) /\ \A k \in 1..(at - 1) : Ready(routes[k])
  /\ pc = "default" =>
       /\ at \in 1..Len(routes) /\ \A k \in 1..(at - 1) : Ready(routes[k])
       /\ Found(route) /\ todo \subseteq findParameters(route)
       /\ Sourced(route, findParameters(route) \ todo)
  /\ pc \in {"bases", "routes"} \cup Inner => \A k \in DOMAIN routes : Ready(routes[k])

LEMMA InitRoutesInv == CallInit => RoutesInv /\ AppliedInv
<1> SUFFICES ASSUME CallInit PROVE RoutesInv /\ AppliedInv
  OBVIOUS
<1>1. PICK c \in Cases : routes = c.configuration.routes /\ routeBases = c.configuration.routeBases /\ at = 1
  BY DEF CallInit, Start
<1>2. pc \in {"main", "loadConfiguration"}
  BY DEF CallInit
<1> QED BY <1>1, <1>2, CompileAssumption DEF RoutesInv, ListsInv, AppliedInv, Inner

LEMMA RouteFields ==
  ASSUME NEW r, IsRoute(r)
  PROVE  /\ DOMAIN r = {"path", "operation", "operations", "type", "mutators", "params"}
         /\ r.path \in Seq([parameter : BOOLEAN, name : Names])
         /\ r.operation \in Operations \cup Unknown \cup {None} /\ r.type \in Structures \cup Unknown \cup {None}
         /\ IsMap(r.params, Names, Parameter) /\ DOMAIN r.operations \subseteq Names \cup {Single}
  BY DEF IsRoute, IsMap

(* "" is put among the operations of a route that has just one. *)
LEMMA OperationPut ==
  ASSUME NEW r, IsRoute(r), r.operation # None,
         NEW q, q = [r EXCEPT !.operations = Put(@, Single, [operation |-> r.operation, paramOverrides |-> <<>>])]
  PROVE  /\ IsRoute(q) /\ q.operation = r.operation
         /\ Single \in DOMAIN q.operations /\ q.operations[Single].operation = q.operation
<1> DEFINE o == [operation |-> r.operation, paramOverrides |-> <<>>]
           os == Put(r.operations, Single, o)
<1>1. IsOperation(o)
  <2>1. IsMap(<<>>, Names, Names)
    BY DEF IsMap
  <2> QED BY <2>1, RouteFields DEF IsOperation
<1>2. DOMAIN os = DOMAIN r.operations \cup {Single} /\ os[Single] = o
      /\ \A n \in DOMAIN os : n # Single => n \in DOMAIN r.operations /\ os[n] = r.operations[n]
  BY DEF Put
<1>3. \A n \in DOMAIN os : IsOperation(os[n])
  <2> HIDE DEF os, o
  <2> QED BY <1>1, <1>2 DEF IsRoute
<1>4. IsMap(os, Names \cup {Single}, {os[n] : n \in DOMAIN os})
  BY RouteFields DEF IsMap, Put
<1>5. o.operation = r.operation
  OBVIOUS
<1>6. q = [r EXCEPT !.operations = os]
  OBVIOUS
<1> HIDE DEF os, o
<1>7. /\ q.path = r.path /\ q.operation = r.operation /\ q.operations = os /\ q.type = r.type
      /\ q.mutators = r.mutators /\ q.params = r.params
  BY <1>6, RouteFields
<1>8. q \in [path : Seq([parameter : BOOLEAN, name : Names]), operation : Operations \cup Unknown \cup {None},
            operations : {q.operations}, type : Structures \cup Unknown \cup {None}, mutators : BOOLEAN,
            params : {q.params}]
  BY <1>6 DEF IsRoute
<1>9. IsMap(q.params, Names, Parameter)
  BY <1>7 DEF IsRoute
<1>10. IsRoute(q)
  BY <1>3, <1>4, <1>7, <1>8, <1>9 DEF IsRoute
<1> QED BY <1>2, <1>5, <1>7, <1>10

(* A parameter is put among those of a route. *)
LEMMA ParameterPut ==
  ASSUME NEW r, IsRoute(r), NEW n \in Names, NEW d \in Parameter,
         NEW q, q = [r EXCEPT !.params = Put(@, n, d)]
  PROVE  /\ IsRoute(q) /\ q.params = Put(r.params, n, d) /\ q.path = r.path
         /\ q.operation = r.operation /\ q.operations = r.operations
<1> DEFINE ps == Put(r.params, n, d)
<1>1. IsMap(ps, Names, Parameter)
  BY MapPut, RouteFields
<1>2. q = [r EXCEPT !.params = ps]
  OBVIOUS
<1> HIDE DEF ps
<1>3. /\ q.path = r.path /\ q.operation = r.operation /\ q.operations = r.operations /\ q.type = r.type
      /\ q.mutators = r.mutators /\ q.params = ps
  BY <1>2, RouteFields
<1>4. q \in [path : Seq([parameter : BOOLEAN, name : Names]), operation : Operations \cup Unknown \cup {None},
            operations : {q.operations}, type : Structures \cup Unknown \cup {None}, mutators : BOOLEAN,
            params : {q.params}]
  BY <1>2 DEF IsRoute
<1>5. /\ IsMap(q.operations, Names \cup {Single}, {q.operations[m] : m \in DOMAIN q.operations})
      /\ \A m \in DOMAIN q.operations : IsOperation(q.operations[m])
  BY <1>3, Zenon DEF IsRoute
<1> QED BY <1>1, <1>3, <1>4, <1>5 DEF IsRoute, ps

(* A step of applyDefaults changes the route in progress alone. *)
LEMMA OperationGiven ==
  ASSUME RoutesInv, AppliedInv, ApplyDefaults, pc' = "default"
  PROVE  \E q : /\ routes' = [routes EXCEPT ![at] = q] /\ at' = at /\ at \in DOMAIN routes
                /\ IsRoute(q) /\ Found(q) /\ todo' = findParameters(q)
<1> DEFINE r == IF route.operation = None THEN route
                ELSE [route EXCEPT !.operations =
                        Put(@, Single, [operation |-> route.operation, paramOverrides |-> <<>>])]
<1>1. /\ \A n \in DOMAIN r.operations : OperationFound(r.operations[n].operation)
      /\ routes' = [routes EXCEPT ![at] = r] /\ todo' = findParameters(r) /\ at' = at /\ at <= Len(routes)
  BY DEF ApplyDefaults
<1>2. at \in DOMAIN routes /\ IsRoute(route)
  <2>1. at \in 1..(Len(routes) + 1) /\ Len(routes) \in Nat /\ DOMAIN routes = 1..Len(routes)
    BY LenProperties DEF ApplyDefaults, AppliedInv, RoutesInv, ListsInv, IsList
  <2> QED BY <1>1, <2>1 DEF RoutesInv, route
<1>3. IsRoute(r) /\ (r.operation # None => Single \in DOMAIN r.operations /\ r.operations[Single].operation = r.operation)
  <2>1. CASE route.operation = None
    BY <1>2, <2>1
  <2>2. CASE route.operation # None
    <3>1. r = [route EXCEPT !.operations = Put(@, Single, [operation |-> route.operation, paramOverrides |-> <<>>])]
      BY <2>2
    <3> HIDE DEF r
    <3> QED BY <1>2, <2>2, <3>1, OperationPut
  <2> QED BY <2>1, <2>2
<1> HIDE DEF r
<1> QED BY <1>1, <1>2, <1>3 DEF Found, OperationFound

LEMMA SourceGiven ==
  ASSUME RoutesInv, AppliedInv, ApplyDefault
  PROVE  \E q : /\ routes' = [routes EXCEPT ![at] = q] /\ at' = at /\ at \in DOMAIN routes
                /\ IsRoute(q) /\ Found(q) /\ findParameters(q) = findParameters(route)
                /\ todo' \subseteq findParameters(q) /\ Sourced(q, findParameters(q) \ todo')
<1> DEFINE n == Least(todo)
           d == IF n \notin DOMAIN route.params THEN DefaultParameter(n)
                ELSE IF route.params[n].key = None /\ route.params[n].source # "Body"
                     THEN [route.params[n] EXCEPT !.key = n] ELSE route.params[n]
           e == [d EXCEPT !.hasUserSource = HasUserSource(d)]
           q == [route EXCEPT !.params = Put(@, n, e)]
<1>1. /\ pc = "default" /\ todo # {} /\ at' = at /\ todo' = todo \ {n}
      /\ routes' = [routes EXCEPT ![at].params = Put(@, n, e)]
  BY DEF ApplyDefault
<1>2. at \in DOMAIN routes /\ IsRoute(route) /\ Found(route) /\ todo \subseteq findParameters(route)
      /\ Sourced(route, findParameters(route) \ todo)
  <2>1. at \in 1..Len(routes) /\ Len(routes) \in Nat /\ DOMAIN routes = 1..Len(routes)
    BY <1>1, LenProperties DEF AppliedInv, RoutesInv, ListsInv, IsList
  <2> QED BY <1>1, <2>1 DEF RoutesInv, AppliedInv, route
<1>3. findParameters(route) \subseteq Names /\ Names \subseteq Nat
  BY <1>2, ParametersAreNames, CompilerAssumption DEF Found
<1>4. n \in todo /\ n \in Names
  <2>1. todo \subseteq Nat
    BY <1>2, <1>3
  <2> QED BY <1>1, <1>2, <1>3, <2>1, LeastOfSome
<1> HIDE DEF n
<1>5. d \in Parameter
  <2>1. CASE n \notin DOMAIN route.params
    BY <1>4, <2>1 DEF DefaultParameter, Parameter
  <2>2. CASE n \in DOMAIN route.params
    <3>1. route.params[n] \in Parameter
      BY <1>2, <2>2, RouteFields DEF IsMap
    <3>2. [route.params[n] EXCEPT !.key = n] \in Parameter
      BY <1>4, <3>1 DEF Parameter
    <3> QED BY <2>2, <3>1, <3>2
  <2> QED BY <2>1, <2>2
<1> HIDE DEF d
<1>6. HasUserSource(d) \in BOOLEAN
  BY <1>5 DEF HasUserSource, Parameter
<1>7. e \in Parameter /\ e.source = d.source /\ e.key = d.key /\ e.hasUserSource = HasUserSource(d)
  <2>1. e \in Parameter /\ e.source = d.source /\ e.key = d.key
    BY <1>5, <1>6 DEF Parameter
  <2>2. DOMAIN d = {"source", "key", "isOptional", "default", "type", "hasUserSource"}
    BY <1>5 DEF Parameter
  <2>3. e.hasUserSource = HasUserSource(d)
    BY <2>2, Zenon
  <2> QED BY <2>1, <2>3
<1> HIDE DEF e
<1>8. /\ IsRoute(q) /\ q.params = Put(route.params, n, e) /\ q.path = route.path
      /\ q.operation = route.operation /\ q.operations = route.operations
  BY <1>2, <1>4, <1>7, ParameterPut
<1>9. routes' = [routes EXCEPT ![at] = q]
  BY <1>1 DEF route
<1> HIDE DEF q
<1>10. Found(q) /\ findParameters(q) = findParameters(route)
  BY <1>2, <1>8 DEF Found, findParameters
<1>11. DOMAIN q.params = DOMAIN route.params \cup {n} /\ q.params[n] = e
       /\ \A m \in DOMAIN route.params : m # n => q.params[m] = route.params[m]
  BY <1>8 DEF Put
<1>12. ASSUME e.source = "URL", e.hasUserSource PROVE Occurrences(q.path, e.key) # {}
  BY <1>7, <1>8, <1>12 DEF HasUserSource
<1>13. Sourced(q, findParameters(q) \ todo')
  BY <1>1, <1>2, <1>8, <1>10, <1>11, <1>12 DEF Sourced
<1> QED BY <1>1, <1>2, <1>8, <1>9, <1>10, <1>13

LEMMA StepRoutes ==
  ASSUME RoutesInv, AppliedInv, [CallNext]_<<vars, callVars>>
  PROVE  RoutesInv' /\ AppliedInv'
<1>0. /\ Len(routes) \in Nat /\ DOMAIN routes = 1..Len(routes) /\ ListsInv'
  BY LenProperties, StepLists DEF RoutesInv, ListsInv, IsList
<1>1. ASSUME NEW q, routes' = [routes EXCEPT ![at] = q], at \in DOMAIN routes
      PROVE  /\ DOMAIN routes' = DOMAIN routes /\ Len(routes') = Len(routes) /\ routes'[at] = q
             /\ \A k \in DOMAIN routes : k # at => routes'[k] = routes[k]
  <2>1. DOMAIN routes' = DOMAIN routes /\ routes'[at] = q
        /\ \A k \in DOMAIN routes : k # at => routes'[k] = routes[k]
    BY <1>1
  <2>2. Len(routes') \in Nat /\ DOMAIN routes' = 1..Len(routes')
    BY <1>0, LenProperties DEF ListsInv, IsList
  <2> QED BY <1>0, <2>1, <2>2
<1>2. CASE ApplyDefaults /\ pc' = "default"
  <2>1. PICK q : /\ routes' = [routes EXCEPT ![at] = q] /\ at' = at /\ at \in DOMAIN routes
                 /\ IsRoute(q) /\ Found(q) /\ todo' = findParameters(q)
    BY <1>2, OperationGiven
  <2>2. route' = q
    BY <1>1, <2>1 DEF route
  <2>3. RoutesInv'
    BY <1>0, <1>1, <2>1 DEF RoutesInv
  <2>4. findParameters(route') \ todo' = {}
    BY <2>1, <2>2
  <2>5. Sourced(route', findParameters(route') \ todo')
    BY <2>4 DEF Sourced
  <2>6. \A k \in 1..(at - 1) : Ready(routes'[k])
    BY <1>0, <1>1, <1>2, <2>1 DEF AppliedInv, ApplyDefaults
  <2>7. pc' = "default" /\ at' \in 1..Len(routes') /\ Found(route') /\ todo' \subseteq findParameters(route')
    BY <1>0, <1>1, <1>2, <2>1, <2>2
  <2> QED BY <2>1, <2>3, <2>5, <2>6, <2>7 DEF AppliedInv, Inner
<1>3. CASE ApplyDefaults /\ pc' # "default"
  <2>1. pc' = "thrown" /\ UNCHANGED <<routes, at>>
    BY <1>3 DEF ApplyDefaults, same
  <2> QED BY <1>0, <2>1 DEF RoutesInv, AppliedInv, Inner
<1>4. CASE ApplyDefault
  <2>1. PICK q : /\ routes' = [routes EXCEPT ![at] = q] /\ at' = at /\ at \in DOMAIN routes
                 /\ IsRoute(q) /\ Found(q) /\ todo' \subseteq findParameters(q)
                 /\ Sourced(q, findParameters(q) \ todo')
    BY <1>4, SourceGiven
  <2>2. route' = q
    BY <1>1, <2>1 DEF route
  <2>3. RoutesInv'
    BY <1>0, <1>1, <2>1 DEF RoutesInv
  <2>4. pc = "default" /\ pc' = "default"
    BY <1>4 DEF ApplyDefault
  <2>5. \A k \in 1..(at - 1) : Ready(routes'[k])
    BY <1>0, <1>1, <2>1, <2>4 DEF AppliedInv
  <2>6. at' \in 1..Len(routes')
    BY <1>0, <1>1, <2>1
  <2> QED BY <2>1, <2>2, <2>3, <2>4, <2>5, <2>6 DEF AppliedInv, Inner
<1>5. CASE NextDefaults
  <2>1. pc = "default" /\ todo = {} /\ pc' = "applyDefaults" /\ at' = at + 1 /\ routes' = routes
    BY <1>5 DEF NextDefaults, NextLoop
  <2>2. at \in 1..Len(routes) /\ Ready(routes[at]) /\ \A k \in 1..(at - 1) : Ready(routes[k])
    BY <2>1 DEF AppliedInv, Ready, route
  <2>3. \A k \in 1..(at' - 1) : Ready(routes[k])
    BY <1>0, <2>1, <2>2
  <2> QED BY <1>0, <2>1, <2>2, <2>3 DEF RoutesInv, AppliedInv, Inner
<1>6. CASE OpenOutput
  <2>1. pc = "applyDefaults" /\ at > Len(routes) /\ pc' \in {"bases", "failed"} /\ routes' = routes
    BY <1>6 DEF OpenOutput, Fail, same
  <2>2. \A k \in DOMAIN routes : Ready(routes[k])
    BY <1>0, <2>1 DEF AppliedInv
  <2> QED BY <1>0, <2>1, <2>2 DEF RoutesInv, AppliedInv, Inner
<1>7. CASE ProcessBases \/ ProcessRoute \/ EndRoute \/ EndConfiguration
  <2>1. routes' = routes /\ pc \in {"bases", "routes"} \cup Inner
        /\ pc' \notin {"main", "loadConfiguration", "loadUnits", "applyDefaults", "default"}
    BY <1>7 DEF ProcessBases, ProcessRoute, EndRoute, EndConfiguration, NextLoop, Inner
  <2> QED BY <1>0, <2>1 DEF RoutesInv, AppliedInv
<1>8. CASE \/ InitializeProxy \/ Execute \/ FetchParameter \/ Fetched \/ AddSingleOperation
           \/ AddMashupOperation \/ AssembleResponse \/ DeclareParameter
  <2>1. routes' = routes /\ pc \in Inner
    BY <1>8 DEF InitializeProxy, AddProxy, Execute, FetchParameter, Undefined, Fetched, AddSingleOperation,
                AddMashupOperation, AssembleResponse, Assemble, Fail, DeclareParameter, same, Inner
  <2>2. pc' \notin {"main", "loadConfiguration", "loadUnits", "applyDefaults", "default"}
    BY <1>8 DEF InitializeProxy, AddProxy, Execute, FetchParameter, Undefined, Fetched, AddSingleOperation,
                AddMashupOperation, AssembleResponse, Assemble, Fail, DeclareParameter, NextLoop
  <2> QED BY <1>0, <2>1, <2>2 DEF RoutesInv, AppliedInv
<1>9. CASE Main \/ LoadConfiguration \/ LoadUnit \/ UnitsLoaded
  <2>1. /\ UNCHANGED <<routes, at>> /\ pc \in {"main", "loadConfiguration", "loadUnits"}
        /\ pc' \in {"main", "loadConfiguration", "loadUnits", "applyDefaults", "thrown", "exited"}
    BY <1>9 DEF Main, Exit, LoadConfiguration, LoadUnit, LoadFails, UnitsLoaded, same
  <2> QED BY <1>0, <2>1 DEF RoutesInv, AppliedInv, Inner
<1>10. CASE DestroyUnits \/ Terminate \/ PostProcess
  <2>1. routes' = routes /\ pc' \in {"compiled", "thrown", "exited"}
    BY <1>10 DEF DestroyUnits, Terminate, PostProcess, Exit, same
  <2> QED BY <1>0, <2>1 DEF RoutesInv, AppliedInv, Inner
<1>11. CASE UNCHANGED <<vars, callVars>>
  BY <1>11 DEF vars, callVars, RoutesInv, ListsInv, AppliedInv, Inner, route
<1> QED BY <1>2, <1>3, <1>4, <1>5, <1>6, <1>7, <1>8, <1>9, <1>10, <1>11 DEF CallNext, CompileStep, Next

-----------------------------------------------------------------------------
(* The class of the route in progress.                                     *)

(* What is in progress is a route that applyDefaults has been through.     *)
LEMMA InProgress ==
  ASSUME RoutesInv, AppliedInv, ClassesInv, pc \in Inner
  PROVE  /\ IsRoute(route) /\ Found(route) /\ Sourced(route, findParameters(route))
         /\ DOMAIN route.params \subseteq Nat /\ DOMAIN route.operations \subseteq Nat
<1>1. at \in DOMAIN routes
  BY LenProperties DEF ClassesInv, RoutesInv, ListsInv, IsList
<1>2. IsRoute(route) /\ Ready(route)
  BY <1>1 DEF RoutesInv, AppliedInv, route
<1>3. Names \subseteq Nat /\ Single \in Nat
  BY CompilerAssumption DEF Single
<1>4. /\ DOMAIN route.params \subseteq Names
      /\ DOMAIN route.operations \subseteq Names \cup {Single}
  BY <1>2, RouteFields DEF IsMap
<1>5. Found(route) /\ Sourced(route, findParameters(route))
  BY <1>2 DEF Ready
<1> QED BY <1>2, <1>3, <1>4, <1>5

ClassStep == \/ InitializeProxy \/ Execute \/ FetchParameter \/ Fetched \/ AddSingleOperation
             \/ AddMashupOperation \/ AssembleResponse \/ DeclareParameter

LEMMA ClassSteps ==
  ASSUME [CallNext]_<<vars, callVars>>, pc' \in Inner \cup {"undefined"}
  PROVE  UNCHANGED <<routes, at>> /\ (ProcessRoute \/ ClassStep \/ UNCHANGED vars)
<1>1. CASE Main \/ LoadConfiguration \/ LoadUnit \/ UnitsLoaded \/ DestroyUnits \/ Terminate \/ PostProcess
  BY <1>1 DEF Main, Exit, LoadConfiguration, LoadUnit, LoadFails, UnitsLoaded, DestroyUnits, Terminate, PostProcess, Inner
<1>2. CASE ApplyDefaults \/ ApplyDefault \/ NextDefaults \/ OpenOutput \/ ProcessBases
  BY <1>2 DEF ApplyDefaults, ApplyDefault, NextDefaults, NextLoop, OpenOutput, Fail, ProcessBases, Inner
<1>3. CASE EndRoute \/ EndConfiguration
  BY <1>3 DEF EndRoute, NextLoop, EndConfiguration, Inner
<1>4. CASE ProcessRoute
  BY <1>4 DEF ProcessRoute
<1>5. CASE ClassStep
  BY <1>5 DEF ClassStep, InitializeProxy, AddProxy, Execute, FetchParameter, Undefined, Fetched, AddSingleOperation,
              AddMashupOperation, AssembleResponse, Assemble, Fail, DeclareParameter, same
<1>6. CASE UNCHANGED <<vars, callVars>>
  BY <1>6 DEF vars
<1> QED BY <1>1, <1>2, <1>3, <1>4, <1>5, <1>6 DEF CallNext, CompileStep, Next, ClassStep

(* The names that a loop has still to visit. *)
TodoInv ==
  /\ pc \in {"proxies", "mashup"} => todo \subseteq DOMAIN route.operations
  /\ pc \in {"fetch", "declare"} => todo \subseteq DOMAIN route.params

LEMMA StepTodo ==
  ASSUME TodoInv, [CallNext]_<<vars, callVars>>
  PROVE  TodoInv'
<1> SUFFICES ASSUME pc' \in Inner PROVE TodoInv'
  BY DEF TodoInv, Inner
<1>1. route' = route
  BY ClassSteps DEF route
<1>2. CASE ProcessRoute
  BY <1>1, <1>2 DEF ProcessRoute, NextLoop, TodoInv
<1>3. CASE InitializeProxy \/ Execute \/ FetchParameter \/ Fetched
  BY <1>1, <1>3 DEF InitializeProxy, AddProxy, Execute, FetchParameter, Undefined, Fetched, NextLoop, TodoInv
<1>4. CASE AddSingleOperation \/ AddMashupOperation \/ AssembleResponse \/ DeclareParameter
  BY <1>1, <1>4 DEF AddSingleOperation, AddMashupOperation, AssembleResponse, Assemble, Fail, DeclareParameter,
                    Undefined, NextLoop, TodoInv
<1>5. CASE UNCHANGED vars
  BY <1>1, <1>5 DEF vars, TodoInv
<1> QED BY <1>2, <1>3, <1>4, <1>5, ClassSteps DEF ClassStep

(* The first operation to ask for a proxy is a route's only one.           *)
OnProxy == Interface[route.operation] \in DOMAIN proxies /\ proxies[Interface[route.operation]] = 0

ProxyInv ==
  /\ pc = "proxies" /\ route.operation # None =>
       (proxies = <<>> /\ todo = DOMAIN route.operations) \/ OnProxy
  /\ pc \in Inner \ {"proxies"} /\ route.operation # None => OnProxy

LEMMA StepProxy ==
  ASSUME RoutesInv, AppliedInv, ClassesInv, TodoInv, ProxyInv, [CallNext]_<<vars, callVars>>
  PROVE  ProxyInv'
<1> SUFFICES ASSUME pc' \in Inner PROVE ProxyInv'
  BY DEF ProxyInv, Inner
<1>1. route' = route
  BY ClassSteps DEF route
<1>2. CASE ProcessRoute
  BY <1>1, <1>2 DEF ProcessRoute, NextLoop, ProxyInv
<1>3. CASE InitializeProxy
  <2> DEFINE n == Least(todo)
             i == Interface[route.operations[n].operation]
  <2>1. pc = "proxies" /\ pc' = "proxies" /\ todo # {}
        /\ proxies' = IF i \in DOMAIN proxies THEN proxies ELSE Put(proxies, i, Cardinality(DOMAIN proxies))
    BY <1>3 DEF InitializeProxy, AddProxy
  <2>2. CASE OnProxy
    <3>1. OnProxy'
      BY <1>1, <2>1, <2>2 DEF OnProxy, Put
    <3> QED BY <2>1, <3>1 DEF ProxyInv
  <2>3. CASE route.operation # None /\ proxies = <<>> /\ todo = DOMAIN route.operations
    <3>1. Single \in todo /\ route.operations[Single].operation = route.operation /\ todo \subseteq Nat
      BY <2>1, <2>3, InProgress DEF Found, Inner
    <3>2. n \in todo /\ n <= Single
      BY <2>1, <3>1, LeastOfSome
    <3>3. n = Single
      <4> HIDE DEF n
      <4>1. n \in Nat /\ n <= 0
        BY <3>1, <3>2 DEF Single
      <4> QED BY <4>1 DEF Single
    <3>4. DOMAIN proxies = {}
      BY <2>3
    <3>5. proxies' = Put(proxies, Interface[route.operation], 0)
      BY <2>1, <3>1, <3>3, <3>4, FS_EmptySet
    <3>6. OnProxy'
      BY <1>1, <3>5 DEF OnProxy, Put
    <3> QED BY <2>1, <3>6 DEF ProxyInv
  <2>4. route.operation # None => OnProxy \/ (proxies = <<>> /\ todo = DOMAIN route.operations)
    BY <2>1 DEF ProxyInv
  <2>5. CASE route.operation = None
    BY <1>1, <2>1, <2>5 DEF ProxyInv
  <2> QED BY <2>2, <2>3, <2>4, <2>5
<1>4. CASE Execute
  <2>1. pc = "proxies" /\ todo = {} /\ pc' = "fetch" /\ proxies' = proxies
    BY <1>4 DEF Execute, NextLoop, text
  <2>2. route.operation # None => DOMAIN route.operations # {}
    BY <2>1, InProgress DEF Found, Inner
  <2> QED BY <1>1, <2>1, <2>2 DEF ProxyInv, OnProxy
<1>5. CASE ClassStep /\ pc # "proxies"
  <2>1. proxies' = proxies /\ pc \in Inner \ {"proxies"} /\ pc' # "proxies"
    BY <1>5 DEF ClassStep, InitializeProxy, Execute, FetchParameter, Undefined, Fetched, AddSingleOperation,
                AddMashupOperation, AssembleResponse, Assemble, Fail, DeclareParameter, NextLoop, text, Inner
  <2> QED BY <1>1, <2>1 DEF ProxyInv, OnProxy
<1>6. CASE UNCHANGED vars
  BY <1>1, <1>6 DEF vars, ProxyInv, OnProxy
<1>7. ClassStep /\ pc = "proxies" => InitializeProxy \/ Execute
  BY DEF ClassStep, FetchParameter, Fetched, AddSingleOperation, AddMashupOperation, AssembleResponse, DeclareParameter
<1> QED BY <1>2, <1>3, <1>4, <1>5, <1>6, <1>7, ClassSteps

(* All of a route's body parameters have keys. *)
AllKeyed == \A n \in Params : route.params[n].source = "Body" => route.params[n].key # None

BodyInv ==
  /\ pc = "proxies" => bodyReads = 0 /\ body = None
  /\ pc \in Inner /\ AllKeyed => (bodyReads = 0 /\ body = None) \/ (bodyReads = 1 /\ body # None)

LEMMA StepBody ==
  ASSUME RoutesInv, AppliedInv, ClassesInv, TodoInv, BodyInv, [CallNext]_<<vars, callVars>>
  PROVE  BodyInv'
<1> SUFFICES ASSUME pc' \in Inner PROVE BodyInv'
  BY DEF BodyInv, Inner
<1>1. route' = route /\ (AllKeyed' <=> AllKeyed)
  BY ClassSteps DEF route, AllKeyed, Params
<1>2. CASE ProcessRoute
  BY <1>2 DEF ProcessRoute, NextLoop, BodyInv
<1>3. CASE FetchParameter
  <2> DEFINE n == Least(todo)
             p == route.params[n]
  <2>1. pc = "fetch" /\ pc' = "fetch" /\ todo # {}
    BY <1>3 DEF FetchParameter, Undefined, Inner
  <2>2. n \in Params
    <3>1. todo \subseteq DOMAIN route.params /\ DOMAIN route.params \subseteq Nat
      BY <2>1, InProgress DEF TodoInv, Inner
    <3> QED BY <2>1, <3>1, LeastOfSome DEF Params
  <2>3. \/ p.source = "Body" /\ ReadBody(p)
        \/ UNCHANGED <<body, bodyReads>>
    BY <1>3, <2>1 DEF FetchParameter, Undefined, text
  <2> HIDE DEF n
  <2>4. BodyType(p) # None
    BY CompilerAssumption DEF BodyType
  <2>5. AllKeyed /\ p.source = "Body" => p.key # None
    BY <2>2 DEF AllKeyed
  <2>6. AllKeyed => (bodyReads = 0 /\ body = None) \/ (bodyReads = 1 /\ body # None)
    BY <2>1 DEF BodyInv, Inner
  <2> HIDE DEF p
  <2>7. AllKeyed => (bodyReads' = 0 /\ body' = None) \/ (bodyReads' = 1 /\ body' # None)
    BY <2>3, <2>4, <2>5, <2>6 DEF ReadBody
  <2> QED BY <1>1, <2>1, <2>7 DEF BodyInv
<1>4. CASE InitializeProxy \/ Execute \/ Fetched \/ AddSingleOperation
  BY <1>1, <1>4 DEF InitializeProxy, AddProxy, Execute, Fetched, AddSingleOperation, NextLoop, text, BodyInv, Inner
<1>5. CASE AddMashupOperation \/ AssembleResponse \/ DeclareParameter
  BY <1>1, <1>5 DEF AddMashupOperation, AssembleResponse, Assemble, Fail, DeclareParameter, Undefined, NextLoop,
                    text, BodyInv, Inner
<1>6. CASE UNCHANGED vars
  BY <1>1, <1>6 DEF vars, BodyInv
<1> QED BY <1>2, <1>3, <1>4, <1>5, <1>6, ClassSteps DEF ClassStep

(* The largest of a path's positions. *)
LEMMA LastOfSome ==
  ASSUME NEW n \in Nat, NEW S, S \subseteq 0..n, S # {}
  PROVE  Last(S) \in S
<1> DEFINE mirror == {n - j : j \in S}
<1>1. Least(mirror) \in mirror /\ \A h \in mirror : Least(mirror) <= h
  <2>1. \A j \in S : n - j \in Nat
    OBVIOUS
  <2>2. mirror \subseteq Nat /\ mirror # {}
    BY <2>1
  <2> HIDE DEF mirror
  <2> QED BY <2>2, LeastOfSome
<1>2. PICK x \in S : Least(mirror) = n - x
  BY <1>1
<1>3. ASSUME NEW h \in S PROVE h <= x
  <2>1. n - x <= n - h
    BY <1>1, <1>2
  <2> QED BY <2>1
<1> QED BY <1>3 DEF Last

LEMMA LastOccurrence ==
  ASSUME NEW r, IsRoute(r), NEW key, Occurrences(r.path, key) # {}
  PROVE  Last(Occurrences(r.path, key)) \in Occurrences(r.path, key)
<1>1. r.path \in Seq([parameter : BOOLEAN, name : Names]) /\ Len(r.path) \in Nat /\ DOMAIN r.path = 1..Len(r.path)
  <2>1. r.path \in Seq([parameter : BOOLEAN, name : Names])
    BY RouteFields
  <2> QED BY <2>1, LenProperties
<1>2. Occurrences(r.path, key) \subseteq 0..Len(r.path)
  BY <1>1 DEF Occurrences
<1> QED BY <1>1, <1>2, LastOfSome

(* A parameter that is fetched is one of the route's operations'.          *)
IndexInv ==
  /\ pc = "fetch" => \A n \in Params \ todo : route.params[n].hasUserSource => n \in findParameters(route)
  /\ pc \in {"single", "mashup", "declare"} =>
       \A n \in Params : route.params[n].hasUserSource => n \in findParameters(route)
  /\ pc \in Inner => \A n \in DOMAIN index : index[n] \in Occurrences(route.path, route.params[n].key)

LEMMA StepIndex ==
  ASSUME RoutesInv, AppliedInv, ClassesInv, TodoInv, IndexInv, [CallNext]_<<vars, callVars>>
  PROVE  IndexInv'
<1> SUFFICES ASSUME pc' \in Inner PROVE IndexInv'
  BY DEF IndexInv, Inner
<1>1. route' = route /\ Params' = Params
  BY ClassSteps DEF route, Params
<1>2. CASE ProcessRoute
  BY <1>1, <1>2 DEF ProcessRoute, NextLoop, IndexInv
<1>3. CASE FetchParameter
  <2>1. /\ pc = "fetch" /\ pc' = "fetch" /\ todo' = todo \ {Least(todo)} /\ index' = index
        /\ route.params[Least(todo)].hasUserSource => Least(todo) \in findParameters(route)
    BY <1>3 DEF FetchParameter, Undefined, text, Inner
  <2>2. \A n \in Params \ todo' : route.params[n].hasUserSource => n \in findParameters(route)
    BY <2>1 DEF IndexInv
  <2> QED BY <1>1, <2>1, <2>2 DEF IndexInv, Inner
<1>4. CASE DeclareParameter
  <2> DEFINE n == Least(todo)
             p == route.params[n]
  <2>1. /\ pc = "declare" /\ pc' = "declare" /\ todo # {}
        /\ index' = IF p.hasUserSource /\ p.source = "URL"
                    THEN Put(index, n, Last(Occurrences(route.path, p.key))) ELSE index
    BY <1>4 DEF DeclareParameter, Undefined, Inner
  <2>2. IsRoute(route) /\ Sourced(route, findParameters(route)) /\ n \in Params
    <3>1. todo \subseteq DOMAIN route.params /\ DOMAIN route.params \subseteq Nat
      BY <2>1, InProgress DEF TodoInv, Inner
    <3> QED BY <2>1, <3>1, LeastOfSome, InProgress DEF Params, Inner
  <2> HIDE DEF n
  <2>3. p.hasUserSource /\ p.source = "URL" =>
          Last(Occurrences(route.path, p.key)) \in Occurrences(route.path, p.key)
    <3>1. p.hasUserSource => n \in findParameters(route)
      BY <2>1, <2>2 DEF IndexInv
    <3> QED BY <2>2, <3>1, LastOccurrence DEF Sourced
  <2>4. \A m \in DOMAIN index' : index'[m] \in Occurrences(route.path, route.params[m].key)
    BY <2>1, <2>3 DEF IndexInv, Put, Inner
  <2> QED BY <1>1, <2>1, <2>4 DEF IndexInv
<1>5. CASE InitializeProxy \/ Execute \/ AddSingleOperation \/ AddMashupOperation \/ AssembleResponse
  <2>1. index' = index /\ pc \in Inner
    BY <1>5 DEF InitializeProxy, AddProxy, Execute, AddSingleOperation, AddMashupOperation, AssembleResponse,
                Assemble, Fail, text, Inner
  <2>2. \/ pc' = "proxies"
        \/ pc' = "fetch" /\ todo' = Params
        \/ pc \in {"single", "mashup"} /\ pc' \in {"mashup", "declare"}
    BY <1>5 DEF InitializeProxy, AddProxy, Execute, AddSingleOperation, AddMashupOperation, AssembleResponse,
                Assemble, Fail, NextLoop, Params, Inner
  <2> QED BY <1>1, <2>1, <2>2 DEF IndexInv
<1>6. CASE Fetched
  <2>1. pc = "fetch" /\ todo = {} /\ pc' \in {"mashup", "single"} /\ index' = index
    BY <1>6 DEF Fetched, NextLoop, text
  <2> QED BY <1>1, <2>1 DEF IndexInv, Inner
<1>7. CASE UNCHANGED vars
  BY <1>1, <1>7 DEF vars, IndexInv
<1> QED BY <1>2, <1>3, <1>4, <1>5, <1>6, <1>7, ClassSteps DEF ClassStep

(* Whose symbols are all to be declared: a route as SymbolsDeclared has it. *)
Proper == Provided /\ Answerable /\ NoOverrides

ResponseModel == {<<"_responseModel", 0>>}

(* The identifiers a class declares once it is complete: what the request  *)
(* gives, the private members, the results, and the response.              *)
Gives(S) == {<<"_p", n>> : n \in {m \in S : route.params[m].hasUserSource}}
Keeps(S) == UNION {Members(n, route.params[n]) : n \in S}
Results(S) == {<<"_ar", n>> : n \in S}
Responds == IF route.operation = None \/ route.operation \in Returns THEN ResponseModel ELSE {}
Promised == Gives(Params) \cup Keeps(Params) \cup Responds \cup
            IF route.operation = None THEN Results(DOMAIN route.operations) ELSE {}

SymbolsInv ==
  /\ pc = "undefined" => ~Provided
  /\ pc = "single" => route.operation # None
  /\ pc = "mashup" => route.operation = None
  /\ pc \in Inner /\ Proper => used \subseteq Promised
  /\ pc = "fetch" => Gives(Params \ todo) \subseteq declared
  /\ pc \in {"single", "mashup", "declare"} => Gives(Params) \subseteq declared
  /\ pc = "mashup" => Results(DOMAIN route.operations \ todo) \subseteq declared
  /\ pc = "declare" => /\ Responds \subseteq declared /\ Keeps(Params \ todo) \subseteq declared
                       /\ route.operation = None => Results(DOMAIN route.operations) \subseteq declared

(* What fetching a parameter uses is among the members kept for it.        *)
LEMMA FetchingKept ==
  ASSUME NEW n \in Params, route.params[n].hasUserSource
  PROVE  Fetching(n, route.params[n]) \subseteq Keeps(Params)
<1>1. Fetching(n, route.params[n]) \subseteq Members(n, route.params[n])
  BY DEF Fetching, Members
<1> QED BY <1>1 DEF Keeps

(* Any argument is given by the request or has a default. *)
LEMMA ArgumentPromised ==
  ASSUME Proper, Sourced(route, findParameters(route)), NEW n \in DOMAIN route.operations,
         NEW p \in ParametersOf(route.operations[n].operation)
  PROVE  Override(route.operations[n], p) = p /\ Argument(p, p) \in Promised
<1>1. Override(route.operations[n], p) = p
  BY DEF Proper, NoOverrides, Override
<1>2. p \in findParameters(route)
  BY <1>1 DEF findParameters
<1>3. p \in Params
  BY <1>2 DEF Sourced, Params
<1>4. CASE route.params[p].hasUserSource
  <2>1. Argument(p, p) \in Gives(Params)
    BY <1>3, <1>4 DEF Argument, Gives
  <2> QED BY <1>1, <2>1 DEF Promised
<1>5. CASE ~route.params[p].hasUserSource
  <2>1. route.params[p].default
    BY <1>3, <1>5 DEF Proper, Provided
  <2>2. <<"_pd", p>> \in Members(p, route.params[p])
    BY <2>1 DEF Members
  <2>3. Argument(p, p) \in Keeps(Params)
    BY <1>3, <1>5, <2>2 DEF Argument, Keeps
  <2> QED BY <1>1, <2>3 DEF Promised
<1> QED BY <1>1, <1>4, <1>5

LEMMA MutatingPromised == Proper => Mutating \subseteq Promised
  BY DEF Proper, Answerable, Mutating, Promised, Responds, ResponseModel

LEMMA PromisedParts ==
  /\ Gives(Params) \subseteq Promised /\ Keeps(Params) \subseteq Promised /\ Responds \subseteq Promised
  /\ route.operation = None => Results(DOMAIN route.operations) \subseteq Promised
  BY DEF Promised

(* What is promised, and to whom, does not change within a class. *)
LEMMA SamePromise ==
  ASSUME route' = route
  PROVE  /\ Params' = Params /\ (Proper' <=> Proper) /\ (Provided' <=> Provided)
         /\ Promised' = Promised /\ Responds' = Responds
         /\ \A S : Gives(S)' = Gives(S) /\ Keeps(S)' = Keeps(S)
<1>1. Params' = Params /\ (Provided' <=> Provided)
  BY DEF Params, Provided
<1>2. (Answerable' <=> Answerable) /\ (NoOverrides' <=> NoOverrides)
  BY DEF Answerable, NoOverrides, Params
<1>3. \A S : Gives(S)' = Gives(S) /\ Keeps(S)' = Keeps(S)
  BY DEF Gives, Keeps
<1>4. Responds' = Responds
  BY DEF Responds
<1>5. Promised' = Promised
  BY <1>1, <1>3, <1>4 DEF Promised
<1> QED BY <1>1, <1>2, <1>3, <1>4, <1>5 DEF Proper

LEMMA FetchSymbols ==
  ASSUME RoutesInv, AppliedInv, ClassesInv, TodoInv, SymbolsInv, FetchParameter, route' = route
  PROVE  SymbolsInv'
<1> DEFINE n == Least(todo)
           p == route.params[n]
<1>1. pc = "fetch" /\ todo # {} /\ n \in Params /\ n \in todo
  <2>1. pc = "fetch" /\ todo # {}
    BY DEF FetchParameter
  <2>2. todo \subseteq DOMAIN route.params /\ DOMAIN route.params \subseteq Nat
    BY <2>1, InProgress DEF TodoInv, Inner
  <2> QED BY <2>1, <2>2, LeastOfSome DEF Params
<1>2. CASE p.hasUserSource /\ n \notin findParameters(route)
  <2>1. pc' = "undefined" /\ ~Provided
    BY <1>1, <1>2 DEF FetchParameter, Undefined, Provided
  <2> QED BY <2>1, SamePromise DEF SymbolsInv, Inner
<1>3. CASE ~p.hasUserSource
  <2>1. pc' = "fetch" /\ todo' = todo \ {n} /\ UNCHANGED <<used, declared>>
    BY <1>1, <1>3 DEF FetchParameter, text
  <2>2. Gives(Params \ todo') \subseteq declared
    <3> HIDE DEF n
    <3>1. Gives(Params \ todo') \subseteq Gives(Params \ todo)
      BY <1>3, <2>1 DEF Gives
    <3> QED BY <1>1, <3>1 DEF SymbolsInv
  <2>3. Proper => used \subseteq Promised
    BY <1>1 DEF SymbolsInv, Inner
  <2> QED BY <2>1, <2>2, <2>3, SamePromise DEF SymbolsInv, Inner
<1>4. CASE p.hasUserSource /\ n \in findParameters(route)
  <2>1. /\ pc' = "fetch" /\ todo' = todo \ {n} /\ declared' = declared \cup {<<"_p", n>>}
        /\ used' = used \cup Fetching(n, p)
    BY <1>1, <1>4 DEF FetchParameter
  <2>2. Gives(Params \ todo') \subseteq declared'
    <3> HIDE DEF n
    <3>1. Gives(Params \ todo') \subseteq Gives(Params \ todo) \cup {<<"_p", n>>}
      BY <2>1 DEF Gives
    <3>2. Gives(Params \ todo) \subseteq declared
      BY <1>1 DEF SymbolsInv
    <3> QED BY <2>1, <3>1, <3>2
  <2>3. Fetching(n, p) \subseteq Promised
    <3> HIDE DEF n
    <3> QED BY <1>1, <1>4, FetchingKept, PromisedParts
  <2>4. Proper => used' \subseteq Promised
    BY <1>1, <2>1, <2>3 DEF SymbolsInv, Inner
  <2> QED BY <2>1, <2>2, <2>4, SamePromise DEF SymbolsInv, Inner
<1> QED BY <1>2, <1>3, <1>4

LEMMA SingleSymbols ==
  ASSUME RoutesInv, AppliedInv, ClassesInv, SymbolsInv, AddSingleOperation, route' = route
  PROVE  SymbolsInv'
<1> DEFINE passed == {Argument(p, p) : p \in ParametersOf(route.operation)}
<1>1. /\ pc = "single" /\ pc' = "declare" /\ todo' = Params /\ route.operation # None
      /\ declared' = declared \cup IF route.operation \in Returns THEN {<<"_responseModel", 0>>} ELSE {}
      /\ used' = used \cup passed \cup Mutating
  BY DEF AddSingleOperation, Params, SymbolsInv
<1>2. /\ Found(route) /\ Sourced(route, findParameters(route))
      /\ Single \in DOMAIN route.operations /\ route.operations[Single].operation = route.operation
  BY <1>1, InProgress DEF Found, Inner
<1>3. Proper => passed \subseteq Promised
  BY <1>2, ArgumentPromised
<1> HIDE DEF passed
<1>4. Proper => used' \subseteq Promised
  <2>1. Proper => used \subseteq Promised
    BY <1>1 DEF SymbolsInv, Inner
  <2> QED BY <1>1, <1>3, <2>1, MutatingPromised
<1>5. Responds \subseteq declared' /\ Gives(Params) \subseteq declared'
  BY <1>1 DEF Responds, ResponseModel, SymbolsInv
<1>6. Keeps(Params \ todo') = {}
  BY <1>1 DEF Keeps
<1> QED BY <1>1, <1>4, <1>5, <1>6, SamePromise DEF SymbolsInv, Inner

LEMMA MashupSymbols ==
  ASSUME RoutesInv, AppliedInv, ClassesInv, TodoInv, SymbolsInv, AddMashupOperation, route' = route
  PROVE  SymbolsInv'
<1> DEFINE n == Least(todo)
           operation == route.operations[n]
           passed == [p \in ParametersOf(operation.operation) |-> Argument(Override(operation, p), p)]
<1>1. /\ pc = "mashup" /\ pc' = "mashup" /\ todo # {} /\ todo' = todo \ {n} /\ route.operation = None
      /\ declared' = declared \cup {<<"_ar", n>>}
      /\ used' = used \cup {passed[p] : p \in DOMAIN passed}
  BY DEF AddMashupOperation, Calls, SymbolsInv
<1>2. n \in DOMAIN route.operations /\ Sourced(route, findParameters(route))
  <2>1. todo \subseteq DOMAIN route.operations /\ DOMAIN route.operations \subseteq Nat
        /\ Sourced(route, findParameters(route))
    BY <1>1, InProgress DEF TodoInv, Inner
  <2> QED BY <1>1, <2>1, LeastOfSome
<1> HIDE DEF n
<1>3. ASSUME Proper PROVE {passed[p] : p \in DOMAIN passed} \subseteq Promised
  <2>1. \A p \in ParametersOf(operation.operation) : Argument(Override(operation, p), p) \in Promised
    <3> SUFFICES ASSUME NEW p \in ParametersOf(operation.operation)
                 PROVE  Argument(Override(operation, p), p) \in Promised
      OBVIOUS
    <3>1. Override(operation, p) = p /\ Argument(p, p) \in Promised
      BY <1>2, <1>3, ArgumentPromised
    <3> QED BY <3>1
  <2> QED BY <2>1
<1> HIDE DEF passed
<1>4. Proper => used' \subseteq Promised
  BY <1>1, <1>3 DEF SymbolsInv, Inner
<1>5. Results(DOMAIN route.operations \ todo') \subseteq declared'
  <2>1. Results(DOMAIN route.operations \ todo') \subseteq Results(DOMAIN route.operations \ todo) \cup {<<"_ar", n>>}
    BY <1>1 DEF Results
  <2> QED BY <1>1, <2>1 DEF SymbolsInv
<1>6. Gives(Params) \subseteq declared'
  BY <1>1 DEF SymbolsInv
<1>7. \A S : Results(S)' = Results(S)
  BY DEF Results
<1> QED BY <1>1, <1>4, <1>5, <1>6, <1>7, SamePromise DEF SymbolsInv, Inner

LEMMA AssembleSymbols ==
  ASSUME SymbolsInv, AssembleResponse, pc' \in Inner, route' = route
  PROVE  SymbolsInv'
<1> DEFINE taken == {IF m \in DOMAIN route.operations THEN <<"_ar", m>> ELSE <<"_p", m>> : m \in MembersOf[route.type]}
<1>1. /\ pc = "mashup" /\ todo = {} /\ pc' = "declare" /\ todo' = Params
      /\ declared' = declared \cup ResponseModel /\ used' = used \cup Mutating \cup taken
  BY DEF AssembleResponse, Assemble, Fail, NextLoop, Inner, Params, ResponseModel
<1>2. /\ route.operation = None /\ Gives(Params) \subseteq declared
      /\ Results(DOMAIN route.operations \ todo) \subseteq declared
  BY <1>1 DEF SymbolsInv
<1>3. ASSUME Proper PROVE taken \subseteq Promised
  <2> SUFFICES ASSUME NEW m \in MembersOf[route.type]
               PROVE  (IF m \in DOMAIN route.operations THEN <<"_ar", m>> ELSE <<"_p", m>>) \in Promised
    OBVIOUS
  <2>1. m \in DOMAIN route.operations \/ (m \in Params /\ route.params[m].hasUserSource)
    BY <1>2, <1>3 DEF Proper, Answerable
  <2>2. CASE m \in DOMAIN route.operations
    <3>1. <<"_ar", m>> \in Results(DOMAIN route.operations)
      BY <2>2 DEF Results
    <3> QED BY <1>2, <2>2, <3>1, PromisedParts
  <2>3. CASE m \notin DOMAIN route.operations
    <3>1. <<"_p", m>> \in Gives(Params)
      BY <2>1, <2>3 DEF Gives
    <3> QED BY <2>3, <3>1, PromisedParts
  <2> QED BY <2>2, <2>3
<1> HIDE DEF taken
<1>4. Proper => used' \subseteq Promised
  <2>1. Proper => used \subseteq Promised
    BY <1>1 DEF SymbolsInv, Inner
  <2> QED BY <1>1, <1>3, <2>1, MutatingPromised
<1>5. Responds \subseteq declared' /\ Gives(Params) \subseteq declared'
  BY <1>1, <1>2 DEF Responds
<1>6. Keeps(Params \ todo') = {}
  BY <1>1 DEF Keeps
<1>7. Results(DOMAIN route.operations)' \subseteq declared'
  BY <1>1, <1>2 DEF Results
<1> QED BY <1>1, <1>4, <1>5, <1>6, <1>7, SamePromise DEF SymbolsInv, Inner

LEMMA DeclareSymbols ==
  ASSUME SymbolsInv, TodoInv, RoutesInv, AppliedInv, ClassesInv, DeclareParameter, route' = route
  PROVE  SymbolsInv'
<1> DEFINE n == Least(todo)
           p == route.params[n]
<1>1. pc = "declare" /\ todo # {} /\ n \in Params /\ n \in todo
  <2>1. pc = "declare" /\ todo # {}
    BY DEF DeclareParameter
  <2>2. todo \subseteq DOMAIN route.params /\ DOMAIN route.params \subseteq Nat
    BY <2>1, InProgress DEF TodoInv, Inner
  <2> QED BY <2>1, <2>2, LeastOfSome DEF Params
<1>2. CASE p.default /\ n \notin findParameters(route)
  <2>1. pc' = "undefined" /\ ~Provided
    BY <1>1, <1>2 DEF DeclareParameter, Undefined, Provided
  <2> QED BY <2>1, SamePromise DEF SymbolsInv, Inner
<1>3. CASE ~(p.default /\ n \notin findParameters(route))
  <2>1. pc' = "declare" /\ todo' = todo \ {n} /\ declared' = declared \cup Members(n, p) /\ used' = used
    BY <1>1, <1>3 DEF DeclareParameter
  <2> HIDE DEF n
  <2>2. Keeps(Params \ todo') \subseteq Keeps(Params \ todo) \cup Members(n, p)
    BY <2>1 DEF Keeps
  <2>3. /\ Keeps(Params \ todo) \subseteq declared /\ Responds \subseteq declared /\ Gives(Params) \subseteq declared
        /\ Proper => used \subseteq Promised
        /\ route.operation = None => Results(DOMAIN route.operations) \subseteq declared
    BY <1>1 DEF SymbolsInv, Inner
  <2>4. Keeps(Params \ todo') \subseteq declared'
    BY <2>1, <2>2, <2>3
  <2>5. \A S : Results(S)' = Results(S)
    BY DEF Results
  <2> QED BY <2>1, <2>3, <2>4, <2>5, SamePromise DEF SymbolsInv, Inner
<1> QED BY <1>2, <1>3

LEMMA StepSymbols ==
  ASSUME RoutesInv, AppliedInv, ClassesInv, TodoInv, SymbolsInv, [CallNext]_<<vars, callVars>>
  PROVE  SymbolsInv'
<1> SUFFICES ASSUME pc' \in Inner \cup {"undefined"} PROVE SymbolsInv'
  BY DEF SymbolsInv, Inner
<1>1. route' = route
  BY ClassSteps DEF route
<1>2. CASE ProcessRoute
  <2>1. pc' = "proxies" /\ used' = {}
    BY <1>2 DEF ProcessRoute, NextLoop
  <2> QED BY <2>1 DEF SymbolsInv
<1>3. CASE InitializeProxy
  <2>1. pc = "proxies" /\ pc' = "proxies" /\ used' = used
    BY <1>3 DEF InitializeProxy, AddProxy
  <2> QED BY <1>1, <2>1, SamePromise DEF SymbolsInv, Inner
<1>4. CASE Execute
  <2>1. pc = "proxies" /\ pc' = "fetch" /\ used' = used /\ todo' = Params
    BY <1>4 DEF Execute, NextLoop, text, Params
  <2>2. Gives(Params \ todo') = {}
    BY <2>1 DEF Gives
  <2> QED BY <1>1, <2>1, <2>2, SamePromise DEF SymbolsInv, Inner
<1>5. CASE Fetched
  <2>1. /\ pc = "fetch" /\ todo = {} /\ UNCHANGED <<used, declared>>
        /\ IF route.operation = None THEN pc' = "mashup" /\ todo' = DOMAIN route.operations ELSE pc' = "single"
    BY <1>5 DEF Fetched, NextLoop, text
  <2>2. Gives(Params) \subseteq declared
    BY <2>1 DEF SymbolsInv
  <2>3. Proper => used \subseteq Promised
    BY <2>1 DEF SymbolsInv, Inner
  <2>4. pc' = "mashup" => (Results(DOMAIN route.operations \ todo) \subseteq declared)'
    BY <1>1, <2>1 DEF Results
  <2> QED BY <1>1, <2>1, <2>2, <2>3, <2>4, SamePromise DEF SymbolsInv, Inner
<1>6. CASE UNCHANGED vars
  <2>1. \A S : Results(S)' = Results(S)
    BY DEF Results
  <2> QED BY <1>1, <1>6, <2>1, SamePromise DEF vars, SymbolsInv
<1>7. AssembleResponse => pc' \in Inner
  BY DEF AssembleResponse, Assemble, Fail, NextLoop, Inner
<1> QED BY <1>1, <1>2, <1>3, <1>4, <1>5, <1>6, <1>7, ClassSteps, FetchSymbols, SingleSymbols, MashupSymbols,
           AssembleSymbols, DeclareSymbols DEF ClassStep

ClassInv == TodoInv /\ ProxyInv /\ BodyInv /\ IndexInv /\ SymbolsInv

GenerationInv == CompileInv /\ RoutesInv /\ AppliedInv /\ ClassInv

LEMMA GenerationInvariant == CallSpec => []GenerationInv
<1>1. CallInit => ClassInv
  BY DEF CallInit, ClassInv, TodoInv, ProxyInv, BodyInv, IndexInv, SymbolsInv, Inner
<1>2. GenerationInv /\ [CallNext]_<<vars, callVars>> => GenerationInv'
  <2> SUFFICES ASSUME GenerationInv, [CallNext]_<<vars, callVars>> PROVE GenerationInv'
    OBVIOUS
  <2>1. CompileInv'
    BY StepOutputInv, StepLists, StepClasses, StepStatus DEF GenerationInv, CompileInv
  <2>2. RoutesInv' /\ AppliedInv'
    BY StepRoutes DEF GenerationInv
  <2>3. ClassInv'
    BY StepTodo, StepProxy, StepBody, StepIndex, StepSymbols DEF GenerationInv, CompileInv, ClassInv
  <2> QED BY <2>1, <2>2, <2>3 DEF GenerationInv
<1> QED BY <1>1, <1>2, InitCompileInv, InitRoutesInv, PTL DEF CallSpec, GenerationInv

(* A generated class declares every identifier it uses, and no iterator of  *)
(* the compiler runs past the end: of every configuration, whose parameters *)
(* all come from somewhere and whose responses can be made.                 *)
THEOREM GeneratedDeclares == CallSpec => []SymbolsDeclared
<1>1. GenerationInv => SymbolsDeclared
  <2> SUFFICES ASSUME GenerationInv, Generated \/ pc = "undefined", Proper
               PROVE  Generated /\ used \subseteq declared
    BY DEF SymbolsDeclared, Proper
  <2>1. pc = "declare" /\ todo = {}
    BY DEF GenerationInv, ClassInv, SymbolsInv, Proper, Generated
  <2>2. /\ Gives(Params) \subseteq declared /\ Responds \subseteq declared /\ Keeps(Params \ todo) \subseteq declared
        /\ route.operation = None => Results(DOMAIN route.operations) \subseteq declared
        /\ used \subseteq Promised
    BY <2>1 DEF GenerationInv, ClassInv, SymbolsInv, Inner
  <2>3. Keeps(Params) \subseteq declared
    BY <2>1, <2>2 DEF Keeps
  <2>4. Promised \subseteq declared
    BY <2>2, <2>3 DEF Promised
  <2> QED BY <2>1, <2>2, <2>4 DEF Generated
<1> QED BY <1>1, GenerationInvariant, PTL

(* The index that a generated class looks a parameter of the URL up by is   *)
(* that of an element of its own path, whatever the configuration.          *)
THEOREM IndexOfOwnPath == CallSpec => []UrlIndexInPath
<1>1. GenerationInv => UrlIndexInPath
  BY DEF GenerationInv, ClassInv, IndexInv, UrlIndexInPath, Generated, Inner
<1> QED BY <1>1, GenerationInvariant, PTL

(* However many parameters a generated class takes from the body by their   *)
(* keys, it reads the body once.                                            *)
THEOREM BodyOnce == CallSpec => []BodyReadOnce
<1>1. GenerationInv => BodyReadOnce
  BY DEF GenerationInv, ClassInv, BodyInv, BodyReadOnce, AllKeyed, Inner
<1> QED BY <1>1, GenerationInvariant, PTL

(* A route's one operation is called on the proxy of its own interface,     *)
(* whatever other operations the route lists.                               *)
THEOREM SingleProxy == CallSpec => []SingleOnItsProxy
<1>1. GenerationInv => SingleOnItsProxy
  BY DEF GenerationInv, ClassInv, ProxyInv, OnProxy, SingleOnItsProxy, Generated, Inner
<1> QED BY <1>1, GenerationInvariant, PTL

-----------------------------------------------------------------------------
(* The parsed units.                                                       *)

(* Every unit in the map is one that was created, and no two are the same; *)
(* if any was created, one is in the map.                                  *)
UnitsHeld ==
  /\ units \in Injection(DOMAIN units, DOMAIN created)
  /\ created # <<>> => DOMAIN units # {}

NoneDestroyed == \A n \in DOMAIN created : created[n] = 0
AllDestroyed == \A n \in DOMAIN created : created[n] = 1
HeldDestroyed == \A n \in DOMAIN created : created[n] = IF \E u \in DOMAIN units : units[u] = n THEN 1 ELSE 0

UnitsInv ==
  /\ created \in Seq(Nat)
  /\ pc \in {"main", "loadConfiguration"} => created = <<>>
  /\ pc \notin {"compiled", "thrown", "exited"} => UnitsHeld /\ NoneDestroyed
  /\ pc = "compiled" => UnitsHeld /\ HeldDestroyed
  /\ pc = "thrown" /\ caught => AllDestroyed \/ (UnitsHeld /\ HeldDestroyed) \/ DefaultsThrew
  /\ pc \in {"thrown", "exited"} => \A n \in DOMAIN created : created[n] \in {0, 1}

LEMMA InitUnitsInv == CallInit => UnitsInv
<1> SUFFICES ASSUME CallInit PROVE UnitsInv
  OBVIOUS
<1>1. units = <<>> /\ created = <<>> /\ pc \in {"main", "loadConfiguration"}
  BY DEF CallInit
<1>2. units \in Injection(DOMAIN units, DOMAIN created)
  BY <1>1 DEF Injection, IsInjective
<1> QED BY <1>1, <1>2 DEF UnitsInv, UnitsHeld, NoneDestroyed

(* A file more: of one listed before, the unit created then is forgotten.  *)
LEMMA StepLoadUnit ==
  ASSUME UnitsInv, LoadUnit
  PROVE  UnitsInv'
<1> DEFINE more == Append(created, 0)
<1>1. /\ created \in Seq(Nat) /\ Len(created) \in Nat /\ DOMAIN created = 1..Len(created)
      /\ units \in Injection(DOMAIN units, DOMAIN created) /\ NoneDestroyed /\ pc = "loadUnits"
  BY LenProperties DEF UnitsInv, UnitsHeld, LoadUnit
<1>2. /\ more \in Seq(Nat) /\ DOMAIN more = 1..(Len(created) + 1)
      /\ \A n \in DOMAIN more : more[n] = 0
  BY <1>1 DEF NoneDestroyed
<1> HIDE DEF more
<1>3. ASSUME NEW units_ \in Seq(Nat), \A n \in DOMAIN units_ : units_[n] = 0, LoadFails(units_)
      PROVE  UnitsInv'
  <2>1. pc' = "thrown" /\ created' = IF caught THEN [n \in DOMAIN units_ |-> units_[n] + 1] ELSE units_
    BY <1>3 DEF LoadFails
  <2>2. [n \in DOMAIN units_ |-> units_[n] + 1] \in Seq(Nat)
    <3>1. Len(units_) \in Nat /\ DOMAIN units_ = 1..Len(units_)
      BY <1>3, LenProperties
    <3>2. [n \in DOMAIN units_ |-> units_[n] + 1] \in [1..Len(units_) -> Nat]
      BY <1>3, <3>1
    <3> QED BY <3>1, <3>2, FunctionIsSeq
  <2>3. \A n \in DOMAIN units_ : units_[n] + 1 = 1
    BY <1>3
  <2>4. caught' = caught
    BY DEF LoadUnit
  <2>5. CASE caught
    <3>1. created' \in Seq(Nat) /\ \A n \in DOMAIN created' : created'[n] = 1
      BY <2>1, <2>2, <2>3, <2>5
    <3> QED BY <2>1, <3>1 DEF UnitsInv, AllDestroyed
  <2>6. CASE ~caught
    <3>1. created' = units_ /\ ~caught'
      BY <2>1, <2>4, <2>6
    <3> QED BY <1>3, <2>1, <3>1 DEF UnitsInv
  <2> QED BY <2>5, <2>6
<1>4. CASE created' = more /\ units' = Put(units, Head(slices), Len(created) + 1) /\ pc' = pc
  <2> DEFINE u == Head(slices)
             k == Len(created) + 1
  <2>1. /\ DOMAIN units' = DOMAIN units \cup {u} /\ units' \in [DOMAIN units' -> DOMAIN created']
        /\ units'[u] = k /\ \A v \in DOMAIN units : v # u => units'[v] = units[v]
    BY <1>1, <1>2, <1>4 DEF Put, Injection
  <2>2. \A v \in DOMAIN units : units[v] # k
    BY <1>1 DEF Injection, IsInjective
  <2> HIDE DEF u, k
  <2>3. units' \in Injection(DOMAIN units', DOMAIN created')
    BY <1>1, <2>1, <2>2 DEF Injection, IsInjective
  <2> QED BY <1>1, <1>2, <1>4, <2>1, <2>3 DEF UnitsInv, UnitsHeld, NoneDestroyed
<1>5. \/ LoadFails(created) \/ LoadFails(more)
      \/ created' = more /\ units' = Put(units, Head(slices), Len(created) + 1) /\ pc' = pc
  BY DEF LoadUnit, more
<1> QED BY <1>1, <1>2, <1>3, <1>4, <1>5 DEF NoneDestroyed

LEMMA StepDestroyUnits ==
  ASSUME UnitsInv, DestroyUnits
  PROVE  UnitsInv'
<1> DEFINE held == {units[u] : u \in DOMAIN units}
<1>1. /\ created \in Seq(Nat) /\ UnitsHeld /\ NoneDestroyed /\ units' = units
      /\ created' = [n \in DOMAIN created |-> IF n \in held THEN created[n] + 1 ELSE created[n]]
      /\ pc' \in {"compiled", "thrown"}
  BY DEF DestroyUnits, Destroyed, same, config, UnitsInv
<1>2. \A n : n \in held <=> \E u \in DOMAIN units : units[u] = n
  OBVIOUS
<1> HIDE DEF held
<1>3. /\ DOMAIN created' = DOMAIN created
      /\ \A n \in DOMAIN created : created'[n] = IF n \in held THEN 1 ELSE 0
  BY <1>1 DEF NoneDestroyed
<1>4. created' \in Seq(Nat)
  <2>1. Len(created) \in Nat /\ DOMAIN created = 1..Len(created)
    BY <1>1, LenProperties
  <2>2. created' \in [1..Len(created) -> Nat]
    BY <1>1, <1>3, <2>1
  <2> DEFINE c == created'
  <2>3. c \in [1..Len(created) -> Nat]
    BY <2>2
  <2> HIDE DEF c
  <2>4. c \in Seq(Nat)
    BY <2>1, <2>3, FunctionIsSeq
  <2> QED BY <2>4 DEF c
<1>5. HeldDestroyed'
  BY <1>1, <1>2, <1>3 DEF HeldDestroyed
<1>6. UnitsHeld'
  <2>1. created = <<>> => created' = <<>>
    BY <1>1
  <2>2. created' # <<>> => DOMAIN units # {}
    BY <1>1, <2>1 DEF UnitsHeld
  <2> QED BY <1>1, <1>3, <2>2 DEF UnitsHeld
<1>7. \A n \in DOMAIN created' : created'[n] \in {0, 1}
  BY <1>3
<1> QED BY <1>1, <1>4, <1>5, <1>6, <1>7 DEF UnitsInv

(* An operation that no unit has is one of the route's, or its only one.   *)
LEMMA ThrowingDefaults ==
  ASSUME RoutesInv, AppliedInv, ApplyDefaults, pc' = "thrown"
  PROVE  units # <<>> => DefaultsThrew'
<1>1. /\ UNCHANGED <<routes, at, units>> /\ at <= Len(routes) /\ route' = route
      /\ \E n \in DOMAIN (IF route.operation = None THEN route
                          ELSE [route EXCEPT !.operations =
                                  Put(@, Single, [operation |-> route.operation, paramOverrides |-> <<>>])]).operations :
           ~OperationFound((IF route.operation = None THEN route
                          ELSE [route EXCEPT !.operations =
                                  Put(@, Single, [operation |-> route.operation, paramOverrides |-> <<>>])]).operations[n].operation)
  BY DEF ApplyDefaults, same, config, route
<1>2. IsRoute(route)
  <2>1. at \in 1..(Len(routes) + 1) /\ Len(routes) \in Nat /\ DOMAIN routes = 1..Len(routes)
    BY LenProperties DEF ApplyDefaults, AppliedInv, RoutesInv, ListsInv, IsList
  <2> QED BY <1>1, <2>1 DEF RoutesInv, route
<1>3. \A n \in DOMAIN route.operations : route.operations[n].operation # None
  BY <1>2, CompilerAssumption DEF IsRoute, IsOperation
<1>4. \E o \in {route.operation} \cup {route.operations[n].operation : n \in DOMAIN route.operations} :
        o # None /\ ~OperationFound(o)
  <2>1. CASE route.operation = None
    BY <1>1, <1>3, <2>1
  <2>2. CASE route.operation # None
    <3> DEFINE os == Put(route.operations, Single, [operation |-> route.operation, paramOverrides |-> <<>>])
               q == [route EXCEPT !.operations = os]
    <3>1. q.operations = os
      BY <1>2, RouteFields
    <3>2. PICK n \in DOMAIN os : ~OperationFound(os[n].operation)
      BY <1>1, <2>2, <3>1
    <3>3. CASE n = Single
      BY <2>2, <3>2, <3>3 DEF Put
    <3>4. CASE n # Single
      <4>1. n \in DOMAIN route.operations /\ os[n] = route.operations[n]
        BY <3>2, <3>4 DEF Put
      <4> QED BY <1>3, <3>2, <4>1
    <3> QED BY <3>3, <3>4
  <2> QED BY <2>1, <2>2
<1>5. \A o : OperationFound(o)' <=> OperationFound(o)
  BY <1>1 DEF OperationFound
<1> QED BY <1>1, <1>4, <1>5 DEF DefaultsThrew

LEMMA StepUnits ==
  ASSUME RoutesInv, AppliedInv, UnitsInv, [CallNext]_<<vars, callVars>>
  PROVE  UnitsInv'
<1>1. CASE Main \/ LoadConfiguration
  <2>1. /\ UNCHANGED <<units, created>> /\ pc \in {"main", "loadConfiguration"}
        /\ pc' \in {"loadConfiguration", "loadUnits", "thrown", "exited"}
    BY <1>1 DEF Main, Exit, LoadConfiguration, same, config, callVars
  <2>2. created = <<>> /\ UnitsHeld /\ NoneDestroyed /\ created \in Seq(Nat)
    BY <2>1 DEF UnitsInv
  <2>3. UnitsHeld' /\ NoneDestroyed' /\ AllDestroyed'
    BY <2>1, <2>2 DEF UnitsHeld, NoneDestroyed, AllDestroyed
  <2>4. DOMAIN created' = {}
    BY <2>1, <2>2
  <2> QED BY <2>1, <2>2, <2>3, <2>4 DEF UnitsInv
<1>2. CASE UnitsLoaded
  <2>1. UNCHANGED <<units, created>> /\ pc = "loadUnits" /\ pc' = "applyDefaults"
    BY <1>2 DEF UnitsLoaded, same, config, callVars
  <2> QED BY <2>1 DEF UnitsInv, UnitsHeld, NoneDestroyed
<1>3. CASE CompileStep /\ pc' = "thrown"
  <2>1. ApplyDefaults /\ UNCHANGED callVars
    BY <1>3 DEF CompileStep, Next, ApplyDefault, NextDefaults, NextLoop, OpenOutput, Fail,
                ProcessBases, ProcessRoute, InitializeProxy, AddProxy, Execute, FetchParameter, Undefined, Fetched,
                AddSingleOperation, AddMashupOperation, AssembleResponse, Assemble, DeclareParameter,
                EndRoute, EndConfiguration
  <2>2. /\ UNCHANGED <<units, created>> /\ pc = "applyDefaults"
        /\ UnitsHeld /\ NoneDestroyed /\ created \in Seq(Nat)
    BY <1>3, <2>1 DEF ApplyDefaults, UnitsInv, callVars, same, config
  <2>3. units = <<>> => AllDestroyed'
    BY <2>2 DEF UnitsHeld, AllDestroyed
  <2>4. AllDestroyed' \/ DefaultsThrew'
    BY <1>3, <2>1, <2>3, ThrowingDefaults
  <2> QED BY <1>3, <2>2, <2>4 DEF UnitsInv, NoneDestroyed
<1>4. CASE CompileStep /\ pc' # "thrown"
  <2>1. UNCHANGED <<units, created>> /\ pc \notin {"compiled", "thrown", "exited"}
        /\ pc' \notin {"main", "loadConfiguration", "compiled", "exited"}
    <3>1. CASE ApplyDefaults \/ ApplyDefault \/ NextDefaults \/ OpenOutput \/ ProcessBases \/ ProcessRoute
      BY <1>4, <3>1 DEF CompileStep, ApplyDefaults, ApplyDefault, NextDefaults, NextLoop, OpenOutput, Fail,
                        ProcessBases, ProcessRoute, same, config, callVars
    <3>2. CASE InitializeProxy \/ Execute \/ FetchParameter \/ Fetched \/ AddSingleOperation \/ AddMashupOperation
      BY <1>4, <3>2 DEF CompileStep, InitializeProxy, AddProxy, Execute, FetchParameter, Undefined, Fetched, NextLoop,
                        AddSingleOperation, AddMashupOperation, same, config, callVars
    <3>3. CASE AssembleResponse \/ DeclareParameter \/ EndRoute \/ EndConfiguration
      BY <1>4, <3>3 DEF CompileStep, AssembleResponse, Assemble, NextLoop, Fail, DeclareParameter, Undefined,
                        EndRoute, EndConfiguration, same, config, callVars
    <3> QED BY <1>4, <3>1, <3>2, <3>3 DEF CompileStep, Next
  <2> QED BY <1>4, <2>1 DEF UnitsInv, UnitsHeld, NoneDestroyed
<1>5. CASE Terminate \/ PostProcess
  <2>1. /\ UNCHANGED created /\ pc \notin {"main", "loadConfiguration"} /\ pc' = "exited"
        /\ pc # "exited"
    BY <1>5 DEF Terminate, PostProcess, Exit
  <2>2. \A n \in DOMAIN created : created[n] \in {0, 1}
    BY <2>1 DEF UnitsInv, NoneDestroyed, HeldDestroyed
  <2> QED BY <2>1, <2>2 DEF UnitsInv
<1>6. CASE UNCHANGED <<vars, callVars>>
  <2>1. DefaultsThrew' <=> DefaultsThrew
    BY <1>6 DEF vars, DefaultsThrew, OperationFound, route
  <2> QED BY <1>6, <2>1 DEF vars, callVars, UnitsInv, UnitsHeld, NoneDestroyed, AllDestroyed, HeldDestroyed
<1> QED BY <1>1, <1>2, <1>3, <1>4, <1>5, <1>6, StepLoadUnit, StepDestroyUnits DEF CallNext

(* A parsed unit is destroyed once, when the routes have been compiled with *)
(* it and not before, whatever the slice files and wherever the compilation *)
(* fails, but for a failure in applyDefaults and a slice file listed twice. *)
THEOREM UnitsDestroyedOnce == CallSpec => []UnitsDestroyed
<1>1. UnitsInv => UnitsDestroyed
  <2> SUFFICES ASSUME UnitsInv PROVE UnitsDestroyed
    OBVIOUS
  <2>1. created \in Seq(Nat) /\ Len(created) \in Nat /\ DOMAIN created = 1..Len(created)
    BY LenProperties DEF UnitsInv
  <2>2. \A n \in DOMAIN created : created[n] <= 1
    BY DEF UnitsInv, NoneDestroyed, HeldDestroyed
  <2>3. Compiling => \A u \in DOMAIN units : created[units[u]] = 0
    BY DEF Compiling, UnitsInv, UnitsHeld, NoneDestroyed, Injection
  <2>4. pc = "compiled" => \A u \in DOMAIN units : created[units[u]] = 1
    BY DEF UnitsInv, UnitsHeld, HeldDestroyed, Injection
  <2>5. ASSUME UnitsHeld, HeldDestroyed, Cardinality(DOMAIN units) \in {0, Len(created)}
        PROVE  AllDestroyed
    <3>1. IsFiniteSet(DOMAIN created) /\ Cardinality(DOMAIN created) = Len(created)
      BY <2>1, FS_Interval
    <3>2. IsFiniteSet(DOMAIN units) /\ (Cardinality(DOMAIN units) = Len(created) =>
            units \in Surjection(DOMAIN units, DOMAIN created))
      BY <2>5, <3>1, FS_Injection DEF UnitsHeld
    <3>3. CASE Cardinality(DOMAIN units) = 0
      <4>1. created = <<>>
        BY <2>5, <3>2, <3>3, FS_EmptySet DEF UnitsHeld
      <4> QED BY <4>1 DEF AllDestroyed
    <3>4. CASE Cardinality(DOMAIN units) = Len(created)
      BY <2>5, <3>2, <3>4 DEF Surjection, HeldDestroyed, AllDestroyed
    <3> QED BY <2>5, <3>3, <3>4
  <2>6. pc = "thrown" /\ caught /\ ~DefaultsThrew /\ Cardinality(DOMAIN units) \in {0, Len(created)} => AllDestroyed
    BY <2>5 DEF UnitsInv
  <2> QED BY <2>2, <2>3, <2>4, <2>6 DEF UnitsDestroyed, AllDestroyed
<1>2. GenerationInv /\ UnitsInv /\ [CallNext]_<<vars, callVars>> => UnitsInv'
  BY StepUnits DEF GenerationInv
<1> QED BY <1>1, <1>2, InitUnitsInv, GenerationInvariant, PTL DEF CallSpec
=============================================================================
