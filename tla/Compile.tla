------------------------------- MODULE Compile -------------------------------
(***************************************************************************)
(* The icespider program, compile/main.cpp, around RouteCompiler: from its *)
(* options to its exit status, with the loading of the configuration and   *)
(* of the slice files (loadConfiguration, loadUnits) and the destruction   *)
(* of the parsed units.  compile may also be called as a library, by a     *)
(* caller that catches what it throws; main does not.                      *)
(***************************************************************************)
EXTENDS RouteCompiler

CONSTANTS
  Holds,         \* Holds[d]: the slice files in directory d
  Cwd,           \* the current directory
  Cases,         \* [configuration, slices, options, caught]: slices in order; of the
                 \* options a library's caller gives the directories only
  WaitStatuses   \* what system() may return

(* A sequence, as the configuration's lists are. *)
IsList(s) == s \in Seq({s[j] : j \in DOMAIN s})

ASSUME CompileAssumption ==
  /\ WaitStatuses \subseteq Nat /\ Cwd \in DOMAIN Holds
  /\ \A c \in Cases : /\ IsList(c.configuration.routes) /\ IsList(c.configuration.routeBases)
                        /\ \A k \in DOMAIN c.configuration.routes : IsRoute(c.configuration.routes[k])

VARIABLES
  options,       \* what the command line says
  searchPath,    \* directories to look for slice files in
  slices,        \* slice files not loaded yet
  created,       \* created[n]: how often the n-th unit created has been destroyed
  status         \* the exit status, or None

(* std::terminate ends the program by SIGABRT. *)
Terminated == 134

callVars == <<options, searchPath, slices, created, status>>

-----------------------------------------------------------------------------

CallInit ==
  /\ \E c \in Cases :
       /\ Start(c.configuration) /\ slices = c.slices /\ caught = c.caught /\ options = c.options
       /\ pc = IF c.caught THEN "loadConfiguration" ELSE "main"
       /\ searchPath = IF c.caught THEN <<Cwd>> \o c.options.include ELSE <<Cwd>>
  /\ units = <<>> /\ created = <<>> /\ status = None

Exit(s) == status' = s /\ pc' = "exited"

(* program_options throws for an option it does not know; no input or no    *)
(* output gets the usage.  Directories of -I replace the current one, and   *)
(* the input's comes last.                                                  *)
Main ==
  /\ pc = "main"
  /\ IF ~options.wellFormed THEN Exit(Terminated) /\ UNCHANGED searchPath
     ELSE IF options.help \/ ~options.input \/ ~options.output THEN Exit(1) /\ UNCHANGED searchPath
     ELSE /\ searchPath' = (IF options.include = <<>> THEN searchPath ELSE options.include) \o <<options.parent>>
          /\ pc' = "loadConfiguration" /\ UNCHANGED status
  /\ UNCHANGED <<same, text, todo, cpp, options, slices, created>>

LoadConfiguration ==
  /\ pc = "loadConfiguration" /\ pc' \in {"loadUnits", "thrown"}
  /\ UNCHANGED <<same, text, todo, cpp, callVars>>

-----------------------------------------------------------------------------
(* loadUnits.                                                              *)

Destroyed(ns) == [n \in DOMAIN created |-> IF n \in ns THEN created[n] + 1 ELSE created[n]]

(* The exception ends loadUnits: with its map of units, and (if anything    *)
(* unwinds the stack) with every unit in uDestroy.onFailure.                *)
LoadFails(units_) ==
  /\ pc' = "thrown" /\ units' = <<>> /\ UNCHANGED slices
  /\ created' = IF caught THEN [n \in DOMAIN units_ |-> units_[n] + 1] ELSE units_

(* Mutated form: the units are destroyed however loadUnits ends. *)
UnitsLoadedAndGone ==
  /\ pc = "loadUnits" /\ slices = <<>>
  /\ pc' = "applyDefaults" /\ created' = Destroyed(DOMAIN created)
  /\ UNCHANGED <<same, text, todo, cpp, options, searchPath, slices, status>>

UnitsLoaded ==
  /\ pc = "loadUnits" /\ slices = <<>>
  /\ pc' = "applyDefaults"
  /\ UNCHANGED <<same, text, todo, cpp, callVars>>

(* A file that no directory has, or that icecpp cannot preprocess; a unit   *)
(* that is created and does not parse; or one more unit in the map.         *)
LoadUnit ==
  /\ pc = "loadUnits" /\ slices # <<>>
  /\ \/ LoadFails(created)
     \/ /\ \E j \in DOMAIN searchPath : Head(slices) \in Holds[searchPath[j]]
        /\ \/ LoadFails(Append(created, 0))
           \/ /\ created' = Append(created, 0)
              /\ units' = Put(units, Head(slices), Len(created) + 1)
              /\ slices' = Tail(slices) /\ UNCHANGED pc
  /\ UNCHANGED <<routes, routeBases, caught, at, classes, text, todo, cpp, options, searchPath, status>>

-----------------------------------------------------------------------------
(* compile, and the end of main.                                           *)

CompileStep == Next /\ UNCHANGED callVars

(* uDestroy, when compile returns or an exception passes it. *)
DestroyUnits ==
  /\ pc = "done" \/ (pc = "failed" /\ caught)
  /\ pc' = IF pc = "done" THEN "compiled" ELSE "thrown"
  /\ created' = Destroyed({units[u] : u \in DOMAIN units})
  /\ UNCHANGED <<same, text, todo, cpp, options, searchPath, slices, status>>

(* Mutated form: main reports the exception and goes on to its return. *)
TerminateZero ==
  /\ pc \in {"failed", "thrown"} /\ ~caught /\ Exit(0)
  /\ UNCHANGED <<same, text, todo, cpp, options, searchPath, slices, created>>

(* Nothing catches the exception. *)
Terminate ==
  /\ pc \in {"failed", "thrown"} /\ ~caught /\ Exit(Terminated)
  /\ UNCHANGED <<same, text, todo, cpp, options, searchPath, slices, created>>

(* main returns what system() returned, of which the exit status is the     *)
(* low byte: the exit code of the post-processor is not in it.  By default  *)
(* that is clang-format -i, which writes the files it is given anew.        *)
PostProcess ==
  /\ pc = "compiled" /\ ~caught
  /\ IF options.post THEN (\E w \in WaitStatuses : Exit(w % 256)) /\ cpp' \in {cpp, "damaged"}
     ELSE Exit(0) /\ UNCHANGED cpp
  /\ UNCHANGED <<same, text, todo, options, searchPath, slices, created>>

CallNext ==
  \/ Main \/ LoadConfiguration \/ LoadUnit \/ UnitsLoaded
  \/ CompileStep \/ DestroyUnits \/ Terminate \/ PostProcess

CallSpec == CallInit /\ [][CallNext]_<<vars, callVars>>

-----------------------------------------------------------------------------
(* Properties.                                                             *)

Compiling == pc \notin {"main", "loadConfiguration", "loadUnits", "compiled", "thrown", "exited"}

(* Some operation of the route in progress is in no unit. *)
DefaultsThrew == units # <<>> /\ at <= Len(routes) /\
  \E o \in {route.operation} \cup {route.operations[n].operation : n \in DOMAIN route.operations} :
    o # None /\ ~OperationFound(o)

(* A parsed unit is destroyed once, when the routes have been compiled with *)
(* it and not before: after success, and after an exception on the way.     *)
(* There are two exceptions to that: applyDefaults throws before uDestroy   *)
(* is set, and of a slice file listed twice the first unit is forgotten.    *)
UnitsDestroyed ==
  /\ \A n \in DOMAIN created : created[n] <= 1
  /\ Compiling => \A u \in DOMAIN units : created[units[u]] = 0
  /\ pc = "compiled" => \A u \in DOMAIN units : created[units[u]] = 1
  /\ pc = "thrown" /\ caught /\ ~DefaultsThrew /\ Cardinality(DOMAIN units) \in {0, Len(created)} =>
       \A n \in DOMAIN created : created[n] = 1

(* What is written when every class was generated. *)
Generates == {"complete", "truncated"}

(* With exit status 0 the output is of this configuration, all of it: the   *)
(* base classes and then a class for every route were generated, and it is  *)
(* less than that only for what main does not look at, a failed write or    *)
(* what the post-processor does to it.  After the usage or a termination it *)
(* is not the output of this configuration, but an older one, none or half. *)
ZeroMeansCompiled ==
  /\ status = 0 => /\ classes = routeBases \o [n \in DOMAIN routes |-> n]
                   /\ cpp \in Generates \/ (options.post /\ cpp = "damaged")
  /\ status \in {1, Terminated} /\ ~options.post => cpp \notin Generates

=============================================================================
