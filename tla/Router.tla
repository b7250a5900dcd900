------------------------------- MODULE Router -------------------------------
(***************************************************************************)
(* Routing: common/pathparts.cpp and CoreWithDefaultRouter of core/core.cpp.*)
(*                                                                         *)
(* Core's constructor sorts the routes by their path, CoreWithDefaultRouter*)
(* distributes them over a table indexed by their number of path elements, *)
(* and findRoute scans the row of the request's length.  Everything runs   *)
(* in one thread at start-up; afterwards the table is only read.           *)
(*                                                                         *)
(* A path element is an integer, its rank among the element strings in the *)
(* order std::string_view compares them: so a path is a sequence of        *)
(* integers and paths compare lexicographically.  (A byte below '/' makes  *)
(* the two orders differ, but only between paths with different literals   *)
(* in one place, which no request matches both of.)                        *)
(***************************************************************************)
EXTENDS Integers, Sequences

CONSTANTS
  Literals,     \* route elements that match themselves
  Parameters,   \* route elements {name}, which match anything
  Elements,     \* request path elements
  Methods,      \* HTTP methods
  RoutePaths,   \* the paths routes are declared with
  RequestPaths, \* the paths requests come with
  MaxRoutes     \* bound on the routes a core loads

ASSUME RouterAssumption ==
  /\ Literals \subseteq Int /\ Parameters \subseteq Int /\ Elements \subseteq Int
  /\ Literals \cap Parameters = {}
  /\ RoutePaths \subseteq Seq(Literals \cup Parameters)
  /\ RequestPaths \subseteq Seq(Elements)
  /\ MaxRoutes \in Nat

Route == [path : RoutePaths, method : Methods]
Request == [path : RequestPaths, method : Methods]

VARIABLES
  allRoutes,  \* Core::allRoutes, sorted by path
  built,      \* how many of them the constructor's loop has placed
  routes,     \* routes[n + 1]: the routes of n elements
  request,    \* the request findRoute works on
  k,          \* the route of its row it looks at
  match,      \* whether a route matched but for its method
  result,     \* what findRoute returned or threw
  pc

vars == <<allRoutes, built, routes, request, k, match, result, pc>>

-----------------------------------------------------------------------------
(* Paths.                                                                  *)

pathElementCount(r) == Len(r.path)

(* PathLiteral::matches and PathParameter::matches *)
PartMatches(part, e) == part \in Literals => part = e

(* Path::matches: std::mismatch runs over the request's elements, and takes *)
(* it that the route has as many.                                           *)
Matches(r, path) == \A j \in 1..Len(path) : PartMatches(r.path[j], path[j])

(* The order of std::ranges::sort, by path. *)
Before(p, q) == \E j \in 1..Len(q) :
  /\ \A h \in 1..(j - 1) : h <= Len(p) /\ p[h] = q[h]
  /\ j > Len(p) \/ p[j] < q[j]

(* Mutated form: allRoutes is left in the order of loading. *)
AnyOrder(s) == TRUE

SortedByPath(s) == \A a, b \in 1..Len(s) : a < b => ~Before(s[b].path, s[a].path)

-----------------------------------------------------------------------------

NoRequest == [path |-> <<>>, method |-> "none"]

(* The sort is not stable, nor are the plug-ins loaded in a set order: any  *)
(* order of equal paths may result.                                         *)
Init ==
  /\ \E n \in 0..MaxRoutes : allRoutes \in [1..n -> Route]
  /\ SortedByPath(allRoutes)
  /\ built = 0
  /\ routes = <<>>
  /\ request = NoRequest
  /\ k = 0
  /\ match = FALSE
  /\ result = <<"none">>
  /\ pc = "build"

(* vector::resize, the new rows empty *)
Resize(table, n) == [j \in 1..n |-> IF j <= Len(table) THEN table[j] ELSE <<>>]

Place ==
  /\ pc = "build" /\ built < Len(allRoutes)
  /\ LET route == allRoutes[built + 1]
         n     == pathElementCount(route)
         table == IF Len(routes) <= n THEN Resize(routes, n + 1) ELSE routes
     IN routes' = [table EXCEPT ![n + 1] = Append(@, route)]
  /\ built' = built + 1
  /\ UNCHANGED <<allRoutes, request, k, match, result, pc>>

Built ==
  /\ pc = "build" /\ built = Len(allRoutes)
  /\ pc' = "ready"
  /\ UNCHANGED <<allRoutes, built, routes, request, k, match, result>>

(* Mutated form: > for >=. *)
FindRouteOneOver ==
  /\ pc = "ready"
  /\ request' \in Request
  /\ k' = 1 /\ match' = FALSE
  /\ IF Len(request'.path) > Len(routes)
     THEN result' = <<"404">> /\ pc' = "answered"
     ELSE result' = <<"none">> /\ pc' = "scan"
  /\ UNCHANGED <<allRoutes, built, routes>>

FindRoute ==
  /\ pc = "ready"
  /\ request' \in Request
  /\ k' = 1 /\ match' = FALSE
  /\ IF Len(request'.path) >= Len(routes)
     THEN result' = <<"404">> /\ pc' = "answered"
     ELSE result' = <<"none">> /\ pc' = "scan"
  /\ UNCHANGED <<allRoutes, built, routes>>

RouteSet == routes[Len(request.path) + 1]

(* Mutated form: 405 as soon as a route matches but for its method. *)
ScanGivesUp ==
  /\ pc = "scan" /\ k <= Len(RouteSet)
  /\ LET route == RouteSet[k] IN
     IF Matches(route, request.path)
     THEN /\ result' = IF route.method = request.method THEN <<"found", route>> ELSE <<"405">>
          /\ pc' = "answered" /\ UNCHANGED <<k, match>>
     ELSE k' = k + 1 /\ UNCHANGED <<match, result, pc>>
  /\ UNCHANGED <<allRoutes, built, routes, request>>

Scan ==
  /\ pc = "scan" /\ k <= Len(RouteSet)
  /\ LET route == RouteSet[k] IN
     IF Matches(route, request.path) /\ route.method = request.method
     THEN result' = <<"found", route>> /\ pc' = "answered" /\ UNCHANGED <<k, match>>
     ELSE k' = k + 1 /\ match' = (match \/ Matches(route, request.path)) /\ UNCHANGED <<result, pc>>
  /\ UNCHANGED <<allRoutes, built, routes, request>>

ScanEnd ==
  /\ pc = "scan" /\ k > Len(RouteSet)
  /\ result' = IF match THEN <<"405">> ELSE <<"404">>
  /\ pc' = "answered"
  /\ UNCHANGED <<allRoutes, built, routes, request, k, match>>

NextRequest ==
  /\ pc = "answered"
  /\ pc' = "ready" /\ request' = NoRequest /\ result' = <<"none">> /\ k' = 0 /\ match' = FALSE
  /\ UNCHANGED <<allRoutes, built, routes>>

Next == Place \/ Built \/ FindRoute \/ Scan \/ ScanEnd \/ NextRequest

Spec == Init /\ [][Next]_vars

-----------------------------------------------------------------------------
(* Properties.                                                             *)

Loaded == {allRoutes[j] : j \in 1..Len(allRoutes)}

(* A route applies to a request path element for element, both complete. *)
Applies(r, path) == Len(r.path) = Len(path) /\ \A j \in 1..Len(path) :
                      r.path[j] \in Parameters \/ r.path[j] = path[j]

(* findRoute answers as the routes loaded say, the bucket table and the     *)
(* scan order notwithstanding: the route it returns applies, has the        *)
(* request's method, and no other such route precedes it by path; 405 means *)
(* that routes apply but none has the method; 404 that none applies.        *)
LookupCorrect == pc = "answered" =>
  LET applicable == {r \in Loaded : Applies(r, request.path)}
      eligible   == {r \in applicable : r.method = request.method}
  IN \/ /\ result[1] = "found" /\ result[2] \in eligible
        /\ \A r \in eligible : ~Before(r.path, result[2].path)
     \/ result = <<"405">> /\ eligible = {} /\ applicable # {}
     \/ result = <<"404">> /\ applicable = {}

(* Path::matches is only asked about routes with as many elements as the    *)
(* request (std::mismatch would otherwise read past the route's parts), and *)
(* the row it scans is in the table.                                        *)
ScanInBounds == pc = "scan" =>
  /\ Len(request.path) + 1 \in DOMAIN routes
  /\ \A j \in DOMAIN RouteSet : Len(RouteSet[j].path) = Len(request.path)

(* A literal beats a parameter: of two routes that fit a request and first  *)
(* differ where one has a literal and the other a parameter, findRoute      *)
(* never returns the latter.  It owes this to '{' sorting after the first   *)
(* character of the literal.                                                *)
LiteralFirst == pc = "answered" /\ result[1] = "found" =>
  \A r \in Loaded : Applies(r, request.path) /\ r.method = request.method =>
    \A j \in 1..Len(r.path) :
      (\A h \in 1..(j - 1) : r.path[h] = result[2].path[h]) /\ r.path[j] \in Literals
        => result[2].path[j] = r.path[j]

=============================================================================
