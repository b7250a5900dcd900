---------------------------- MODULE RouterProofs ----------------------------
(***************************************************************************)
(* findRoute is right for every set of routes and every request.           *)
(*                                                                         *)
(* The table is described row by row: TableSound says that a row holds     *)
(* loaded routes of its length only, TableComplete that every route placed *)
(* is in its row, TableSorted that a row keeps the order of allRoutes.     *)
(* ScanInv says what the scan has learnt when it is at route k.            *)
(***************************************************************************)
EXTENDS Router, SequenceTheorems, TLAPS

Types ==
  /\ allRoutes \in Seq(Route) /\ SortedByPath(allRoutes)
  /\ built \in 0..Len(allRoutes)
  /\ routes \in Seq(Seq(Route))
  /\ k \in Nat /\ match \in BOOLEAN
  /\ pc \in {"build", "ready", "scan", "answered"}
  /\ pc # "build" => built = Len(allRoutes)

TableSound == \A n \in 1..Len(routes) : \A j \in 1..Len(routes[n]) :
  /\ Len(routes[n][j].path) = n - 1
  /\ \E a \in 1..built : allRoutes[a] = routes[n][j]

TableComplete == \A a \in 1..built :
  /\ Len(allRoutes[a].path) + 1 \in 1..Len(routes)
  /\ \E j \in 1..Len(routes[Len(allRoutes[a].path) + 1]) :
       routes[Len(allRoutes[a].path) + 1][j] = allRoutes[a]

TableSorted == \A n \in 1..Len(routes) : \A i, j \in 1..Len(routes[n]) :
  i < j => ~Before(routes[n][j].path, routes[n][i].path)

Table == TableSound /\ TableComplete /\ TableSorted

Fits(r) == Matches(r, request.path) /\ r.method = request.method

ScanInv == pc = "scan" =>
  /\ request \in Request /\ Len(request.path) + 1 \in 1..Len(routes)
  /\ k \in 1..(Len(RouteSet) + 1)
  /\ \A j \in 1..(k - 1) : ~Fits(RouteSet[j])
  /\ match <=> \E j \in 1..(k - 1) : Matches(RouteSet[j], request.path)

RInv == Types /\ Table /\ ScanInv /\ LookupCorrect

-----------------------------------------------------------------------------
(* Matching.                                                               *)

LEMMA RouteTypes ==
  ASSUME NEW r \in Route
  PROVE  r.path \in Seq(Literals \cup Parameters) /\ Len(r.path) \in Nat
  BY RouterAssumption DEF Route

(* The part-wise test is the intended one, for paths of equal length. *)
LEMMA MatchesApplies ==
  ASSUME NEW r \in Route, NEW p, Len(p) \in Nat, Len(r.path) = Len(p)
  PROVE  Matches(r, p) <=> Applies(r, p)
<1>1. \A j \in 1..Len(p) : r.path[j] \in Literals \cup Parameters
  BY RouteTypes
<1>2. \A j \in 1..Len(p) : PartMatches(r.path[j], p[j]) <=> (r.path[j] \in Parameters \/ r.path[j] = p[j])
  BY <1>1, RouterAssumption DEF PartMatches
<1> QED BY <1>2 DEF Matches, Applies

LEMMA NotBeforeItself ==
  ASSUME NEW r \in Route
  PROVE  ~Before(r.path, r.path)
<1>1. Len(r.path) \in Nat /\ \A j \in 1..Len(r.path) : r.path[j] \in Literals \cup Parameters
  BY RouteTypes
<1>2. \A j \in 1..Len(r.path) : r.path[j] \in Int
  BY <1>1, RouterAssumption
<1> QED BY <1>1, <1>2 DEF Before

-----------------------------------------------------------------------------
(* Placing a route.                                                        *)

LEMMA StepPlace ==
  ASSUME Types, Table, Place
  PROVE  Types' /\ Table'
<1> DEFINE route == allRoutes[built + 1]
           n == Len(route.path)
           table == IF Len(routes) <= n THEN Resize(routes, n + 1) ELSE routes
<1>1. /\ built \in Nat /\ built + 1 \in 1..Len(allRoutes) /\ route \in Route /\ n \in Nat
      /\ built' = built + 1 /\ allRoutes' = allRoutes /\ UNCHANGED <<k, match, pc>> /\ pc = "build"
      /\ routes' = [table EXCEPT ![n + 1] = Append(@, route)]
  <2>1. built \in Nat /\ built + 1 \in 1..Len(allRoutes)
    BY DEF Place, Types
  <2>2. route \in Route
    BY <2>1 DEF Types
  <2> QED BY <2>1, <2>2, RouteTypes DEF Place, pathElementCount
<1>2. /\ table \in Seq(Seq(Route)) /\ n + 1 \in 1..Len(table) /\ Len(routes) <= Len(table)
      /\ \A m \in 1..Len(table) : table[m] = IF m \in 1..Len(routes) THEN routes[m] ELSE <<>>
  <2>1. CASE Len(routes) <= n
    <3>1. /\ \A m \in 1..(n + 1) : Resize(routes, n + 1)[m] \in Seq(Route)
          /\ table = [m \in 1..(n + 1) |-> IF m <= Len(routes) THEN routes[m] ELSE <<>>]
      BY <1>1, <2>1 DEF Resize, Types
    <3>2. table \in Seq(Seq(Route)) /\ Len(table) = n + 1
      BY <1>1, <2>1, <3>1 DEF Resize, Types
    <3> QED BY <1>1, <2>1, <3>1, <3>2, SMTT(30) DEF Types
  <2>2. CASE ~(Len(routes) <= n)
    BY <1>1, <2>2 DEF Types
  <2> QED BY <2>1, <2>2
<1> HIDE DEF table
<1>3. /\ routes' \in Seq(Seq(Route)) /\ Len(routes') = Len(table)
      /\ routes'[n + 1] = Append(table[n + 1], route)
      /\ \A m \in 1..Len(table) : m # n + 1 => routes'[m] = table[m]
      /\ table[n + 1] \in Seq(Route)
  BY <1>1, <1>2
<1> HIDE DEF n, route
<1>4. Types'
  BY <1>1, <1>3 DEF Types
<1>5. \A m \in 1..Len(table) : \A j \in 1..Len(table[m]) :
        m \in 1..Len(routes) /\ table[m] = routes[m]
  BY <1>2
<1>6. TableSound'
  <2> SUFFICES ASSUME NEW m \in 1..Len(routes'), NEW j \in 1..Len(routes'[m])
               PROVE  Len(routes'[m][j].path) = m - 1 /\ \E a \in 1..built' : allRoutes'[a] = routes'[m][j]
    BY DEF TableSound
  <2>1. CASE m = n + 1 /\ j = Len(table[n + 1]) + 1
    BY <1>1, <1>3, <2>1 DEF n, route
  <2>2. CASE ~(m = n + 1 /\ j = Len(table[n + 1]) + 1)
    <3>1. j \in 1..Len(table[m]) /\ routes'[m][j] = table[m][j]
      BY <1>1, <1>3, <2>2
    <3>2. m \in 1..Len(routes) /\ table[m] = routes[m]
      BY <1>3, <1>5, <3>1
    <3>3. PICK a \in 1..built : Len(routes[m][j].path) = m - 1 /\ allRoutes[a] = routes[m][j]
      BY <3>1, <3>2 DEF Table, TableSound
    <3>4. a \in 1..built' /\ allRoutes'[a] = routes[m][j]
      BY <1>1, <3>3
    <3> QED BY <3>1, <3>2, <3>3, <3>4
  <2> QED BY <2>1, <2>2
<1>7. TableComplete'
  <2> SUFFICES ASSUME NEW a \in 1..built'
               PROVE  /\ Len(allRoutes[a].path) + 1 \in 1..Len(routes')
                      /\ \E j \in 1..Len(routes'[Len(allRoutes[a].path) + 1]) :
                           routes'[Len(allRoutes[a].path) + 1][j] = allRoutes[a]
    BY <1>1 DEF TableComplete
  <2>1. CASE a = built + 1
    <3>1. allRoutes[a] = route /\ Len(allRoutes[a].path) = n
      BY <2>1 DEF n, route
    <3>2. /\ Len(table[n + 1]) + 1 \in 1..Len(routes'[n + 1])
          /\ routes'[n + 1][Len(table[n + 1]) + 1] = route
      BY <1>1, <1>3
    <3> QED BY <1>2, <1>3, <3>1, <3>2
  <2>2. CASE a # built + 1
    <3>1. a \in 1..built
      BY <1>1, <2>2
    <3> DEFINE m == Len(allRoutes[a].path) + 1
    <3>2. PICK j \in 1..Len(routes[m]) : m \in 1..Len(routes) /\ routes[m][j] = allRoutes[a]
      BY <3>1 DEF Table, TableComplete
    <3>3. m \in 1..Len(table) /\ table[m] = routes[m]
      <4>1. Len(table) \in Nat /\ Len(routes) \in Nat /\ Len(routes) <= Len(table)
        BY <1>2 DEF Types
      <4>2. m \in 1..Len(routes)
        BY <3>2
      <4> HIDE DEF m
      <4>3. m \in 1..Len(table)
        BY <4>1, <4>2
      <4>4. table[m] = IF m \in 1..Len(routes) THEN routes[m] ELSE <<>>
        BY <1>2, <4>3, Zenon
      <4> QED BY <4>2, <4>3, <4>4
    <3>4. j \in 1..Len(routes'[m]) /\ routes'[m][j] = routes[m][j]
      <4>1. j \in 1..Len(table[m])
        BY <3>2, <3>3, Zenon
      <4>2. j \in 1..Len(routes'[m]) /\ routes'[m][j] = table[m][j]
        <5> HIDE DEF m
        <5>1. CASE m # n + 1
          BY <1>3, <3>3, <4>1, <5>1, Zenon
        <5>2. CASE m = n + 1
          <6> DEFINE row == table[n + 1]
          <6>1. row \in Seq(Route) /\ routes'[n + 1] = Append(row, route) /\ j \in 1..Len(row)
            BY <1>3, <4>1, <5>2
          <6> HIDE DEF row
          <6>2. j \in 1..Len(Append(row, route)) /\ Append(row, route)[j] = row[j]
            BY <6>1
          <6> QED BY <5>2, <6>1, <6>2 DEF row
        <5> QED BY <5>1, <5>2
      <4> QED BY <3>3, <4>2, Zenon
    <3> QED BY <1>3, <3>2, <3>3, <3>4
  <2> QED BY <2>1, <2>2
<1>8. TableSorted'
  <2> SUFFICES ASSUME NEW m \in 1..Len(routes'), NEW i \in 1..Len(routes'[m]),
                      NEW j \in 1..Len(routes'[m]), i < j
               PROVE  ~Before(routes'[m][j].path, routes'[m][i].path)
    BY DEF TableSorted, Before
  <2>1. i \in 1..Len(table[m]) /\ routes'[m][i] = table[m][i]
    BY <1>1, <1>3
  <2>2. m \in 1..Len(routes) /\ table[m] = routes[m]
    BY <1>3, <1>5, <2>1
  <2>3. CASE m = n + 1 /\ j = Len(table[n + 1]) + 1
    <3>1. routes'[m][j] = allRoutes[built + 1]
      BY <1>1, <1>3, <2>3 DEF route
    <3>2. PICK a \in 1..built : allRoutes[a] = routes'[m][i]
      BY <2>1, <2>2 DEF Table, TableSound
    <3> QED BY <1>1, <3>1, <3>2, SMTT(30) DEF Types, SortedByPath
  <2>4. CASE ~(m = n + 1 /\ j = Len(table[n + 1]) + 1)
    <3>1. j \in 1..Len(table[m]) /\ routes'[m][j] = table[m][j]
      BY <1>1, <1>3, <2>4
    <3> QED BY <2>1, <2>2, <3>1 DEF Table, TableSorted
  <2> QED BY <2>3, <2>4
<1> QED BY <1>4, <1>6, <1>7, <1>8 DEF Table

-----------------------------------------------------------------------------
(* Finding a route.                                                        *)

(* What the rows say of the routes loaded, once the table is built. *)
LEMMA RowOfRequest ==
  ASSUME Types, Table, pc # "build", NEW p, Len(p) \in Nat
  PROVE  /\ Len(p) + 1 \in 1..Len(routes) =>
              /\ \A j \in 1..Len(routes[Len(p) + 1]) :
                   LET r == routes[Len(p) + 1][j] IN r \in Route /\ r \in Loaded /\ Len(r.path) = Len(p)
              /\ \A r \in Loaded : Applies(r, p) =>
                   \E j \in 1..Len(routes[Len(p) + 1]) : routes[Len(p) + 1][j] = r
         /\ Len(p) + 1 \notin 1..Len(routes) => \A r \in Loaded : ~Applies(r, p)
<1> DEFINE row == Len(p) + 1
<1>1. built = Len(allRoutes)
  BY DEF Types
<1>2. ASSUME row \in 1..Len(routes), NEW j \in 1..Len(routes[row])
      PROVE  routes[row][j] \in Route /\ routes[row][j] \in Loaded /\ Len(routes[row][j].path) = Len(p)
  <2>1. Len(routes[row][j].path) = row - 1 /\ \E a \in 1..built : allRoutes[a] = routes[row][j]
    BY <1>2 DEF Table, TableSound
  <2>2. routes[row] \in Seq(Route)
    BY <1>2 DEF Types
  <2> QED BY <1>1, <1>2, <2>1, <2>2 DEF Loaded
<1>3. ASSUME NEW r \in Loaded, Applies(r, p)
      PROVE  row \in 1..Len(routes) /\ \E j \in 1..Len(routes[row]) : routes[row][j] = r
  <2>1. PICK a \in 1..built : allRoutes[a] = r
    BY <1>1 DEF Loaded
  <2>2. Len(allRoutes[a].path) + 1 = row
    BY <1>3, <2>1 DEF Applies
  <2> QED BY <2>1, <2>2 DEF Table, TableComplete
<1> QED BY <1>2, <1>3

LEMMA StepFindRoute ==
  ASSUME Types, Table, FindRoute
  PROVE  Types' /\ Table' /\ ScanInv' /\ LookupCorrect'
<1>1. /\ pc = "ready" /\ request' \in Request /\ k' = 1 /\ match' = FALSE
      /\ allRoutes' = allRoutes /\ built' = built /\ routes' = routes
      /\ pc' \in {"scan", "answered"}
  BY DEF FindRoute
<1>2. Types' /\ Table'
  <2>1. Types'
    BY <1>1 DEF Types
  <2>2. Table'
    BY <1>1 DEF Table, TableSound, TableComplete, TableSorted
  <2> QED BY <2>1, <2>2
<1>3. Len(request'.path) \in Nat /\ Len(routes) \in Nat
  BY <1>1, RouterAssumption DEF Request, Types
<1>4. CASE Len(request'.path) >= Len(routes)
  <2>1. result' = <<"404">> /\ pc' = "answered"
    BY <1>4 DEF FindRoute
  <2>2. \A r \in Loaded : ~Applies(r, request'.path)
    BY <1>1, <1>3, <1>4, RowOfRequest
  <2>3. Loaded' = Loaded
    BY <1>1 DEF Loaded
  <2> QED BY <1>2, <2>1, <2>2, <2>3 DEF ScanInv, LookupCorrect, Applies
<1>5. CASE ~(Len(request'.path) >= Len(routes))
  <2>1. pc' = "scan" /\ Len(request'.path) + 1 \in 1..Len(routes)
    BY <1>3, <1>5 DEF FindRoute
  <2>2. Len(routes[Len(request'.path) + 1]) \in Nat
    BY <2>1 DEF Types
  <2> QED BY <1>1, <1>2, <2>1, <2>2 DEF ScanInv, RouteSet, LookupCorrect
<1> QED BY <1>4, <1>5

LEMMA StepScan ==
  ASSUME RInv, Scan
  PROVE  Types' /\ Table' /\ ScanInv' /\ LookupCorrect'
<1> USE DEF RInv
<1> DEFINE route == RouteSet[k]
           hit   == Matches(route, request.path)
<1>1. /\ pc = "scan" /\ k \in 1..Len(RouteSet) /\ Len(RouteSet) \in Nat
      /\ UNCHANGED <<allRoutes, built, routes, request>>
      /\ request \in Request /\ Len(request.path) \in Nat /\ Len(request.path) + 1 \in 1..Len(routes)
  <2>1. pc = "scan" /\ k <= Len(RouteSet) /\ UNCHANGED <<allRoutes, built, routes, request>>
    BY DEF Scan
  <2>2. request \in Request /\ Len(request.path) + 1 \in 1..Len(routes) /\ k \in 1..(Len(RouteSet) + 1)
    BY <2>1 DEF ScanInv
  <2>3. Len(RouteSet) \in Nat /\ Len(request.path) \in Nat
    BY <2>2, RouterAssumption DEF Types, RouteSet, Request
  <2> QED BY <2>1, <2>2, <2>3
<1>2. /\ \A j \in 1..Len(RouteSet) :
           RouteSet[j] \in Route /\ RouteSet[j] \in Loaded /\ Len(RouteSet[j].path) = Len(request.path)
      /\ \A r \in Loaded : Applies(r, request.path) => \E j \in 1..Len(RouteSet) : RouteSet[j] = r
  BY <1>1, RowOfRequest DEF RouteSet
<1>3. Table'
  BY <1>1 DEF Table, TableSound, TableComplete, TableSorted
<1>4. RouteSet' = RouteSet /\ Loaded' = Loaded
  BY <1>1 DEF RouteSet, Loaded
<1>5. CASE hit /\ route.method = request.method
  <2>1. result' = <<"found", route>> /\ pc' = "answered" /\ k' = k /\ match' = match
    BY <1>5 DEF Scan
  <2>2. Types'
    BY <1>1, <2>1 DEF Types
  <2>3. route \in Loaded /\ Applies(route, request.path)
    BY <1>1, <1>2, <1>5, MatchesApplies
  <2>4. ASSUME NEW r \in Loaded, Applies(r, request.path), r.method = request.method
        PROVE  ~Before(r.path, route.path)
    <3>1. PICK j \in 1..Len(RouteSet) : RouteSet[j] = r
      BY <1>2, <2>4
    <3>2. Fits(r)
      BY <1>1, <1>2, <2>4, <3>1, MatchesApplies DEF Fits
    <3>3. j >= k
      BY <1>1, <3>1, <3>2 DEF ScanInv
    <3>4. CASE j = k
      BY <1>2, <3>1, <3>4, NotBeforeItself
    <3>5. CASE j > k
      BY <1>1, <3>1, <3>5 DEF Table, TableSorted, RouteSet
    <3> QED BY <3>3, <3>4, <3>5, <1>1
  <2>5. LookupCorrect'
    BY <1>1, <1>4, <1>5, <2>1, <2>3, <2>4, SMTT(30) DEF LookupCorrect, Applies, Before
  <2> QED BY <1>3, <2>1, <2>2, <2>5 DEF ScanInv
<1>6. CASE ~(hit /\ route.method = request.method)
  <2>1. k' = k + 1 /\ match' = (match \/ hit) /\ pc' = "scan"
    BY <1>6, <1>1 DEF Scan
  <2>2. Types'
    BY <1>1, <2>1 DEF Types
  <2>3. \A j \in 1..(k' - 1) : j = k \/ j \in 1..(k - 1)
    BY <1>1, <2>1
  <2>4. k \in 1..(k' - 1) /\ \A j \in 1..(k - 1) : j \in 1..(k' - 1)
    BY <1>1, <2>1
  <2>5. ~Fits(RouteSet[k])
    BY <1>6 DEF Fits
  <2>6. ScanInv'
    <3>1. \A j \in 1..(k' - 1) : ~Fits(RouteSet[j])
      BY <1>1, <2>3, <2>5 DEF ScanInv
    <3>2. match' <=> \E j \in 1..(k' - 1) : Matches(RouteSet[j], request.path)
      BY <1>1, <2>1, <2>3, <2>4 DEF ScanInv
    <3>3. k' \in 1..(Len(RouteSet) + 1)
      BY <1>1, <2>1
    <3> QED BY <1>1, <1>4, <3>1, <3>2, <3>3 DEF ScanInv, Fits, Matches
  <2>7. LookupCorrect'
    BY <2>1 DEF LookupCorrect
  <2> QED BY <1>3, <2>2, <2>6, <2>7
<1> QED BY <1>5, <1>6

LEMMA StepScanEnd ==
  ASSUME RInv, ScanEnd
  PROVE  Types' /\ Table' /\ ScanInv' /\ LookupCorrect'
<1> USE DEF RInv
<1>1. /\ pc = "scan" /\ k > Len(RouteSet) /\ pc' = "answered"
      /\ UNCHANGED <<allRoutes, built, routes, request, k, match>>
      /\ result' = IF match THEN <<"405">> ELSE <<"404">>
  BY DEF ScanEnd
<1>2. /\ request \in Request /\ Len(request.path) + 1 \in 1..Len(routes)
      /\ k = Len(RouteSet) + 1 /\ Len(RouteSet) \in Nat /\ Len(request.path) \in Nat
  <2>1. request \in Request /\ Len(request.path) + 1 \in 1..Len(routes) /\ k \in 1..(Len(RouteSet) + 1)
    BY <1>1 DEF ScanInv
  <2>2. Len(RouteSet) \in Nat /\ Len(request.path) \in Nat
    BY <2>1, RouterAssumption DEF Types, RouteSet, Request
  <2> QED BY <1>1, <2>1, <2>2
<1>3. /\ \A j \in 1..Len(RouteSet) : ~Fits(RouteSet[j])
      /\ match <=> \E j \in 1..Len(RouteSet) : Matches(RouteSet[j], request.path)
  BY <1>1, <1>2 DEF ScanInv
<1>4. /\ \A j \in 1..Len(RouteSet) :
           RouteSet[j] \in Route /\ RouteSet[j] \in Loaded /\ Len(RouteSet[j].path) = Len(request.path)
      /\ \A r \in Loaded : Applies(r, request.path) => \E j \in 1..Len(RouteSet) : RouteSet[j] = r
  BY <1>1, <1>2, RowOfRequest DEF RouteSet
<1>5. \A r \in Loaded : Applies(r, request.path) => r.method # request.method
  BY <1>2, <1>3, <1>4, MatchesApplies DEF Fits
<1>6. match <=> \E r \in Loaded : Applies(r, request.path)
  BY <1>2, <1>3, <1>4, MatchesApplies
<1>7. Types' /\ Table'
  BY <1>1 DEF Types, Table, TableSound, TableComplete, TableSorted
<1>8. Loaded' = Loaded
  BY <1>1 DEF Loaded
<1>9. LookupCorrect'
  BY <1>1, <1>5, <1>6, <1>8 DEF LookupCorrect, Applies, Types
<1> QED BY <1>1, <1>7, <1>9 DEF ScanInv

-----------------------------------------------------------------------------
(* The inductive invariant and what follows from it.                       *)

LEMMA InitRInv == Init => RInv
<1> SUFFICES ASSUME Init PROVE RInv
  OBVIOUS
<1>1. PICK n \in 0..MaxRoutes : allRoutes \in [1..n -> Route]
  BY DEF Init
<1>2. allRoutes \in Seq(Route) /\ Len(allRoutes) \in Nat
  <2>1. n \in Nat
    BY RouterAssumption
  <2>2. allRoutes \in [1..n -> Route]
    BY <1>1
  <2>3. DOMAIN allRoutes = 1..n /\ \A j \in 1..n : allRoutes[j] \in Route
    BY <2>2
  <2>4. allRoutes = [j \in 1..n |-> allRoutes[j]]
    BY <2>2
  <2>5. [j \in 1..n |-> allRoutes[j]] \in Seq(Route)
    BY <2>1, <2>3
  <2>6. allRoutes \in Seq(Route)
    BY <2>4, <2>5, Zenon
  <2> QED BY <2>6, LenProperties
<1>3. Types
  <2>1. routes \in Seq(Seq(Route))
    BY DEF Init
  <2>2. SortedByPath(allRoutes) /\ built \in 0..Len(allRoutes)
    BY <1>2 DEF Init
  <2> QED BY <1>2, <2>1, <2>2 DEF Init, Types
<1>4. Table
  BY DEF Init, Table, TableSound, TableComplete, TableSorted
<1> QED BY <1>3, <1>4 DEF Init, RInv, ScanInv, LookupCorrect

LEMMA StepRInv == RInv /\ [Next]_vars => RInv'
<1> SUFFICES ASSUME RInv, [Next]_vars PROVE RInv'
  OBVIOUS
<1>1. CASE Place
  <2>1. Types' /\ Table'
    BY <1>1, StepPlace DEF RInv
  <2>2. pc' = "build"
    BY <1>1 DEF Place
  <2> QED BY <2>1, <2>2 DEF RInv, ScanInv, LookupCorrect
<1>2. CASE Built \/ NextRequest
  <2>1. UNCHANGED <<allRoutes, built, routes>> /\ pc' = "ready" /\ k' \in Nat /\ match' \in BOOLEAN
        /\ built = Len(allRoutes)
    <3>1. CASE Built
      BY <3>1 DEF Built, RInv, Types
    <3>2. CASE NextRequest
      BY <3>2 DEF NextRequest, RInv, Types
    <3> QED BY <1>2, <3>1, <3>2
  <2>2. Types' /\ Table'
    BY <2>1 DEF RInv, Types, Table, TableSound, TableComplete, TableSorted
  <2> QED BY <2>1, <2>2 DEF RInv, ScanInv, LookupCorrect
<1>3. CASE FindRoute
  BY <1>3, StepFindRoute DEF RInv
<1>4. CASE Scan
  BY <1>4, StepScan DEF RInv
<1>5. CASE ScanEnd
  BY <1>5, StepScanEnd DEF RInv
<1>6. CASE UNCHANGED vars
  BY <1>6 DEF vars, RInv, Types, Table, TableSound, TableComplete, TableSorted,
     ScanInv, RouteSet, Fits, LookupCorrect, Loaded
<1> QED BY <1>1, <1>2, <1>3, <1>4, <1>5, <1>6 DEF Next

(* findRoute answers what the loaded routes call for. *)
THEOREM RoutesFound == Spec => []LookupCorrect
<1>1. RInv => LookupCorrect
  BY DEF RInv
<1> QED BY <1>1, InitRInv, StepRInv, PTL DEF Spec

(* The scan never asks a route of another length than the request's. *)
THEOREM ScanStaysInBounds == Spec => []ScanInBounds
<1>1. RInv => ScanInBounds
  <2> SUFFICES ASSUME RInv, pc = "scan" PROVE ScanInBounds
    BY DEF ScanInBounds
  <2>1. request \in Request /\ Len(request.path) + 1 \in 1..Len(routes)
    BY DEF RInv, ScanInv
  <2>2. Len(request.path) \in Nat /\ routes \in Seq(Seq(Route))
    BY <2>1, RouterAssumption DEF Request, RInv, Types
  <2>3. \A j \in 1..Len(RouteSet) : Len(RouteSet[j].path) = Len(request.path)
    BY <2>1, <2>2, RowOfRequest DEF RInv, RouteSet
  <2>4. DOMAIN routes = 1..Len(routes) /\ DOMAIN RouteSet = 1..Len(RouteSet)
    BY <2>1, <2>2 DEF RouteSet
  <2> QED BY <2>1, <2>3, <2>4 DEF ScanInBounds
<1> QED BY <1>1, InitRInv, StepRInv, PTL DEF Spec

(* If every literal sorts before every parameter, as text before '{' does,  *)
(* a route with a literal always wins over one with a parameter there.      *)
THEOREM LiteralsWin ==
  ASSUME \A l \in Literals, p \in Parameters : l < p
  PROVE  Spec => []LiteralFirst
<1>1. RInv => LiteralFirst
  <2> SUFFICES ASSUME RInv, pc = "answered", result[1] = "found",
                      NEW r \in Loaded, Applies(r, request.path), r.method = request.method,
                      NEW j \in 1..Len(r.path),
                      \A h \in 1..(j - 1) : r.path[h] = result[2].path[h],
                      r.path[j] \in Literals, result[2].path[j] # r.path[j]
               PROVE  FALSE
    BY DEF LiteralFirst
  <2>1. /\ result[2] \in Loaded /\ Applies(result[2], request.path)
        /\ ~Before(r.path, result[2].path)
    BY DEF RInv, LookupCorrect
  <2>2. r \in Route
    BY DEF RInv, Types, Loaded
  <2>3. Len(r.path) = Len(request.path) /\ Len(result[2].path) = Len(request.path) /\ Len(r.path) \in Nat
    BY <2>1, <2>2, RouteTypes DEF Applies
  <2>4. r.path[j] = request.path[j]
    BY <2>3, RouterAssumption DEF Applies
  <2>5. result[2].path[j] \in Parameters
    BY <2>1, <2>3, <2>4 DEF Applies
  <2>6. r.path[j] < result[2].path[j]
    BY <2>5
  <2> QED BY <2>1, <2>3, <2>6 DEF Before
<1> QED BY <1>1, InitRInv, StepRInv, PTL DEF Spec

=============================================================================
