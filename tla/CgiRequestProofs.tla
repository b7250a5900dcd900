--------------------------- MODULE CgiRequestProofs ---------------------------
(***************************************************************************)
(* The maps of a request are in order and answer as they should, for every *)
(* environment, every text of a query, a cookie or a name, of any length.  *)
(*                                                                         *)
(* The texts and the maps are made by loops.  What a loop makes is shown   *)
(* by induction over its turns: UpTo from the front and DownFrom from the  *)
(* back, Iterated and Reversed for the function of the turns itself, which *)
(* is there because its equations have a solution.                         *)
(*                                                                         *)
(* A map of headers is a map of variables whose names are in capitals      *)
(* (HdrInsertAsVar, HdrFoundAsVar), so FlatMap is argued about once.  An   *)
(* insertion keeps the order (VarInserted), is found (VarInsertFound) and  *)
(* leaves the hindmost of a name hindmost (VarInsertLast).                 *)
(*                                                                         *)
(* What is written is read: urlDecode turn by turn takes back what         *)
(* urlencode added (DecodesEncoded), Split finds the separators that the   *)
(* client put between its cookies and no others (CookieHeaderSplit).       *)
(***************************************************************************)
EXTENDS Parameters, SequenceTheorems, FiniteSetTheorems, WellFoundedInduction, TLAPS

-----------------------------------------------------------------------------
(* Induction with a set for its predicate, which the provers can use.      *)

LEMMA SomeLeast ==
  ASSUME NEW S, S \subseteq Nat, S # {}
  PROVE  \E x \in S : \A h \in S : x <= h
<1> DEFINE Lt == OpToRel(<, Nat)
<1>1. IsWellFoundedOn(Lt, Nat)
  BY NatLessThanWellFounded
<1>2. \A x, y \in Nat : <<y, x>> \in Lt <=> y < x
  BY DEF OpToRel
<1> HIDE DEF Lt
<1>3. PICK x \in S : \A y \in S : ~(<<y, x>> \in Lt)
  BY <1>1, WFMin
<1>4. ASSUME NEW h \in S PROVE x <= h
  <2>1. x \in Nat /\ h \in Nat
    OBVIOUS
  <2>2. ~(h < x)
    BY <1>2, <1>3, <2>1
  <2> QED BY <2>1, <2>2
<1> QED BY <1>4

LEMMA UpTo ==
  ASSUME NEW n \in Nat, NEW P, 0 \in P, \A j \in 0..(n - 1) : j \in P => j + 1 \in P
  PROVE  \A j \in 0..n : j \in P
<1> SUFFICES ASSUME NEW i \in 0..n, i \notin P PROVE FALSE
  OBVIOUS
<1> DEFINE S == {j \in 0..n : j \notin P}
<1>1. PICK x \in S : \A h \in S : x <= h
  <2>1. S \subseteq Nat /\ S # {}
    OBVIOUS
  <2> HIDE DEF S
  <2> QED BY <2>1, SomeLeast
<1>2. x # 0 /\ x - 1 \in 0..(n - 1) /\ x - 1 \notin S
  BY <1>1
<1>3. x - 1 \in P /\ (x - 1) + 1 = x
  BY <1>2
<1> QED BY <1>1, <1>2, <1>3

(* A function defined by recursion over 0..n is what its equations say. *)
Iterates(f, n, X, x, step) == f \in [0..n -> X] /\ f[0] = x /\ \A j \in 1..n : f[j] = step[j][f[j - 1]]

LEMMA Iterated ==
  ASSUME NEW n \in Nat, NEW X, NEW x \in X, NEW step \in [1..n -> [X -> X]]
  PROVE  \E f : Iterates(f, n, X, x, step)
<1> DEFINE P == {m \in 0..n : \E f \in [0..m -> X] : f[0] = x /\ \A j \in 1..m : f[j] = step[j][f[j - 1]]}
<1>1. 0 \in P
  <2> DEFINE f == [j \in 0..0 |-> x]
  <2>1. f \in [0..0 -> X] /\ f[0] = x /\ 0 \in 0..n /\ 1..0 = {}
    OBVIOUS
  <2> HIDE DEF f
  <2> QED BY <2>1
<1>2. ASSUME NEW m \in 0..(n - 1), m \in P PROVE m + 1 \in P
  <2>1. PICK f \in [0..m -> X] : f[0] = x /\ \A j \in 1..m : f[j] = step[j][f[j - 1]]
    BY <1>2
  <2> DEFINE g == [j \in 0..(m + 1) |-> IF j <= m THEN f[j] ELSE step[m + 1][f[m]]]
  <2>2. f[m] \in X /\ m + 1 \in 1..n
    BY <2>1
  <2>3. step[m + 1][f[m]] \in X
    BY <2>2
  <2>4. g \in [0..(m + 1) -> X]
    BY <2>1, <2>3
  <2>5. g[0] = x /\ g[m + 1] = step[m + 1][g[m]]
    BY <2>1
  <2>6. ASSUME NEW j \in 1..m PROVE g[j] = step[j][g[j - 1]]
    BY <2>1
  <2>7. m + 1 \in 0..n /\ \A j \in 1..(m + 1) : j \in 1..m \/ j = m + 1
    OBVIOUS
  <2> HIDE DEF g
  <2>8. \A j \in 1..(m + 1) : g[j] = step[j][g[j - 1]]
    <3> TAKE j \in 1..(m + 1)
    <3>1. CASE j \in 1..m
      BY <2>6, <3>1
    <3>2. CASE j = m + 1
      <4>1. j - 1 = m
        BY <3>2
      <4> QED BY <2>5, <3>2, <4>1
    <3> QED BY <2>7, <3>1, <3>2
  <2> QED BY <2>4, <2>5, <2>7, <2>8
<1> HIDE DEF P
<1>3. n \in P
  <2>1. \A m \in 0..(n - 1) : m \in P => m + 1 \in P
    BY <1>2
  <2>2. \A m \in 0..n : m \in P
    BY <1>1, <2>1, UpTo
  <2> QED BY <2>2
<1> QED BY <1>3 DEF P, Iterates

-----------------------------------------------------------------------------
(* The order of the keys, and the maps kept in it.                         *)

Names == Seq(Nat)
Variables == [key : Names, value : Names]

LEMMA LessNotBoth ==
  ASSUME NEW p \in Names, NEW q \in Names, Less(p, q)
  PROVE  ~Less(q, p)
<1> SUFFICES ASSUME Less(q, p) PROVE FALSE
  OBVIOUS
<1>1. PICK j \in 1..Len(q) : (\A h \in 1..(j - 1) : h <= Len(p) /\ p[h] = q[h]) /\ (j > Len(p) \/ p[j] < q[j])
  BY DEF Less
<1>2. PICK k \in 1..Len(p) : (\A h \in 1..(k - 1) : h <= Len(q) /\ q[h] = p[h]) /\ (k > Len(q) \/ q[k] < p[k])
  BY DEF Less
<1>3. \A h \in 1..Len(p) : p[h] \in Nat
  BY DEF Names
<1>4. \A h \in 1..Len(q) : q[h] \in Nat
  BY DEF Names
<1>5. Len(p) \in Nat /\ Len(q) \in Nat
  BY DEF Names
<1>6. CASE j < k
  <2>1. j \in 1..(k - 1) /\ j <= Len(p)
    BY <1>5, <1>6
  <2> QED BY <1>1, <1>2, <1>4, <1>5, <2>1
<1>7. CASE k < j
  <2>1. k \in 1..(j - 1) /\ k <= Len(q)
    BY <1>5, <1>7
  <2> QED BY <1>1, <1>2, <1>3, <1>5, <2>1
<1>8. CASE j = k
  BY <1>1, <1>2, <1>3, <1>4, <1>5, <1>8
<1> QED BY <1>5, <1>6, <1>7, <1>8

LEMMA LessTransitive ==
  ASSUME NEW p \in Names, NEW q \in Names, NEW r \in Names, Less(p, q), Less(q, r)
  PROVE  Less(p, r)
<1>1. PICK j \in 1..Len(q) : (\A h \in 1..(j - 1) : h <= Len(p) /\ p[h] = q[h]) /\ (j > Len(p) \/ p[j] < q[j])
  BY DEF Less
<1>2. PICK k \in 1..Len(r) : (\A h \in 1..(k - 1) : h <= Len(q) /\ q[h] = r[h]) /\ (k > Len(q) \/ q[k] < r[k])
  BY DEF Less
<1>3. /\ \A h \in 1..Len(p) : p[h] \in Nat
      /\ \A h \in 1..Len(q) : q[h] \in Nat
      /\ \A h \in 1..Len(r) : r[h] \in Nat
      /\ Len(p) \in Nat /\ Len(q) \in Nat /\ Len(r) \in Nat
  BY DEF Names
<1>4. CASE j < k
  <2>1. j \in 1..(k - 1) /\ j \in 1..Len(r)
    BY <1>3, <1>4
  <2>2. j > Len(p) \/ p[j] < r[j]
    BY <1>1, <1>2, <2>1
  <2>3. \A h \in 1..(j - 1) : h <= Len(p) /\ p[h] = r[h]
    BY <1>1, <1>2, <2>1
  <2> QED BY <2>1, <2>2, <2>3 DEF Less
<1>5. CASE k < j
  <2>1. k \in 1..(j - 1) /\ k <= Len(q) /\ k <= Len(p) /\ k \in 1..Len(p)
    BY <1>1, <1>3, <1>5
  <2>2. p[k] < r[k]
    BY <1>1, <1>2, <1>3, <2>1
  <2>3. \A h \in 1..(k - 1) : h <= Len(p) /\ p[h] = r[h]
    BY <1>1, <1>2, <2>1
  <2> QED BY <2>2, <2>3 DEF Less
<1>6. CASE j = k
  <2>1. k > Len(p) \/ p[k] < r[k]
    <3>1. CASE k > Len(p)
      BY <3>1
    <3>2. CASE k <= Len(p)
      <4>1. k \in 1..Len(p) /\ k \in 1..Len(q)
        BY <1>3, <1>6, <3>2
      <4>2. p[k] < q[k] /\ q[k] < r[k]
        BY <1>1, <1>2, <1>3, <1>6, <4>1
      <4>3. p[k] \in Nat /\ q[k] \in Nat /\ r[k] \in Nat
        BY <1>3, <4>1
      <4> QED BY <4>2, <4>3
    <3> QED BY <1>3, <3>1, <3>2
  <2>2. \A h \in 1..(k - 1) : h <= Len(p) /\ p[h] = r[h]
    BY <1>1, <1>2, <1>6
  <2> QED BY <2>1, <2>2 DEF Less
<1> QED BY <1>3, <1>4, <1>5, <1>6

LEMMA LessTotal ==
  ASSUME NEW p \in Names, NEW q \in Names, ~Less(p, q), ~Less(q, p)
  PROVE  p = q
<1>1. /\ \A h \in 1..Len(p) : p[h] \in Nat
      /\ \A h \in 1..Len(q) : q[h] \in Nat
      /\ Len(p) \in Nat /\ Len(q) \in Nat
  BY DEF Names
<1> DEFINE D == {j \in Nat : j > 0 /\ (j > Len(p) \/ j > Len(q) \/ p[j] # q[j])}
<1>2. PICK d \in D : \A h \in D : d <= h
  <2>1. D \subseteq Nat /\ Len(p) + 1 \in D
    BY <1>1
  <2> HIDE DEF D
  <2> QED BY <2>1, SomeLeast
<1>3. \A h \in 1..(d - 1) : h <= Len(p) /\ h <= Len(q) /\ p[h] = q[h]
  <2> TAKE h \in 1..(d - 1)
  <2>1. h \notin D /\ h \in Nat /\ h > 0
    BY <1>2
  <2> QED BY <1>1, <2>1
<1>4. CASE d > Len(p) /\ d > Len(q)
  <2>1. Len(p) = Len(q)
    <3>1. Len(p) < Len(q) => Len(q) \in 1..(d - 1)
      BY <1>1, <1>4
    <3>2. Len(q) < Len(p) => Len(p) \in 1..(d - 1)
      BY <1>1, <1>4
    <3> QED BY <1>1, <1>3, <3>1, <3>2
  <2>2. \A h \in 1..Len(p) : p[h] = q[h]
    BY <1>1, <1>3, <1>4
  <2> QED BY <2>1, <2>2, SeqEqual DEF Names
<1>5. CASE d <= Len(q) /\ (d > Len(p) \/ p[d] < q[d])
  <2>1. d \in 1..Len(q)
    BY <1>1, <1>2, <1>5
  <2> QED BY <1>3, <1>5, <2>1 DEF Less
<1>6. CASE d <= Len(p) /\ (d > Len(q) \/ q[d] < p[d])
  <2>1. d \in 1..Len(p)
    BY <1>1, <1>2, <1>6
  <2> QED BY <1>3, <1>6, <2>1 DEF Less
<1>7. CASE d <= Len(p) /\ d <= Len(q) /\ p[d] = q[d]
  BY <1>1, <1>2, <1>7
<1> QED
  <2>1. d <= Len(p) /\ d <= Len(q) => p[d] \in Nat /\ q[d] \in Nat
    BY <1>1, <1>2
  <2> QED BY <1>1, <1>2, <1>4, <1>5, <1>6, <1>7, <2>1

(* So that nothing is less is an order too. *)
LEMMA NotLessTransitive ==
  ASSUME NEW p \in Names, NEW q \in Names, NEW r \in Names, ~Less(p, q), ~Less(q, r)
  PROVE  ~Less(p, r)
<1>1. p = q \/ Less(q, p)
  BY LessTotal
<1>2. q = r \/ Less(r, q)
  BY LessTotal
<1> QED BY <1>1, <1>2, LessTransitive, LessNotBoth

(* What an insertion does, wherever it is. *)
LEMMA InsertedAt ==
  ASSUME NEW m \in Seq(Variables), NEW v \in Variables, NEW j \in 1..(Len(m) + 1)
  PROVE  /\ VarMap!InsertAt(m, j, v) \in Seq(Variables)
         /\ Len(VarMap!InsertAt(m, j, v)) = Len(m) + 1
         /\ VarMap!InsertAt(m, j, v)[j] = v
         /\ \A h \in 1..(j - 1) : VarMap!InsertAt(m, j, v)[h] = m[h]
         /\ \A h \in (j + 1)..(Len(m) + 1) : VarMap!InsertAt(m, j, v)[h] = m[h - 1]
<1> DEFINE i == VarMap!InsertAt(m, j, v)
<1>1. i = [h \in 1..(Len(m) + 1) |-> IF h < j THEN m[h] ELSE IF h = j THEN v ELSE m[h - 1]]
  BY DEF VarMap!InsertAt
<1>2. Len(m) \in Nat /\ \A h \in 1..Len(m) : m[h] \in Variables
  OBVIOUS
<1> HIDE DEF i
<1>3. \A h \in 1..(Len(m) + 1) : i[h] \in Variables
  <2> TAKE h \in 1..(Len(m) + 1)
  <2>1. h < j => h \in 1..Len(m)
    BY <1>2
  <2>2. h > j => h - 1 \in 1..Len(m)
    BY <1>2
  <2> QED BY <1>1, <1>2, <2>1, <2>2
<1>4. i \in [1..(Len(m) + 1) -> Variables]
  BY <1>1, <1>3
<1>5. i \in Seq(Variables) /\ Len(i) = Len(m) + 1
  BY <1>2, <1>4
<1>6. i[j] = v /\ \A h \in 1..(j - 1) : i[h] = m[h]
  BY <1>1, <1>2
<1>7. \A h \in (j + 1)..(Len(m) + 1) : i[h] = m[h - 1]
  BY <1>1, <1>2
<1> QED BY <1>5, <1>6, <1>7 DEF i

LEMMA VarBound ==
  ASSUME NEW m \in Seq(Variables), NEW k \in Names
  PROVE  /\ VarMap!lower_bound(m, k) \in 1..(Len(m) + 1)
         /\ \A h \in 1..(VarMap!lower_bound(m, k) - 1) : Less(m[h].key, k)
         /\ VarMap!lower_bound(m, k) <= Len(m) => ~Less(m[VarMap!lower_bound(m, k)].key, k)
<1> DEFINE S == {j \in 1..(Len(m) + 1) : j <= Len(m) => ~Less(m[j].key, k)}
<1>1. Len(m) \in Nat
  OBVIOUS
<1>2. PICK j \in S : \A h \in S : j <= h
  <2>1. S \subseteq Nat /\ Len(m) + 1 \in S
    BY <1>1
  <2> HIDE DEF S
  <2> QED BY <2>1, SomeLeast
<1>3. \A h \in 1..(j - 1) : Less(m[h].key, k)
  <2> TAKE h \in 1..(j - 1)
  <2>1. h \notin S /\ h \in 1..(Len(m) + 1)
    BY <1>1, <1>2
  <2> QED BY <2>1
<1> DEFINE Bound(b) == /\ \A h \in 1..(b - 1) : Less(m[h].key, k)
                       /\ b <= Len(m) => ~Less(m[b].key, k)
<1>4. VarMap!lower_bound(m, k) = CHOOSE b \in 1..(Len(m) + 1) : Bound(b)
  BY DEF VarMap!lower_bound
<1>5. j \in 1..(Len(m) + 1) /\ Bound(j)
  BY <1>2, <1>3
<1> HIDE DEF Bound
<1>6. VarMap!lower_bound(m, k) \in 1..(Len(m) + 1) /\ Bound(VarMap!lower_bound(m, k))
  BY <1>4, <1>5
<1> HIDE DEF S
<1> QED BY ONLY <1>6 DEF Bound

(* A pair is inserted before those that are not less, and the order kept. *)
LEMMA VarInserted ==
  ASSUME NEW m \in Seq(Variables), VarMap!Sorted(m), NEW v \in Variables
  PROVE  VarMap!insert(m, v) \in Seq(Variables) /\ VarMap!Sorted(VarMap!insert(m, v))
<1> DEFINE j == VarMap!lower_bound(m, v.key)
           i == VarMap!insert(m, v)
<1>1. v.key \in Names /\ \A h \in 1..Len(m) : m[h].key \in Names
  <2>1. \A h \in 1..Len(m) : m[h] \in Variables
    OBVIOUS
  <2>2. \A u \in Variables : u.key \in Names
    BY DEF Variables
  <2> QED BY <2>1, <2>2
<1>2. /\ j \in 1..(Len(m) + 1)
      /\ \A h \in 1..(j - 1) : Less(m[h].key, v.key)
      /\ j <= Len(m) => ~Less(m[j].key, v.key)
  BY <1>1, VarBound
<1>3. /\ i \in Seq(Variables) /\ Len(i) = Len(m) + 1 /\ i[j] = v
      /\ \A h \in 1..(j - 1) : i[h] = m[h]
      /\ \A h \in (j + 1)..(Len(m) + 1) : i[h] = m[h - 1]
  BY <1>2, InsertedAt DEF VarMap!insert
<1> HIDE DEF i, j
<1>4. Len(m) \in Nat
  OBVIOUS
<1>5. \A a, b \in 1..Len(m) : a < b => ~Less(m[b].key, m[a].key)
  BY DEF VarMap!Sorted
<1>6. \A h \in j..Len(m) : ~Less(m[h].key, v.key)
  <2> TAKE h \in j..Len(m)
  <2>1. j \in 1..Len(m) /\ h \in 1..Len(m) /\ ~Less(m[j].key, v.key)
    BY <1>2, <1>4
  <2>2. h = j \/ ~Less(m[h].key, m[j].key)
    BY <1>5, <2>1
  <2> QED BY <1>1, <2>1, <2>2, NotLessTransitive
<1>7. ASSUME NEW a \in 1..(Len(m) + 1), NEW b \in 1..(Len(m) + 1), a < b
      PROVE  ~Less(i[b].key, i[a].key)
  <2>1. CASE b < j
    <3>1. a \in 1..(j - 1) /\ b \in 1..(j - 1) /\ a \in 1..Len(m) /\ b \in 1..Len(m)
      BY <1>2, <1>4, <1>7, <2>1
    <3> QED BY <1>3, <1>5, <1>7, <3>1
  <2>2. CASE b = j
    <3>1. a \in 1..(j - 1) /\ a \in 1..Len(m)
      BY <1>2, <1>4, <1>7, <2>2
    <3> QED BY <1>1, <1>2, <1>3, <2>2, <3>1, LessNotBoth
  <2>3. CASE b > j
    <3>1. b \in (j + 1)..(Len(m) + 1) /\ b - 1 \in j..Len(m) /\ b - 1 \in 1..Len(m) /\ i[b] = m[b - 1]
      BY <1>2, <1>3, <1>4, <2>3
    <3>2. CASE a < j
      <4>1. a \in 1..(j - 1) /\ a \in 1..Len(m) /\ a < b - 1
        BY <1>2, <1>4, <2>3, <3>2
      <4> QED BY <1>3, <1>5, <3>1, <4>1
    <3>3. CASE a = j
      BY <1>3, <1>6, <3>1, <3>3
    <3>4. CASE a > j
      <4>1. a \in (j + 1)..(Len(m) + 1) /\ a - 1 \in 1..Len(m) /\ a - 1 < b - 1
        BY <1>2, <1>4, <1>7, <3>4
      <4> QED BY <1>3, <1>5, <3>1, <4>1
    <3> QED BY <1>2, <3>2, <3>3, <3>4
  <2> QED BY <1>2, <2>1, <2>2, <2>3
<1>8. VarMap!Sorted(i)
  BY <1>3, <1>7 DEF VarMap!Sorted
<1> QED BY <1>3, <1>8 DEF i

(* There is one lower bound. *)
LEMMA VarBoundOnly ==
  ASSUME NEW m \in Seq(Variables), NEW k \in Names, NEW j \in 1..(Len(m) + 1),
         \A h \in 1..(j - 1) : Less(m[h].key, k), j <= Len(m) => ~Less(m[j].key, k)
  PROVE  VarMap!lower_bound(m, k) = j
<1> DEFINE b == VarMap!lower_bound(m, k)
<1>1. /\ b \in 1..(Len(m) + 1)
      /\ \A h \in 1..(b - 1) : Less(m[h].key, k)
      /\ b <= Len(m) => ~Less(m[b].key, k)
  BY VarBound
<1> HIDE DEF b
<1>2. Len(m) \in Nat
  OBVIOUS
<1>3. ~(b < j)
  <2> SUFFICES ASSUME b < j PROVE FALSE
    OBVIOUS
  <2>1. b \in 1..(j - 1) /\ b <= Len(m)
    BY <1>1, <1>2
  <2> QED BY <1>1, <2>1
<1>4. ~(j < b)
  <2> SUFFICES ASSUME j < b PROVE FALSE
    OBVIOUS
  <2>1. j \in 1..(b - 1) /\ j <= Len(m)
    BY <1>1, <1>2
  <2> QED BY <1>1, <2>1
<1>5. b = j
  BY <1>1, <1>2, <1>3, <1>4
<1> QED BY <1>5 DEF b

(* The foremost pair of a key. *)
First(m, k, j) == j \in 1..Len(m) /\ m[j].key = k /\ \A h \in 1..(j - 1) : m[h].key # k

LEMMA KeysAreNames ==
  ASSUME NEW m \in Seq(Variables)
  PROVE  Len(m) \in Nat /\ \A h \in 1..Len(m) : m[h] \in Variables /\ m[h].key \in Names /\ m[h].value \in Names
<1>1. Len(m) \in Nat /\ \A h \in 1..Len(m) : m[h] \in Variables
  OBVIOUS
<1>2. \A u \in Variables : u.key \in Names /\ u.value \in Names
  BY DEF Variables
<1> QED BY <1>1, <1>2

LEMMA VarFound ==
  ASSUME NEW m \in Seq(Variables), VarMap!Sorted(m), NEW k \in Names
  PROVE  \/ \E j \in 1..Len(m) : First(m, k, j) /\ optionalLookup(k, m) = m[j].value
         \/ (\A j \in 1..Len(m) : m[j].key # k) /\ optionalLookup(k, m) = None
<1> DEFINE j == VarMap!lower_bound(m, k)
<1>1. /\ j \in 1..(Len(m) + 1)
      /\ \A h \in 1..(j - 1) : Less(m[h].key, k)
      /\ j <= Len(m) => ~Less(m[j].key, k)
  BY VarBound
<1>2. VarMap!find(m, k) = IF j > Len(m) THEN Len(m) + 1 ELSE IF Less(k, m[j].key) THEN Len(m) + 1 ELSE j
  BY DEF VarMap!find
<1> HIDE DEF j
<1>3. Len(m) \in Nat /\ \A h \in 1..Len(m) : m[h].key \in Names
  BY KeysAreNames
<1>4. ~Less(k, k)
  BY LessNotBoth
<1>5. \A h \in 1..(j - 1) : m[h].key # k
  BY <1>1, <1>4
<1>6. CASE j > Len(m)
  <2>1. \A h \in 1..Len(m) : h \in 1..(j - 1)
    BY <1>1, <1>3, <1>6
  <2>2. optionalLookup(k, m) = None
    BY <1>2, <1>3, <1>6 DEF optionalLookup, ValueAt
  <2> QED BY <1>5, <2>1, <2>2
<1>7. CASE j <= Len(m) /\ Less(k, m[j].key)
  <2>1. optionalLookup(k, m) = None
    BY <1>1, <1>2, <1>3, <1>7 DEF optionalLookup, ValueAt
  <2>2. \A h \in j..Len(m) : m[h].key # k
    <3> TAKE h \in j..Len(m)
    <3>1. h = j \/ ~Less(m[h].key, m[j].key)
      BY <1>1, <1>3, <1>7 DEF VarMap!Sorted
    <3> QED BY <1>4, <1>7, <3>1
  <2>3. \A h \in 1..Len(m) : h \in 1..(j - 1) \/ h \in j..Len(m)
    BY <1>1, <1>3
  <2> QED BY <1>5, <2>1, <2>2, <2>3
<1>8. CASE j <= Len(m) /\ ~Less(k, m[j].key)
  <2>1. j \in 1..Len(m) /\ m[j].key = k
    BY <1>1, <1>3, <1>8, LessTotal
  <2>2. optionalLookup(k, m) = m[j].value
    BY <1>1, <1>2, <1>3, <1>8 DEF optionalLookup, ValueAt
  <2> QED BY <1>5, <2>1, <2>2 DEF First
<1> QED BY <1>1, <1>3, <1>6, <1>7, <1>8

(* What has been inserted last under a key is what is found. *)
LEMMA VarInsertFound ==
  ASSUME NEW m \in Seq(Variables), VarMap!Sorted(m), NEW v \in Variables, NEW k \in Names
  PROVE  optionalLookup(k, VarMap!insert(m, v)) = IF k = v.key THEN v.value ELSE optionalLookup(k, m)
<1> DEFINE j == VarMap!lower_bound(m, v.key)
           i == VarMap!insert(m, v)
<1>1. v.key \in Names /\ Len(m) \in Nat /\ \A h \in 1..Len(m) : m[h].key \in Names
  BY KeysAreNames DEF Variables
<1>2. /\ j \in 1..(Len(m) + 1)
      /\ \A h \in 1..(j - 1) : Less(m[h].key, v.key)
      /\ j <= Len(m) => ~Less(m[j].key, v.key)
  BY <1>1, VarBound
<1>3. /\ i \in Seq(Variables) /\ Len(i) = Len(m) + 1 /\ i[j] = v
      /\ \A h \in 1..(j - 1) : i[h] = m[h]
      /\ \A h \in (j + 1)..(Len(m) + 1) : i[h] = m[h - 1]
  BY <1>2, InsertedAt DEF VarMap!insert
<1>4. VarMap!Sorted(i)
  BY VarInserted
<1> HIDE DEF i, j
<1>5. ~Less(v.key, v.key)
  BY <1>1, LessNotBoth
<1>6. \A h \in 1..(j - 1) : m[h].key # v.key
  BY <1>2, <1>5
<1>7. PICK n \in 1..(Len(i) + 1) :
        \/ n <= Len(i) /\ First(i, k, n) /\ optionalLookup(k, i) = i[n].value
        \/ n = Len(i) + 1 /\ (\A h \in 1..Len(i) : i[h].key # k) /\ optionalLookup(k, i) = None
  <2>1. \/ \E g \in 1..Len(i) : First(i, k, g) /\ optionalLookup(k, i) = i[g].value
        \/ (\A g \in 1..Len(i) : i[g].key # k) /\ optionalLookup(k, i) = None
    BY <1>3, <1>4, VarFound
  <2> QED BY <1>1, <1>3, <2>1
<1>8. PICK o \in 1..(Len(m) + 1) :
        \/ o <= Len(m) /\ First(m, k, o) /\ optionalLookup(k, m) = m[o].value
        \/ o = Len(m) + 1 /\ (\A h \in 1..Len(m) : m[h].key # k) /\ optionalLookup(k, m) = None
  <2>1. \/ \E g \in 1..Len(m) : First(m, k, g) /\ optionalLookup(k, m) = m[g].value
        \/ (\A g \in 1..Len(m) : m[g].key # k) /\ optionalLookup(k, m) = None
    BY VarFound
  <2> QED BY <1>1, <2>1
<1>9. CASE k = v.key
  <2>1. i[j].key = k /\ j \in 1..Len(i)
    BY <1>1, <1>2, <1>3, <1>9
  <2>2. n <= Len(i) /\ First(i, k, n)
    BY <1>7, <2>1
  <2>3. n = j
    <3>1. ~(j < n)
      BY <1>2, <2>1, <2>2 DEF First
    <3>2. ~(n < j)
      BY <1>2, <1>3, <1>6, <1>9, <2>2 DEF First
    <3> QED BY <1>2, <1>3, <1>1, <3>1, <3>2
  <2>4. optionalLookup(k, i) = i[j].value
    BY <1>3, <1>7, <2>2, <2>3, <1>1
  <2> QED BY <1>3, <1>9, <2>4 DEF i
<1>10. CASE k # v.key
  <2>1. \A h \in 1..Len(m) : i[IF h < j THEN h ELSE h + 1] = m[h]
    <3> TAKE h \in 1..Len(m)
    <3>1. h < j => h \in 1..(j - 1)
      BY <1>1, <1>2
    <3>2. ~(h < j) => h + 1 \in (j + 1)..(Len(m) + 1) /\ (h + 1) - 1 = h
      BY <1>1, <1>2
    <3> QED BY <1>3, <3>1, <3>2
  <2>2. CASE o = Len(m) + 1
    <3>1. \A h \in 1..Len(i) : i[h].key # k
      <4> TAKE h \in 1..Len(i)
      <4>1. CASE h < j
        BY <1>1, <1>2, <1>3, <1>8, <2>2, <4>1
      <4>2. CASE h = j
        BY <1>3, <1>10, <4>2
      <4>3. CASE h > j
        <5>1. h \in (j + 1)..(Len(m) + 1) /\ h - 1 \in 1..Len(m)
          BY <1>1, <1>2, <1>3, <4>3
        <5> QED BY <1>1, <1>3, <1>8, <2>2, <5>1
      <4> QED BY <1>1, <1>2, <1>3, <4>1, <4>2, <4>3
    <3>2. optionalLookup(k, i) = None
      BY <1>7, <3>1 DEF First
    <3> QED BY <1>1, <1>8, <1>10, <2>2, <3>2 DEF i
  <2>3. CASE o <= Len(m)
    <3> DEFINE p == IF o < j THEN o ELSE o + 1
    <3>1. First(m, k, o) /\ o \in 1..Len(m) /\ optionalLookup(k, m) = m[o].value
      BY <1>1, <1>8, <2>3
    <3>2. i[p] = m[o] /\ p \in 1..Len(i) /\ i[p].key = k
      BY <1>1, <1>3, <2>1, <3>1 DEF First
    <3>3. \A h \in 1..(p - 1) : i[h].key # k
      <4> TAKE h \in 1..(p - 1)
      <4>1. CASE h < j
        <5>1. h \in 1..(j - 1) /\ h < o
          BY <1>1, <1>2, <4>1
        <5> QED BY <1>3, <3>1, <5>1 DEF First
      <4>2. CASE h = j
        BY <1>3, <1>10, <4>2
      <4>3. CASE h > j
        <5>1. h \in (j + 1)..(Len(m) + 1) /\ h - 1 \in 1..(o - 1)
          BY <1>1, <1>2, <4>3
        <5> QED BY <1>3, <3>1, <5>1 DEF First
      <4> QED BY <1>2, <4>1, <4>2, <4>3
    <3> HIDE DEF p
    <3>4. n = p
      <4>1. n <= Len(i) /\ First(i, k, n)
        BY <1>7, <3>2
      <4>2. ~(n < p) /\ ~(p < n)
        BY <1>1, <1>3, <3>2, <3>3, <4>1 DEF First
      <4> QED BY <1>1, <1>3, <3>2, <4>2
    <3>5. optionalLookup(k, i) = i[p].value
      BY <1>1, <1>3, <1>7, <3>2, <3>4
    <3> QED BY <1>10, <3>1, <3>2, <3>5 DEF i
  <2> QED BY <1>1, <2>2, <2>3
<1> QED BY <1>9, <1>10

(* The hindmost pair of a key: a new one does not go behind it. *)
Last(m, k, x) == \E j \in 1..Len(m) :
  m[j].key = k /\ m[j].value = x /\ \A h \in (j + 1)..Len(m) : m[h].key # k

LEMMA VarInsertLast ==
  ASSUME NEW m \in Seq(Variables), VarMap!Sorted(m), NEW v \in Variables, NEW k \in Names
  PROVE  /\ \A x : Last(m, k, x) => Last(VarMap!insert(m, v), k, x)
         /\ (\A h \in 1..Len(m) : m[h].key # k) /\ k = v.key => Last(VarMap!insert(m, v), k, v.value)
         /\ (\A h \in 1..Len(m) : m[h].key # k) /\ k # v.key =>
              \A h \in 1..Len(VarMap!insert(m, v)) : VarMap!insert(m, v)[h].key # k
<1> DEFINE j == VarMap!lower_bound(m, v.key)
           i == VarMap!insert(m, v)
<1>1. v.key \in Names /\ Len(m) \in Nat /\ \A h \in 1..Len(m) : m[h].key \in Names
  BY KeysAreNames DEF Variables
<1>2. /\ j \in 1..(Len(m) + 1)
      /\ \A h \in 1..(j - 1) : Less(m[h].key, v.key)
  BY <1>1, VarBound
<1>3. /\ i \in Seq(Variables) /\ Len(i) = Len(m) + 1 /\ i[j] = v
      /\ \A h \in 1..(j - 1) : i[h] = m[h]
      /\ \A h \in (j + 1)..(Len(m) + 1) : i[h] = m[h - 1]
  BY <1>2, InsertedAt DEF VarMap!insert
<1> HIDE DEF i, j
<1>4. ~Less(v.key, v.key)
  BY <1>1, LessNotBoth
<1>5. ASSUME NEW x, Last(m, k, x) PROVE Last(i, k, x)
  <2>1. PICK o \in 1..Len(m) : m[o].key = k /\ m[o].value = x /\ \A h \in (o + 1)..Len(m) : m[h].key # k
    BY <1>5 DEF Last
  <2> DEFINE p == IF o < j THEN o ELSE o + 1
  <2>2. p \in 1..Len(i) /\ i[p] = m[o]
    <3>1. o < j => o \in 1..(j - 1)
      BY <1>1, <1>2
    <3>2. ~(o < j) => o + 1 \in (j + 1)..(Len(m) + 1) /\ (o + 1) - 1 = o
      BY <1>1, <1>2
    <3> QED BY <1>1, <1>3, <3>1, <3>2
  <2>3. \A h \in (p + 1)..Len(i) : i[h].key # k
    <3> TAKE h \in (p + 1)..Len(i)
    <3>1. CASE h < j
      BY <1>1, <1>2, <1>3, <2>1, <3>1
    <3>2. CASE h = j
      <4>1. o \in 1..(j - 1)
        BY <1>1, <1>2, <3>2
      <4>2. Less(k, v.key)
        BY <1>2, <2>1, <4>1
      <4> QED BY <1>3, <1>4, <3>2, <4>2
    <3>3. CASE h > j
      <4>1. h \in (j + 1)..(Len(m) + 1) /\ h - 1 \in (o + 1)..Len(m)
        BY <1>1, <1>2, <1>3, <3>3
      <4> QED BY <1>3, <2>1, <4>1
    <3> QED BY <1>1, <1>2, <1>3, <2>2, <3>1, <3>2, <3>3
  <2> HIDE DEF p
  <2> QED BY <2>1, <2>2, <2>3 DEF Last
<1>6. ASSUME \A h \in 1..Len(m) : m[h].key # k
      PROVE  \A h \in 1..Len(i) : h # j => i[h].key # k
  <2> TAKE h \in 1..Len(i)
  <2> HAVE h # j
  <2>1. CASE h < j
    <3>1. h \in 1..(j - 1) /\ h \in 1..Len(m)
      BY <1>1, <1>2, <2>1
    <3> QED BY <1>3, <1>6, <3>1
  <2>2. CASE h > j
    <3>1. h \in (j + 1)..(Len(m) + 1) /\ h - 1 \in 1..Len(m)
      BY <1>1, <1>2, <1>3, <2>2
    <3> QED BY <1>3, <1>6, <3>1
  <2> QED BY <1>1, <1>2, <1>3, <2>1, <2>2
<1>7. ASSUME \A h \in 1..Len(m) : m[h].key # k, k = v.key
      PROVE  Last(i, k, v.value)
  <2>1. j \in 1..Len(i) /\ i[j].key = k /\ i[j].value = v.value
    BY <1>1, <1>2, <1>3, <1>7
  <2>2. \A h \in (j + 1)..Len(i) : h \in 1..Len(i) /\ h # j
    BY <1>1, <1>2, <1>3
  <2> QED BY <1>6, <1>7, <2>1, <2>2 DEF Last
<1>8. ASSUME \A h \in 1..Len(m) : m[h].key # k, k # v.key
      PROVE  \A h \in 1..Len(i) : i[h].key # k
  BY <1>3, <1>6, <1>8
<1> QED BY <1>5, <1>7, <1>8 DEF i

-----------------------------------------------------------------------------
(* The map of headers is a map by capital names.                           *)

CapitalPair(v) == [key |-> Capitals(v.key), value |-> v.value]
Capital(m) == [j \in 1..Len(m) |-> CapitalPair(m[j])]

LEMMA CapitalNames ==
  ASSUME NEW k \in Names
  PROVE  Capitals(k) \in Names
<1>1. Len(k) \in Nat /\ DOMAIN k = 1..Len(k) /\ \A h \in 1..Len(k) : k[h] \in Nat
  BY DEF Names
<1>2. Capitals(k) \in [1..Len(k) -> Nat]
  <2>1. \A h \in 1..Len(k) : (IF k[h] > 100 THEN k[h] - 100 ELSE k[h]) \in Nat
    BY <1>1
  <2> QED BY <1>1, <2>1 DEF Capitals
<1> QED BY <1>1, <1>2 DEF Names

LEMMA CapitalMap ==
  ASSUME NEW m \in Seq(Variables)
  PROVE  /\ Capital(m) \in Seq(Variables)
         /\ Len(Capital(m)) = Len(m)
         /\ \A h \in 1..Len(m) : Capital(m)[h].key = Capitals(m[h].key) /\ Capital(m)[h].value = m[h].value
<1>1. \A v \in Variables : CapitalPair(v) \in Variables
  BY CapitalNames DEF Variables, CapitalPair
<1>2. Len(m) \in Nat /\ \A h \in 1..Len(m) : m[h] \in Variables
  BY KeysAreNames
<1>3. Capital(m) \in [1..Len(m) -> Variables]
  BY <1>1, <1>2 DEF Capital
<1>4. Capital(m) \in Seq(Variables) /\ Len(Capital(m)) = Len(m)
  BY <1>2, <1>3
<1> QED BY <1>4 DEF Capital, CapitalPair

LEMMA HdrSortedAsVar ==
  ASSUME NEW m \in Seq(Variables)
  PROVE  HdrMap!Sorted(m) <=> VarMap!Sorted(Capital(m))
<1>1. /\ Len(Capital(m)) = Len(m)
      /\ \A h \in 1..Len(m) : Capital(m)[h].key = Capitals(m[h].key)
  BY CapitalMap
<1> QED BY <1>1 DEF HdrMap!Sorted, VarMap!Sorted, CaseLess

LEMMA HdrBoundAsVar ==
  ASSUME NEW m \in Seq(Variables), NEW k \in Names
  PROVE  HdrMap!lower_bound(m, k) = VarMap!lower_bound(Capital(m), Capitals(k))
<1>1. /\ Capital(m) \in Seq(Variables) /\ Len(Capital(m)) = Len(m)
      /\ \A h \in 1..Len(m) : Capital(m)[h].key = Capitals(m[h].key)
  BY CapitalMap
<1>2. Capitals(k) \in Names /\ Len(m) \in Nat
  BY CapitalNames, KeysAreNames
<1> DEFINE b == VarMap!lower_bound(Capital(m), Capitals(k))
<1>3. /\ b \in 1..(Len(m) + 1)
      /\ \A h \in 1..(b - 1) : Less(Capital(m)[h].key, Capitals(k))
      /\ b <= Len(m) => ~Less(Capital(m)[b].key, Capitals(k))
  BY <1>1, <1>2, VarBound
<1> HIDE DEF b
<1> DEFINE Bound(c) == /\ \A h \in 1..(c - 1) : CaseLess(m[h].key, k)
                       /\ c <= Len(m) => ~CaseLess(m[c].key, k)
           l == HdrMap!lower_bound(m, k)
<1>4. l = CHOOSE c \in 1..(Len(m) + 1) : Bound(c)
  BY DEF HdrMap!lower_bound
<1>5. Bound(b)
  <2>1. \A h \in 1..(b - 1) : h \in 1..Len(m)
    BY <1>2, <1>3
  <2>2. b <= Len(m) => b \in 1..Len(m)
    BY <1>2, <1>3
  <2> QED BY <1>1, <1>3, <2>1, <2>2 DEF CaseLess
<1> HIDE DEF Bound
<1>6. l \in 1..(Len(m) + 1) /\ Bound(l)
  BY <1>3, <1>4, <1>5
<1> HIDE DEF l
<1> USE DEF Bound
<1>7. /\ \A h \in 1..(l - 1) : Less(Capital(m)[h].key, Capitals(k))
      /\ l <= Len(m) => ~Less(Capital(m)[l].key, Capitals(k))
  <2>1. \A h \in 1..(l - 1) : h \in 1..Len(m)
    BY <1>2, <1>6
  <2>2. l <= Len(m) => l \in 1..Len(m)
    BY <1>2, <1>6
  <2> QED BY <1>1, <1>6, <2>1, <2>2 DEF CaseLess
<1>8. b = l
  BY <1>1, <1>2, <1>6, <1>7, VarBoundOnly DEF b
<1> QED BY <1>8 DEF b, l

LEMMA HdrInsertAsVar ==
  ASSUME NEW m \in Seq(Variables), NEW v \in Variables
  PROVE  /\ HdrMap!insert(m, v) \in Seq(Variables)
         /\ Capital(HdrMap!insert(m, v)) = VarMap!insert(Capital(m), CapitalPair(v))
<1> DEFINE j == HdrMap!lower_bound(m, v.key)
           i == HdrMap!insert(m, v)
           c == VarMap!insert(Capital(m), CapitalPair(v))
<1>1. /\ v.key \in Names /\ CapitalPair(v) \in Variables /\ CapitalPair(v).key = Capitals(v.key)
  BY CapitalNames DEF Variables, CapitalPair
<1>2. /\ Capital(m) \in Seq(Variables) /\ Len(Capital(m)) = Len(m)
      /\ Len(m) \in Nat
      /\ \A h \in 1..Len(m) : Capital(m)[h] = CapitalPair(m[h])
  BY CapitalMap, KeysAreNames DEF Capital
<1>3. j = VarMap!lower_bound(Capital(m), CapitalPair(v).key)
  BY <1>1, HdrBoundAsVar
<1>4. j \in 1..(Len(m) + 1)
  <2>1. VarMap!lower_bound(Capital(m), CapitalPair(v).key) \in 1..(Len(Capital(m)) + 1)
    <3>1. CapitalPair(v).key \in Names
      BY <1>1, CapitalNames
    <3> QED BY <1>2, <3>1, VarBound
  <2> QED BY <1>2, <1>3, <2>1
<1>5. i = VarMap!InsertAt(m, j, v)
  BY DEF HdrMap!insert, HdrMap!InsertAt, VarMap!InsertAt
<1>6. c = VarMap!InsertAt(Capital(m), j, CapitalPair(v))
  BY <1>3 DEF VarMap!insert
<1> HIDE DEF i, j, c
<1>7. /\ i \in Seq(Variables) /\ Len(i) = Len(m) + 1 /\ i[j] = v
      /\ \A h \in 1..(j - 1) : i[h] = m[h]
      /\ \A h \in (j + 1)..(Len(m) + 1) : i[h] = m[h - 1]
  BY <1>4, <1>5, InsertedAt
<1>8. /\ c \in Seq(Variables) /\ Len(c) = Len(m) + 1 /\ c[j] = CapitalPair(v)
      /\ \A h \in 1..(j - 1) : c[h] = Capital(m)[h]
      /\ \A h \in (j + 1)..(Len(m) + 1) : c[h] = Capital(m)[h - 1]
  <2>1. j \in 1..(Len(Capital(m)) + 1)
    BY <1>2, <1>4
  <2> DEFINE cm == Capital(m)
             cv == CapitalPair(v)
  <2>2. cm \in Seq(Variables) /\ Len(cm) = Len(m) /\ cv \in Variables /\ j \in 1..(Len(cm) + 1)
        /\ c = VarMap!InsertAt(cm, j, cv)
    BY <1>1, <1>2, <1>6, <2>1
  <2> HIDE DEF cm, cv
  <2>3. /\ VarMap!InsertAt(cm, j, cv) \in Seq(Variables)
        /\ Len(VarMap!InsertAt(cm, j, cv)) = Len(cm) + 1
        /\ VarMap!InsertAt(cm, j, cv)[j] = cv
        /\ \A h \in 1..(j - 1) : VarMap!InsertAt(cm, j, cv)[h] = cm[h]
        /\ \A h \in (j + 1)..(Len(cm) + 1) : VarMap!InsertAt(cm, j, cv)[h] = cm[h - 1]
    BY <2>2, InsertedAt
  <2>4. /\ c \in Seq(Variables) /\ Len(c) = Len(m) + 1 /\ c[j] = cv
        /\ \A h \in 1..(j - 1) : c[h] = cm[h]
        /\ \A h \in (j + 1)..(Len(m) + 1) : c[h] = cm[h - 1]
    BY <2>2, <2>3
  <2> QED BY <2>4 DEF cm, cv
<1>9. Capital(i) \in Seq(Variables) /\ Len(Capital(i)) = Len(m) + 1
      /\ \A h \in 1..(Len(m) + 1) : Capital(i)[h] = CapitalPair(i[h])
  BY <1>7, CapitalMap DEF Capital
<1>10. \A h \in 1..(Len(m) + 1) : Capital(i)[h] = c[h]
  <2> TAKE h \in 1..(Len(m) + 1)
  <2>1. CASE h < j
    <3>1. h \in 1..(j - 1) /\ h \in 1..Len(m)
      BY <1>2, <1>4, <2>1
    <3> QED BY <1>2, <1>7, <1>8, <1>9, <3>1
  <2>2. CASE h = j
    BY <1>7, <1>8, <1>9, <2>2
  <2>3. CASE h > j
    <3>1. h \in (j + 1)..(Len(m) + 1) /\ h - 1 \in 1..Len(m)
      BY <1>2, <1>4, <2>3
    <3> QED BY <1>2, <1>7, <1>8, <1>9, <3>1
  <2> QED BY <1>4, <2>1, <2>2, <2>3
<1>11. Capital(i) = c
  BY <1>2, <1>8, <1>9, <1>10, SeqEqual
<1> QED BY <1>7, <1>11 DEF i, c

(* A header's value, as getHeaderParamStr finds it in any map of headers. *)
HeaderIn(k, m) == ValueAt(m, HdrMap!find(m, k))

LEMMA HdrFoundAsVar ==
  ASSUME NEW m \in Seq(Variables), NEW k \in Names
  PROVE  HeaderIn(k, m) = optionalLookup(Capitals(k), Capital(m))
<1>1. /\ Capital(m) \in Seq(Variables) /\ Len(Capital(m)) = Len(m) /\ Len(m) \in Nat
      /\ \A h \in 1..Len(m) : Capital(m)[h].key = Capitals(m[h].key) /\ Capital(m)[h].value = m[h].value
  BY CapitalMap, KeysAreNames
<1>2. Capitals(k) \in Names
  BY CapitalNames
<1> DEFINE j == HdrMap!lower_bound(m, k)
<1>3. j = VarMap!lower_bound(Capital(m), Capitals(k))
  BY HdrBoundAsVar
<1>4. j \in 1..(Len(m) + 1)
  BY <1>1, <1>2, <1>3, VarBound
<1>5. HdrMap!find(m, k) = IF j > Len(m) THEN Len(m) + 1 ELSE IF CaseLess(k, m[j].key) THEN Len(m) + 1 ELSE j
  BY DEF HdrMap!find
<1>6. VarMap!find(Capital(m), Capitals(k)) =
        IF j > Len(m) THEN Len(m) + 1 ELSE IF Less(Capitals(k), Capital(m)[j].key) THEN Len(m) + 1 ELSE j
  BY <1>1, <1>3 DEF VarMap!find
<1> HIDE DEF j
<1>7. HdrMap!find(m, k) = VarMap!find(Capital(m), Capitals(k))
  <2>1. j <= Len(m) => j \in 1..Len(m)
    BY <1>1, <1>4
  <2> QED BY <1>1, <1>4, <1>5, <1>6, <2>1 DEF CaseLess
<1>8. HdrMap!find(m, k) \in 1..(Len(m) + 1)
  BY <1>1, <1>4, <1>5
<1> QED BY <1>1, <1>7, <1>8 DEF HeaderIn, optionalLookup, ValueAt

LEMMA HdrInserted ==
  ASSUME NEW m \in Seq(Variables), HdrMap!Sorted(m), NEW v \in Variables
  PROVE  /\ HdrMap!insert(m, v) \in Seq(Variables)
         /\ HdrMap!Sorted(HdrMap!insert(m, v))
         /\ \A k \in Names : HeaderIn(k, HdrMap!insert(m, v)) =
              IF Capitals(k) = Capitals(v.key) THEN v.value ELSE HeaderIn(k, m)
<1>1. /\ HdrMap!insert(m, v) \in Seq(Variables)
      /\ Capital(HdrMap!insert(m, v)) = VarMap!insert(Capital(m), CapitalPair(v))
  BY HdrInsertAsVar
<1>2. Capital(m) \in Seq(Variables) /\ VarMap!Sorted(Capital(m)) /\ CapitalPair(v) \in Variables
  BY CapitalMap, CapitalNames, HdrSortedAsVar DEF Variables, CapitalPair
<1>3. CapitalPair(v).key = Capitals(v.key) /\ CapitalPair(v).value = v.value
  BY DEF CapitalPair
<1>4. HdrMap!Sorted(HdrMap!insert(m, v))
  BY <1>1, <1>2, VarInserted, HdrSortedAsVar
<1>5. ASSUME NEW k \in Names
      PROVE  HeaderIn(k, HdrMap!insert(m, v)) = IF Capitals(k) = Capitals(v.key) THEN v.value ELSE HeaderIn(k, m)
  <2>1. Capitals(k) \in Names
    BY CapitalNames
  <2>2. optionalLookup(Capitals(k), VarMap!insert(Capital(m), CapitalPair(v))) =
          IF Capitals(k) = Capitals(v.key) THEN v.value ELSE optionalLookup(Capitals(k), Capital(m))
    BY <1>2, <1>3, <2>1, VarInsertFound
  <2> QED BY <1>1, <2>2, HdrFoundAsVar
<1> QED BY <1>1, <1>4, <1>5

-----------------------------------------------------------------------------
(* mapVars.                                                                *)

(* x is the last value of k in the first n entries of s, None without one. *)
Found(s, n, k, x) ==
  \/ \E j \in 1..n : /\ s[j] # None /\ s[j].key = k /\ s[j].value = x
                     /\ \A h \in (j + 1)..n : s[h] = None \/ s[h].key # k
  \/ (\A j \in 1..n : s[j] = None \/ s[j].key # k) /\ x = None

LEMMA FoundNext ==
  ASSUME NEW s, NEW n \in Nat, NEW k, NEW x, Found(s, n, k, x)
  PROVE  /\ s[n + 1] # None /\ s[n + 1].key = k => Found(s, n + 1, k, s[n + 1].value)
         /\ s[n + 1] = None \/ s[n + 1].key # k => Found(s, n + 1, k, x)
<1>1. ASSUME s[n + 1] # None, s[n + 1].key = k PROVE Found(s, n + 1, k, s[n + 1].value)
  <2>1. n + 1 \in 1..(n + 1) /\ ((n + 1) + 1)..(n + 1) = {}
    OBVIOUS
  <2> QED BY <1>1, <2>1 DEF Found
<1>2. ASSUME s[n + 1] = None \/ s[n + 1].key # k PROVE Found(s, n + 1, k, x)
  <2>1. CASE \E j \in 1..n : /\ s[j] # None /\ s[j].key = k /\ s[j].value = x
                             /\ \A h \in (j + 1)..n : s[h] = None \/ s[h].key # k
    <3>1. PICK j \in 1..n : /\ s[j] # None /\ s[j].key = k /\ s[j].value = x
                            /\ \A h \in (j + 1)..n : s[h] = None \/ s[h].key # k
      BY <2>1
    <3>2. j \in 1..(n + 1) /\ \A h \in (j + 1)..(n + 1) : h = n + 1 \/ h \in (j + 1)..n
      OBVIOUS
    <3> QED BY <1>2, <3>1, <3>2 DEF Found
  <2>2. CASE (\A j \in 1..n : s[j] = None \/ s[j].key # k) /\ x = None
    <3>1. \A j \in 1..(n + 1) : j = n + 1 \/ j \in 1..n
      OBVIOUS
    <3> QED BY <1>2, <2>2, <3>1 DEF Found
  <2> QED BY <2>1, <2>2 DEF Found
<1> QED BY <1>1, <1>2

LEMMA FoundLatest ==
  ASSUME NEW S, NEW s \in Seq(S), NEW k, NEW x, Found(s, Len(s), k, x)
  PROVE  IF k \in Keys(s) THEN x = Latest(s, k) ELSE x = None
<1>1. Len(s) \in Nat /\ DOMAIN s = 1..Len(s)
  OBVIOUS
<1> DEFINE at == {j \in Entries(s) : s[j].key = k}
<1>2. at = {j \in 1..Len(s) : s[j] # None /\ s[j].key = k}
  BY <1>1 DEF Entries
<1>3. k \in Keys(s) <=> at # {}
  BY DEF Keys
<1>4. CASE at = {}
  BY <1>2, <1>3, <1>4 DEF Found
<1>5. CASE at # {}
  <2>1. PICK j \in 1..Len(s) : /\ s[j] # None /\ s[j].key = k /\ s[j].value = x
                               /\ \A h \in (j + 1)..Len(s) : s[h] = None \/ s[h].key # k
    BY <1>2, <1>5 DEF Found
  <2>2. j \in at
    BY <1>2, <2>1
  <2>3. \A h \in at : h <= j
    <3> TAKE h \in at
    <3>1. h \in 1..Len(s) /\ h \notin (j + 1)..Len(s)
      BY <1>2, <2>1
    <3> QED BY <1>1, <3>1
  <2> DEFINE c == CHOOSE i \in at : \A h \in at : h <= i
  <2>4. c \in at /\ \A h \in at : h <= c
    BY <2>2, <2>3
  <2>5. c = j
    BY <1>1, <1>2, <2>2, <2>3, <2>4
  <2>6. Latest(s, k) = s[c].value
    BY DEF Latest
  <2> QED BY <1>3, <1>5, <2>1, <2>5, <2>6
<1> QED BY <1>4, <1>5

LEMMA NoneApart == None \notin Variables /\ None \notin Names
  BY RequestAssumption DEF Variables, Names, Key

LEMMA VarInsertTyped ==
  ASSUME NEW m \in Seq(Variables), NEW v \in Variables
  PROVE  VarMap!insert(m, v) \in Seq(Variables)
<1>1. VarMap!lower_bound(m, v.key) \in 1..(Len(m) + 1)
  BY VarBound DEF Variables
<1> QED BY <1>1, InsertedAt DEF VarMap!insert

LEMMA MapOfIs ==
  ASSUME NEW s \in Seq(Variables)
  PROVE  \E f \in [0..Len(s) -> Seq(Variables)] :
           /\ f[0] = <<>> /\ MapOf(s) = f[Len(s)]
           /\ \A j \in 1..Len(s) : f[j] = VarMap!insert(f[j - 1], s[j])
<1> DEFINE n == Len(s)
           X == Seq(Variables)
           step == [j \in 1..n |-> [m \in X |-> VarMap!insert(m, s[j])]]
<1>1. n \in Nat /\ \A j \in 1..n : s[j] \in Variables
  OBVIOUS
<1>2. step \in [1..n -> [X -> X]]
  BY <1>1, VarInsertTyped
<1> DEFINE e == <<>>
<1>3. e \in X
  OBVIOUS
<1> HIDE DEF n, X, step, e
<1>4. PICK f : Iterates(f, n, X, e, step)
  BY <1>1, <1>2, <1>3, Iterated
<1> USE DEF e
<1>15. f \in [0..n -> X] /\ f[0] = <<>> /\ \A j \in 1..n : f[j] = step[j][f[j - 1]]
  BY <1>4 DEF Iterates
<1>5. \A j \in 1..n : f[j] = VarMap!insert(f[j - 1], s[j])
  <2> TAKE j \in 1..n
  <2>1. f[j - 1] \in X
    BY <1>1, <1>15
  <2> QED BY <1>15, <2>1 DEF step
<1> DEFINE Rule(g) == [j \in 0..n |-> IF j = 0 THEN <<>> ELSE VarMap!insert(g[j - 1], s[j])]
<1>6. f = Rule(f)
  <2>1. \A j \in 0..n : f[j] = IF j = 0 THEN <<>> ELSE VarMap!insert(f[j - 1], s[j])
    BY <1>1, <1>15, <1>5
  <2>2. f = [j \in 0..n |-> f[j]]
    BY <1>15
  <2> QED BY <2>1, <2>2
<1> DEFINE c == CHOOSE g : g = Rule(g)
<1>7. c = Rule(c)
  BY <1>6
<1>8. MapOf(s) = c[n]
  BY DEF MapOf, n
<1> HIDE DEF c
<1>9. c[0] = <<>> /\ \A j \in 1..n : c[j] = VarMap!insert(c[j - 1], s[j])
  BY <1>1, <1>7
<1> DEFINE P == {j \in 0..n : c[j] \in X}
<1>10. 0 \in P
  BY <1>1, <1>3, <1>9
<1>11. \A j \in 0..(n - 1) : j \in P => j + 1 \in P
  <2> SUFFICES ASSUME NEW j \in 0..(n - 1), c[j] \in X PROVE c[j + 1] \in X /\ j + 1 \in 0..n
    OBVIOUS
  <2>1. j + 1 \in 1..n /\ (j + 1) - 1 = j
    BY <1>1
  <2>2. c[j + 1] = VarMap!insert(c[j], s[j + 1])
    BY <1>9, <2>1
  <2>3. c[j] \in Seq(Variables) /\ s[j + 1] \in Variables
    BY <1>1, <2>1 DEF X
  <2>4. VarMap!insert(c[j], s[j + 1]) \in X
    BY <2>3, VarInsertTyped DEF X
  <2> QED BY <1>1, <2>1, <2>2, <2>4
<1> HIDE DEF P
<1>12. \A j \in 0..n : j \in P
  BY <1>1, <1>10, <1>11, UpTo
<1>13. \A j \in 0..n : c[j] \in X
  BY <1>12 DEF P
<1>14. c \in [0..n -> X]
  <2>1. DOMAIN c = 0..n /\ c = [j \in DOMAIN c |-> c[j]]
    BY <1>7
  <2> QED BY <1>13, <2>1
<1> QED BY <1>8, <1>9, <1>14 DEF n, X

(* mapVars fills a sorted map in which the last of each key is found. *)
LEMMA VarsMapped ==
  ASSUME NEW s \in Seq(Variables)
  PROVE  /\ MapOf(s) \in Seq(Variables) /\ VarMap!Sorted(MapOf(s))
         /\ \A k \in Names : Found(s, Len(s), k, optionalLookup(k, MapOf(s)))
<1>1. PICK f \in [0..Len(s) -> Seq(Variables)] :
           /\ f[0] = <<>> /\ MapOf(s) = f[Len(s)]
           /\ \A j \in 1..Len(s) : f[j] = VarMap!insert(f[j - 1], s[j])
  BY MapOfIs
<1>2. Len(s) \in Nat /\ \A j \in 1..Len(s) : s[j] \in Variables /\ s[j] # None
  BY NoneApart
<1> DEFINE Good(j) == VarMap!Sorted(f[j]) /\ \A k \in Names : Found(s, j, k, optionalLookup(k, f[j]))
           P == {j \in 0..Len(s) : Good(j)}
<1>3. 0 \in P
  <2>1. 0 \in 0..Len(s)
    BY <1>2
  <2>2. VarMap!Sorted(f[0])
    BY <1>1 DEF VarMap!Sorted
  <2>3. ASSUME NEW k \in Names PROVE Found(s, 0, k, optionalLookup(k, f[0]))
    <3>1. <<>> \in Seq(Variables) /\ Len(<<>>) = 0
      OBVIOUS
    <3>2. optionalLookup(k, <<>>) = None
      BY <1>1, <2>2, <3>1, VarFound
    <3> QED BY <1>1, <3>2 DEF Found
  <2> QED BY <2>1, <2>2, <2>3
<1>4. \A j \in 0..(Len(s) - 1) : j \in P => j + 1 \in P
  <2> SUFFICES ASSUME NEW j \in 0..(Len(s) - 1), Good(j) PROVE j + 1 \in 0..Len(s) /\ Good(j + 1)
    OBVIOUS
  <2>1. j + 1 \in 1..Len(s) /\ (j + 1) - 1 = j /\ j \in 0..Len(s) /\ j \in Nat /\ j + 1 \in 0..Len(s)
    BY <1>2
  <2>2. f[j + 1] = VarMap!insert(f[j], s[j + 1]) /\ f[j] \in Seq(Variables) /\ s[j + 1] \in Variables /\ s[j + 1] # None
    BY <1>1, <1>2, <2>1
  <2>3. VarMap!Sorted(f[j + 1])
    BY <2>2, VarInserted
  <2>4. ASSUME NEW k \in Names PROVE Found(s, j + 1, k, optionalLookup(k, f[j + 1]))
    <3>1. optionalLookup(k, f[j + 1]) = IF k = s[j + 1].key THEN s[j + 1].value ELSE optionalLookup(k, f[j])
      BY <2>2, VarInsertFound
    <3>2. Found(s, j, k, optionalLookup(k, f[j]))
      OBVIOUS
    <3> QED BY <2>1, <2>2, <3>1, <3>2, FoundNext
  <2> QED BY <2>1, <2>3, <2>4
<1> HIDE DEF P
<1>5. Len(s) \in P
  <2>1. \A j \in 0..Len(s) : j \in P
    BY <1>2, <1>3, <1>4, UpTo
  <2> QED BY <1>2, <2>1
<1>6. Good(Len(s))
  BY <1>5 DEF P
<1>7. f[Len(s)] \in Seq(Variables)
  BY <1>2
<1> QED BY <1>1, <1>6, <1>7

-----------------------------------------------------------------------------
(* Texts.                                                                  *)

LEMMA HexOutTyped ==
  ASSUME NEW b \in Byte
  PROVE  HexOut(b) \in Names /\ Len(HexOut(b)) \in {1, 3}
<1>1. b \in Nat /\ b \div 16 \in 0..15 /\ b % 16 \in 0..15
  BY DEF Byte
<1>2. \A d \in 0..15 : hexchar(d) \in Nat
  BY DEF hexchar
<1>3. hexchar(b \div 16) \in Nat /\ hexchar(b % 16) \in Nat
  BY <1>1, <1>2
<1>4. Plus \in Nat /\ Percent \in Nat
  BY DEF Plus, Percent
<1> QED BY <1>1, <1>3, <1>4 DEF HexOut, Names

(* One turn of urlencode's loop. *)
Encode(s, j, m) == m \o HexOut(s[j])

LEMMA EncodedIs ==
  ASSUME NEW s \in Seq(Byte)
  PROVE  \E f \in [0..Len(s) -> Names] :
           /\ f[0] = <<>> /\ urlencode(s) = f[Len(s)]
           /\ \A j \in 1..Len(s) : f[j] = f[j - 1] \o HexOut(s[j])
<1> DEFINE n == Len(s)
           step == [j \in 1..n |-> [m \in Names |-> Encode(s, j, m)]]
           e == <<>>
<1>1. n \in Nat /\ \A j \in 1..n : s[j] \in Byte
  OBVIOUS
<1>2. \A j \in 1..n : \A m \in Names : Encode(s, j, m) \in Names
  <2> TAKE j \in 1..n
  <2> TAKE m \in Names
  <2>1. HexOut(s[j]) \in Names
    BY <1>1, HexOutTyped
  <2> QED BY <2>1 DEF Names, Encode
<1>3. step \in [1..n -> [Names -> Names]]
  BY <1>2
<1>4. e \in Names
  BY DEF Names
<1> HIDE DEF n, step, e
<1>5. PICK f : Iterates(f, n, Names, e, step)
  BY <1>1, <1>3, <1>4, Iterated
<1> USE DEF e
<1>6. f \in [0..n -> Names] /\ f[0] = <<>> /\ \A j \in 1..n : f[j] = step[j][f[j - 1]]
  BY <1>5 DEF Iterates
<1>7. \A j \in 1..n : f[j] = Encode(s, j, f[j - 1])
  <2> TAKE j \in 1..n
  <2>1. f[j - 1] \in Names
    BY <1>1, <1>6
  <2> QED BY <1>6, <2>1 DEF step
<1> DEFINE Rule(g) == [j \in 0..n |-> IF j = 0 THEN <<>> ELSE Encode(s, j, g[j - 1])]
<1>8. f = Rule(f)
  <2>1. \A j \in 0..n : f[j] = IF j = 0 THEN <<>> ELSE Encode(s, j, f[j - 1])
    BY <1>1, <1>6, <1>7
  <2>2. f = [j \in 0..n |-> f[j]]
    BY <1>6
  <2> QED BY <2>1, <2>2
<1> DEFINE c == CHOOSE g : g = Rule(g)
<1>9. c = Rule(c)
  BY <1>8
<1>10. urlencode(s) = c[n]
  BY DEF urlencode, Encode, n
<1> HIDE DEF c
<1>11. c[0] = <<>> /\ \A j \in 1..n : c[j] = Encode(s, j, c[j - 1])
  BY <1>1, <1>9
<1> DEFINE P == {j \in 0..n : c[j] \in Names}
<1>12. 0 \in P
  BY <1>1, <1>4, <1>11
<1>13. \A j \in 0..(n - 1) : j \in P => j + 1 \in P
  <2> SUFFICES ASSUME NEW j \in 0..(n - 1), c[j] \in Names PROVE c[j + 1] \in Names /\ j + 1 \in 0..n
    OBVIOUS
  <2>1. j + 1 \in 1..n /\ (j + 1) - 1 = j
    BY <1>1
  <2>2. c[j + 1] = Encode(s, j + 1, c[j])
    BY <1>11, <2>1
  <2> QED BY <1>1, <1>2, <2>1, <2>2
<1> HIDE DEF P
<1>14. \A j \in 0..n : j \in P
  BY <1>1, <1>12, <1>13, UpTo
<1>15. \A j \in 0..n : c[j] \in Names
  BY <1>14 DEF P
<1>16. c \in [0..n -> Names]
  <2>1. DOMAIN c = 0..n /\ c = [j \in DOMAIN c |-> c[j]]
    BY <1>9
  <2> QED BY <1>15, <2>1
<1> QED BY <1>10, <1>11, <1>16 DEF n, Encode

LEMMA EncodedTyped ==
  ASSUME NEW s \in Seq(Byte)
  PROVE  urlencode(s) \in Names
<1>1. Len(s) \in 0..Len(s)
  OBVIOUS
<1>2. PICK f \in [0..Len(s) -> Names] : urlencode(s) = f[Len(s)]
  BY EncodedIs
<1> QED BY <1>1, <1>2

LEMMA CookieTyped ==
  ASSUME NEW c, c.key \in Seq(Byte), c.value \in Seq(Byte)
  PROVE  Cookie(c) \in Names
<1>1. urlencode(c.key) \in Names /\ urlencode(c.value) \in Names
  BY EncodedTyped
<1>2. <<Equals>> \in Names
  BY DEF Equals, Names
<1> QED BY <1>1, <1>2 DEF Cookie, Names

Jars == Seq([key : Seq(Byte), value : Seq(Byte)])

(* One turn of the client's loop over its cookies. *)
JoinTurn(cookies, sep, j, m) == m \o sep \o Cookie(cookies[j])

LEMMA JoinedIs ==
  ASSUME NEW s \in Jars, s # <<>>, NEW sep \in Names
  PROVE  \E f \in [1..Len(s) -> Names] :
           /\ f[1] = Cookie(s[1]) /\ Joined(s, sep) = f[Len(s)]
           /\ \A j \in 2..Len(s) : f[j] = JoinTurn(s, sep, j, f[j - 1])
<1> DEFINE n == Len(s)
           step == [j \in 1..(n - 1) |-> [m \in Names |-> JoinTurn(s, sep, j + 1, m)]]
           e == Cookie(s[1])
<1>1. n \in Nat /\ n >= 1 /\ \A j \in 1..n : s[j] \in [key : Seq(Byte), value : Seq(Byte)]
  <2> DEFINE Cookies == [key : Seq(Byte), value : Seq(Byte)]
  <2>1. s \in Seq(Cookies)
    BY DEF Jars
  <2> HIDE DEF Cookies
  <2>2. n # 0
    BY <2>1, EmptySeq
  <2>3. n \in Nat /\ \A j \in 1..n : s[j] \in Cookies
    BY <2>1
  <2> QED BY <2>2, <2>3 DEF Cookies
<1>2. \A j \in 1..n : Cookie(s[j]) \in Names /\ \A m \in Names : JoinTurn(s, sep, j, m) \in Names
  <2> TAKE j \in 1..n
  <2>1. Cookie(s[j]) \in Names
    BY <1>1, CookieTyped
  <2> QED BY <2>1 DEF Names, JoinTurn
<1>3. step \in [1..(n - 1) -> [Names -> Names]]
  <2>1. \A j \in 1..(n - 1) : j + 1 \in 1..n
    BY <1>1
  <2> QED BY <1>2, <2>1
<1>4. e \in Names /\ n - 1 \in Nat
  BY <1>1, <1>2
<1> HIDE DEF n, step, e
<1>5. PICK f : Iterates(f, n - 1, Names, e, step)
  BY <1>3, <1>4, Iterated
<1>6. f \in [0..(n - 1) -> Names] /\ f[0] = e /\ \A j \in 1..(n - 1) : f[j] = step[j][f[j - 1]]
  BY <1>5 DEF Iterates
<1>7. \A j \in 1..(n - 1) : f[j] = JoinTurn(s, sep, j + 1, f[j - 1])
  <2> TAKE j \in 1..(n - 1)
  <2>1. f[j - 1] \in Names
    BY <1>1, <1>6
  <2> QED BY <1>6, <2>1 DEF step
<1> DEFINE Rule(g) == [j \in 1..n |-> IF j = 1 THEN Cookie(s[1]) ELSE JoinTurn(s, sep, j, g[j - 1])]
           h == [j \in 1..n |-> f[j - 1]]
<1>8. h = Rule(h)
  <2>1. ASSUME NEW j \in 1..n PROVE h[j] = IF j = 1 THEN Cookie(s[1]) ELSE JoinTurn(s, sep, j, h[j - 1])
    <3>1. CASE j = 1
      BY <1>6, <3>1 DEF e
    <3>2. CASE j # 1
      <4>1. j - 1 \in 1..(n - 1) /\ j - 1 \in 1..n /\ (j - 1) + 1 = j
        BY <1>1, <3>2
      <4>2. h[j] = JoinTurn(s, sep, j, f[(j - 1) - 1]) /\ h[j - 1] = f[(j - 1) - 1]
        BY <1>7, <4>1
      <4> QED BY <3>2, <4>2
    <3> QED BY <3>1, <3>2
  <2> QED BY <2>1
<1> DEFINE c == CHOOSE g : g = Rule(g)
<1>9. c = Rule(c)
  BY <1>8
<1>10. Joined(s, sep) = c[n]
  BY DEF Joined, JoinTurn, n
<1> HIDE DEF c, h
<1>11. c[1] = Cookie(s[1]) /\ \A j \in 2..n : c[j] = JoinTurn(s, sep, j, c[j - 1])
  BY <1>1, <1>9
<1> DEFINE P == {j \in 0..(n - 1) : c[j + 1] \in Names}
<1>12. 0 \in P
  BY <1>1, <1>2, <1>11
<1>13. \A j \in 0..((n - 1) - 1) : j \in P => j + 1 \in P
  <2> SUFFICES ASSUME NEW j \in 0..((n - 1) - 1), c[j + 1] \in Names
               PROVE  c[(j + 1) + 1] \in Names /\ j + 1 \in 0..(n - 1)
    OBVIOUS
  <2>1. (j + 1) + 1 \in 2..n /\ (j + 1) + 1 \in 1..n /\ ((j + 1) + 1) - 1 = j + 1 /\ j + 1 \in 0..(n - 1)
    BY <1>1
  <2>2. c[(j + 1) + 1] = JoinTurn(s, sep, (j + 1) + 1, c[j + 1])
    BY <1>11, <2>1
  <2> QED BY <1>2, <2>1, <2>2
<1> HIDE DEF P
<1>14. \A j \in 0..(n - 1) : j \in P
  BY <1>4, <1>12, <1>13, UpTo
<1>15. \A j \in 1..n : c[j] \in Names
  <2> TAKE j \in 1..n
  <2>1. j - 1 \in 0..(n - 1) /\ (j - 1) + 1 = j
    BY <1>1
  <2> QED BY <1>14, <2>1 DEF P
<1>16. c \in [1..n -> Names]
  <2>1. DOMAIN c = 1..n /\ c = [j \in DOMAIN c |-> c[j]]
    BY <1>9
  <2> QED BY <1>15, <2>1
<1> QED BY <1>10, <1>11, <1>16 DEF n

LEMMA JoinedTyped ==
  ASSUME NEW s \in Jars, s # <<>>, NEW sep \in Names
  PROVE  Joined(s, sep) \in Names
<1>1. Len(s) \in 1..Len(s)
  BY DEF Jars
<1> QED BY <1>1, JoinedIs

(* The same from the end. *)
LEMMA DownFrom ==
  ASSUME NEW n \in Nat, NEW P, \A j \in 1..n : (\A h \in (j + 1)..n : h \in P) => j \in P
  PROVE  \A j \in 1..n : j \in P
<1> DEFINE Q == {m \in 0..n : \A h \in (n - m + 1)..n : h \in P}
<1>1. 0 \in Q
  OBVIOUS
<1>2. \A m \in 0..(n - 1) : m \in Q => m + 1 \in Q
  <2> SUFFICES ASSUME NEW m \in 0..(n - 1), \A h \in (n - m + 1)..n : h \in P
               PROVE  m + 1 \in 0..n /\ \A h \in (n - (m + 1) + 1)..n : h \in P
    OBVIOUS
  <2>1. n - m \in 1..n /\ n - (m + 1) + 1 = n - m /\ (n - m) + 1 = n - m + 1
    OBVIOUS
  <2>2. n - m \in P
    BY <2>1
  <2>3. \A h \in (n - m)..n : h = n - m \/ h \in (n - m + 1)..n
    OBVIOUS
  <2> QED BY <2>1, <2>2, <2>3
<1> HIDE DEF Q
<1>3. \A m \in 0..n : m \in Q
  BY <1>1, <1>2, UpTo
<1>4. n \in Q
  BY <1>3
<1>5. \A h \in (n - n + 1)..n : h \in P
  BY <1>4 DEF Q
<1>6. n - n + 1 = 1
  OBVIOUS
<1> QED BY <1>5, <1>6

Reverses(f, n, X, step) == f \in [1..n -> X] /\ \A j \in 1..n : f[j] = step[j][f]

LEMMA Reversed ==
  ASSUME NEW n \in Nat, NEW X, NEW x \in X, NEW step \in [1..n -> [[1..n -> X] -> X]],
         \A j \in 1..n : \A f, g \in [1..n -> X] : (\A h \in (j + 1)..n : f[h] = g[h]) => step[j][f] = step[j][g]
  PROVE  \E f : Reverses(f, n, X, step)
<1> DEFINE Q == {m \in 0..n : \E f \in [1..n -> X] : \A j \in (n - m + 1)..n : f[j] = step[j][f]}
<1>1. 0 \in Q
  <2> DEFINE f == [j \in 1..n |-> x]
  <2>1. f \in [1..n -> X] /\ (n - 0 + 1)..n = {} /\ 0 \in 0..n
    OBVIOUS
  <2> HIDE DEF f
  <2> QED BY <2>1
<1>2. ASSUME NEW m \in 0..(n - 1), m \in Q PROVE m + 1 \in Q
  <2>1. PICK f \in [1..n -> X] : \A j \in (n - m + 1)..n : f[j] = step[j][f]
    BY <1>2
  <2> DEFINE k == n - m
             g == [f EXCEPT ![k] = step[k][f]]
  <2>2. k \in 1..n /\ step[k][f] \in X
    <3>1. k \in 1..n
      OBVIOUS
    <3>2. step[k] \in [[1..n -> X] -> X]
      BY <3>1
    <3> QED BY <2>1, <3>1, <3>2
  <2>3. g \in [1..n -> X] /\ g[k] = step[k][f] /\ \A h \in (k + 1)..n : g[h] = f[h]
    BY <2>1, <2>2
  <2> HIDE DEF g
  <2>4. ASSUME NEW j \in k..n PROVE g[j] = step[j][g]
    <3>1. j \in 1..n /\ \A h \in (j + 1)..n : f[h] = g[h]
      BY <2>2, <2>3
    <3>2. step[j][f] = step[j][g]
      BY <2>1, <2>3, <3>1
    <3>3. CASE j = k
      BY <2>3, <3>2, <3>3
    <3>4. CASE j # k
      <4>1. j \in (k + 1)..n /\ j \in (n - m + 1)..n
        BY <2>2, <3>4
      <4> QED BY <2>1, <2>3, <3>2, <4>1
    <3> QED BY <3>3, <3>4
  <2>5. n - (m + 1) + 1 = k /\ m + 1 \in 0..n
    OBVIOUS
  <2> QED BY <2>3, <2>4, <2>5
<1> HIDE DEF Q
<1>3. n \in Q
  <2>1. \A m \in 0..(n - 1) : m \in Q => m + 1 \in Q
    BY <1>2
  <2>2. \A m \in 0..n : m \in Q
    BY <1>1, <2>1, UpTo
  <2> QED BY <2>2
<1>4. PICK f \in [1..n -> X] : \A j \in (n - n + 1)..n : f[j] = step[j][f]
  BY <1>3 DEF Q
<1>5. n - n + 1 = 1
  OBVIOUS
<1> QED BY <1>4, <1>5 DEF Reverses

-----------------------------------------------------------------------------
(* Decoding.                                                               *)

Decoded == Names \cup {Bad, Overrun}

Escaped(text, last, j) ==
  IF j + 2 <= Len(text) THEN HexIn(text[j + 1], text[j + 2])
  ELSE IF j + 1 = Len(text) /\ last THEN HexIn(text[j + 1], 0) ELSE 0

Then(c, decoded) == IF decoded \in {Bad, Overrun} THEN decoded ELSE <<c>> \o decoded

(* One turn of urlDecode's loop, and what the turns after it made. *)
DecodeTurn(text, last, j, f) ==
  IF j = Len(text) + 1 THEN <<>>
  ELSE IF text[j] = Plus THEN Then(Space, f[j + 1])
  ELSE IF text[j] # Percent THEN Then(text[j], f[j + 1])
  ELSE IF Escaped(text, last, j) = 0 THEN Bad
  ELSE IF j + 2 > Len(text) THEN Overrun
  ELSE Then(Escaped(text, last, j), f[j + 3])

LEMMA HexInTyped ==
  ASSUME NEW a \in Nat, NEW b \in Nat
  PROVE  HexIn(a, b) \in Nat
<1>1. \A c \in Nat : c \in Hex => HexTable(c) \in Nat
  BY DEF Hex, HexTable, Digits
<1>2. ASSUME a \in Hex, b \in Hex PROVE 16 * HexTable(a) + HexTable(b) \in Nat
  <2>1. HexTable(a) \in Nat /\ HexTable(b) \in Nat
    BY <1>1, <1>2
  <2> HIDE DEF HexTable
  <2> QED BY <2>1
<1> QED BY <1>2 DEF HexIn, Space

LEMMA EscapedTyped ==
  ASSUME NEW text \in Names, NEW last, NEW j \in 1..Len(text)
  PROVE  Escaped(text, last, j) \in Nat
<1>1. Len(text) \in Nat /\ \A h \in 1..Len(text) : text[h] \in Nat
  BY DEF Names
<1>2. CASE j + 2 <= Len(text)
  <2>1. j + 1 \in 1..Len(text) /\ j + 2 \in 1..Len(text)
    BY <1>1, <1>2
  <2> QED BY <1>1, <1>2, <2>1, HexInTyped DEF Escaped
<1>3. CASE ~(j + 2 <= Len(text)) /\ j + 1 = Len(text) /\ last
  <2>1. j + 1 \in 1..Len(text)
    BY <1>1, <1>3
  <2> QED BY <1>1, <1>3, <2>1, HexInTyped DEF Escaped
<1> QED BY <1>2, <1>3 DEF Escaped

LEMMA ThenTyped ==
  ASSUME NEW c \in Nat, NEW d \in Decoded
  PROVE  Then(c, d) \in Decoded
<1>1. CASE d \in {Bad, Overrun}
  BY <1>1 DEF Then
<1>2. CASE d \notin {Bad, Overrun}
  <2>1. d \in Seq(Nat) /\ <<c>> \in Seq(Nat)
    BY <1>2 DEF Decoded, Names
  <2>2. <<c>> \o d \in Seq(Nat)
    BY <2>1
  <2> QED BY <1>2, <2>2 DEF Then, Decoded, Names
<1> QED BY <1>1, <1>2

LEMMA DecodeTurnTyped ==
  ASSUME NEW text \in Names, NEW last, NEW j \in 1..(Len(text) + 1), NEW f,
         \A h \in (j + 1)..(Len(text) + 1) : f[h] \in Decoded
  PROVE  DecodeTurn(text, last, j, f) \in Decoded
<1>1. Len(text) \in Nat /\ \A h \in 1..Len(text) : text[h] \in Nat
  BY DEF Names
<1>2. CASE j = Len(text) + 1
  <2>1. <<>> \in Decoded
    BY DEF Decoded, Names
  <2> QED BY <1>2, <2>1 DEF DecodeTurn
<1>3. CASE j # Len(text) + 1
  <2>1. j \in 1..Len(text) /\ f[j + 1] \in Decoded /\ text[j] \in Nat
    BY <1>1, <1>3
  <2>2. Then(Space, f[j + 1]) \in Decoded /\ Then(text[j], f[j + 1]) \in Decoded
    BY <2>1, ThenTyped DEF Space
  <2>3. ASSUME ~(j + 2 > Len(text)) PROVE Then(Escaped(text, last, j), f[j + 3]) \in Decoded
    <3>1. j + 3 \in (j + 1)..(Len(text) + 1)
      BY <1>1, <2>3
    <3> QED BY <2>1, <3>1, EscapedTyped, ThenTyped
  <2>4. Bad \in Decoded /\ Overrun \in Decoded
    BY DEF Decoded
  <2> QED BY <1>3, <2>2, <2>3, <2>4 DEF DecodeTurn
<1> QED BY <1>2, <1>3

LEMMA DecodeTurnSame ==
  ASSUME NEW text \in Names, NEW last, NEW j \in 1..(Len(text) + 1), NEW f, NEW g,
         \A h \in (j + 1)..(Len(text) + 1) : f[h] = g[h]
  PROVE  DecodeTurn(text, last, j, f) = DecodeTurn(text, last, j, g)
<1>1. Len(text) \in Nat
  BY DEF Names
<1>2. CASE j = Len(text) + 1
  BY <1>2 DEF DecodeTurn
<1>3. CASE j # Len(text) + 1
  <2>1. f[j + 1] = g[j + 1] /\ (~(j + 2 > Len(text)) => f[j + 3] = g[j + 3])
    BY <1>1, <1>3
  <2> QED BY <1>3, <2>1 DEF DecodeTurn
<1> QED BY <1>2, <1>3

LEMMA DecodedIs ==
  ASSUME NEW text \in Names, NEW last
  PROVE  \E f \in [1..(Len(text) + 1) -> Decoded] :
           urlDecode(text, last) = f[1] /\ \A j \in 1..(Len(text) + 1) : f[j] = DecodeTurn(text, last, j, f)
<1> DEFINE n == Len(text) + 1
           step == [j \in 1..n |-> [f \in [1..n -> Decoded] |-> DecodeTurn(text, last, j, f)]]
           Rule(g) == [j \in 1..n |-> DecodeTurn(text, last, j, g)]
<1>1. n \in Nat /\ 1 \in 1..n
  BY DEF Names
<1>2. \A j \in 1..n : \A f \in [1..n -> Decoded] : DecodeTurn(text, last, j, f) \in Decoded
  <2> TAKE j \in 1..n
  <2> TAKE f \in [1..n -> Decoded]
  <2>1. \A h \in (j + 1)..n : f[h] \in Decoded
    BY <1>1
  <2> QED BY <2>1, DecodeTurnTyped
<1>3. step \in [1..n -> [[1..n -> Decoded] -> Decoded]]
  BY <1>2
<1>4. ASSUME NEW j \in 1..n, NEW f \in [1..n -> Decoded], NEW g \in [1..n -> Decoded],
             \A h \in (j + 1)..n : f[h] = g[h]
      PROVE  step[j][f] = step[j][g]
  BY <1>4, DecodeTurnSame
<1>5. Bad \in Decoded
  BY DEF Decoded
<1>6. \A j \in 1..n : \A f \in [1..n -> Decoded] : step[j][f] = DecodeTurn(text, last, j, f)
  OBVIOUS
<1> HIDE DEF step
<1>7. \E f : Reverses(f, n, Decoded, step)
  <2> HIDE DEF n
  <2> QED BY <1>1, <1>3, <1>4, <1>5, Reversed
<1>8. PICK f : Reverses(f, n, Decoded, step)
  BY <1>7
<1>9. f \in [1..n -> Decoded] /\ \A j \in 1..n : f[j] = DecodeTurn(text, last, j, f)
  BY <1>6, <1>8 DEF Reverses
<1>10. f = Rule(f)
  <2>1. f = [j \in 1..n |-> f[j]]
    BY <1>9
  <2> QED BY <1>9, <2>1
<1> DEFINE c == CHOOSE g : g = Rule(g)
<1>11. c = Rule(c)
  BY <1>10
<1>12. urlDecode(text, last) = c[1]
  BY DEF urlDecode, DecodeTurn, Then, Escaped, n
<1> HIDE DEF c
<1> DEFINE P == {j \in 1..n : c[j] \in Decoded}
<1>13. \A j \in 1..n : (\A h \in (j + 1)..n : h \in P) => j \in P
  <2> SUFFICES ASSUME NEW j \in 1..n, \A h \in (j + 1)..n : c[h] \in Decoded PROVE c[j] \in Decoded
    OBVIOUS
  <2>1. c[j] = DecodeTurn(text, last, j, c)
    BY <1>11
  <2> QED BY <2>1, DecodeTurnTyped
<1> HIDE DEF P
<1>14. \A j \in 1..n : j \in P
  <2> HIDE DEF n
  <2> QED BY <1>1, <1>13, DownFrom
<1>15. c \in [1..n -> Decoded] /\ \A j \in 1..n : c[j] = DecodeTurn(text, last, j, c)
  <2>1. DOMAIN c = 1..n /\ c = [j \in DOMAIN c |-> c[j]]
    BY <1>11
  <2>2. \A j \in 1..n : c[j] \in Decoded
    BY <1>14 DEF P
  <2>3. \A j \in 1..n : c[j] = DecodeTurn(text, last, j, c)
    BY <1>11
  <2> QED BY <2>1, <2>2, <2>3
<1> QED BY <1>12, <1>15

(* urlDecode makes a text, or one of its two failures. *)
LEMMA DecodedTyped ==
  ASSUME NEW text \in Names, NEW last
  PROVE  urlDecode(text, last) \in Decoded
<1>1. 1 \in 1..(Len(text) + 1)
  BY DEF Names
<1>2. PICK f \in [1..(Len(text) + 1) -> Decoded] :
        urlDecode(text, last) = f[1] /\ \A j \in 1..(Len(text) + 1) : f[j] = DecodeTurn(text, last, j, f)
  BY DecodedIs, Zenon
<1>3. f[1] \in Decoded
  BY <1>1
<1> QED BY <1>2, <1>3

-----------------------------------------------------------------------------
(* Splitting.                                                              *)

Pieces == {q \in Seq(Names) : q # <<>>}

Extended(c, pieces) == << <<c>> \o Head(pieces) >> \o Tail(pieces)

(* One step of the search for the separator, and what the steps behind it found. *)
SplitTurn(text, sep, j, f) ==
  IF j = Len(text) + 1 THEN << <<>> >>
  ELSE IF j + Len(sep) <= Len(text) + 1 /\ SubSeq(text, j, j + Len(sep) - 1) = sep
  THEN << <<>> >> \o f[j + Len(sep)]
  ELSE Extended(text[j], f[j + 1])

LEMMA ExtendedTyped ==
  ASSUME NEW c \in Nat, NEW q \in Pieces
  PROVE  Extended(c, q) \in Pieces
<1>1. q \in Seq(Names) /\ q # <<>>
  BY DEF Pieces
<1>2. Head(q) \in Names /\ Tail(q) \in Seq(Names)
  <2> HIDE DEF Names
  <2> QED BY <1>1, HeadTailProperties
<1>3. <<c>> \o Head(q) \in Names
  BY <1>2 DEF Names
<1> DEFINE h == <<c>> \o Head(q)
           t == Tail(q)
<1>4. h \in Names /\ t \in Seq(Names)
  BY <1>2, <1>3
<1> HIDE DEF h, t, Names
<1>5. <<h>> \o t \in Seq(Names) /\ Len(<<h>> \o t) = 1 + Len(t) /\ Len(t) \in Nat
  BY <1>4
<1>6. <<h>> \o t # <<>>
  BY <1>5
<1> QED BY <1>5, <1>6 DEF Extended, Pieces, h, t

LEMMA BeforeTyped ==
  ASSUME NEW q \in Pieces
  PROVE  << <<>> >> \o q \in Pieces
<1> DEFINE h == <<>>
<1>1. h \in Names
  BY DEF Names
<1>2. q \in Seq(Names)
  BY DEF Pieces
<1> HIDE DEF h, Names
<1>3. <<h>> \o q \in Seq(Names) /\ Len(<<h>> \o q) = 1 + Len(q) /\ Len(q) \in Nat
  BY <1>1, <1>2
<1>4. <<h>> \o q # <<>>
  BY <1>3
<1> QED BY <1>3, <1>4 DEF Pieces, h

LEMMA OneEmptyPiece == << <<>> >> \in Pieces
<1> DEFINE h == <<>>
<1>1. h \in Names
  BY DEF Names
<1> HIDE DEF h, Names
<1>2. <<h>> \in Seq(Names) /\ <<h>> # <<>>
  BY <1>1
<1> QED BY <1>2 DEF Pieces, h

LEMMA SplitTurnTyped ==
  ASSUME NEW text \in Names, NEW sep \in Names, Len(sep) >= 1, NEW j \in 1..(Len(text) + 1), NEW f,
         \A h \in (j + 1)..(Len(text) + 1) : f[h] \in Pieces
  PROVE  SplitTurn(text, sep, j, f) \in Pieces
<1>1. Len(text) \in Nat /\ Len(sep) \in Nat /\ \A h \in 1..Len(text) : text[h] \in Nat
  BY DEF Names
<1>2. CASE j = Len(text) + 1
  BY <1>2, OneEmptyPiece DEF SplitTurn
<1>3. CASE j # Len(text) + 1
  <2>1. text[j] \in Nat /\ f[j + 1] \in Pieces
    BY <1>1, <1>3
  <2>2. Extended(text[j], f[j + 1]) \in Pieces
    BY <2>1, ExtendedTyped
  <2>3. ASSUME j + Len(sep) <= Len(text) + 1 PROVE << <<>> >> \o f[j + Len(sep)] \in Pieces
    <3>1. f[j + Len(sep)] \in Pieces
      BY <1>1, <2>3
    <3> QED BY <3>1, BeforeTyped
  <2> QED BY <1>3, <2>2, <2>3 DEF SplitTurn
<1> QED BY <1>2, <1>3

LEMMA SplitTurnSame ==
  ASSUME NEW text \in Names, NEW sep \in Names, Len(sep) >= 1, NEW j \in 1..(Len(text) + 1), NEW f, NEW g,
         \A h \in (j + 1)..(Len(text) + 1) : f[h] = g[h]
  PROVE  SplitTurn(text, sep, j, f) = SplitTurn(text, sep, j, g)
<1>1. Len(text) \in Nat /\ Len(sep) \in Nat
  BY DEF Names
<1>2. CASE j = Len(text) + 1
  BY <1>2 DEF SplitTurn
<1>3. CASE j # Len(text) + 1
  <2>1. f[j + 1] = g[j + 1] /\ (j + Len(sep) <= Len(text) + 1 => f[j + Len(sep)] = g[j + Len(sep)])
    BY <1>1, <1>3
  <2> QED BY <1>3, <2>1 DEF SplitTurn
<1> QED BY <1>2, <1>3

LEMMA SplitIs ==
  ASSUME NEW text \in Names, NEW sep \in Names, Len(sep) >= 1
  PROVE  \E f \in [1..(Len(text) + 1) -> Pieces] :
           Split(text, sep) = f[1] /\ \A j \in 1..(Len(text) + 1) : f[j] = SplitTurn(text, sep, j, f)
<1> DEFINE n == Len(text) + 1
           step == [j \in 1..n |-> [f \in [1..n -> Pieces] |-> SplitTurn(text, sep, j, f)]]
           Rule(g) == [j \in 1..n |-> SplitTurn(text, sep, j, g)]
<1>1. n \in Nat /\ 1 \in 1..n
  BY DEF Names
<1>2. \A j \in 1..n : \A f \in [1..n -> Pieces] : SplitTurn(text, sep, j, f) \in Pieces
  <2> TAKE j \in 1..n
  <2> TAKE f \in [1..n -> Pieces]
  <2>1. \A h \in (j + 1)..n : f[h] \in Pieces
    BY <1>1
  <2> QED BY <2>1, SplitTurnTyped
<1>3. step \in [1..n -> [[1..n -> Pieces] -> Pieces]]
  BY <1>2
<1>4. ASSUME NEW j \in 1..n, NEW f \in [1..n -> Pieces], NEW g \in [1..n -> Pieces],
             \A h \in (j + 1)..n : f[h] = g[h]
      PROVE  step[j][f] = step[j][g]
  BY <1>4, SplitTurnSame
<1>5. \A j \in 1..n : \A f \in [1..n -> Pieces] : step[j][f] = SplitTurn(text, sep, j, f)
  OBVIOUS
<1> HIDE DEF step
<1>6. \E f : Reverses(f, n, Pieces, step)
  <2> DEFINE x == << <<>> >>
  <2>1. x \in Pieces
    BY OneEmptyPiece
  <2> HIDE DEF n, x
  <2> QED BY <1>1, <1>3, <1>4, <2>1, Reversed
<1>7. PICK f : Reverses(f, n, Pieces, step)
  BY <1>6
<1>8. f \in [1..n -> Pieces] /\ \A j \in 1..n : f[j] = SplitTurn(text, sep, j, f)
  BY <1>5, <1>7 DEF Reverses
<1>9. f = Rule(f)
  <2>1. f = [j \in 1..n |-> f[j]]
    BY <1>8
  <2> QED BY <1>8, <2>1
<1> DEFINE c == CHOOSE g : g = Rule(g)
<1>10. c = Rule(c)
  BY <1>9
<1>11. Split(text, sep) = c[1]
  BY DEF Split, SplitTurn, Extended, n
<1> HIDE DEF c
<1> DEFINE P == {j \in 1..n : c[j] \in Pieces}
<1>12. \A j \in 1..n : (\A h \in (j + 1)..n : h \in P) => j \in P
  <2> SUFFICES ASSUME NEW j \in 1..n, \A h \in (j + 1)..n : c[h] \in Pieces PROVE c[j] \in Pieces
    OBVIOUS
  <2>1. c[j] = SplitTurn(text, sep, j, c)
    BY <1>10
  <2> QED BY <2>1, SplitTurnTyped
<1> HIDE DEF P
<1>13. \A j \in 1..n : j \in P
  <2> HIDE DEF n
  <2> QED BY <1>1, <1>12, DownFrom
<1>14. c \in [1..n -> Pieces] /\ \A j \in 1..n : c[j] = SplitTurn(text, sep, j, c)
  <2>1. DOMAIN c = 1..n /\ c = [j \in DOMAIN c |-> c[j]]
    BY <1>10
  <2>2. \A j \in 1..n : c[j] \in Pieces
    BY <1>13 DEF P
  <2>3. \A j \in 1..n : c[j] = SplitTurn(text, sep, j, c)
    BY <1>10
  <2> QED BY <2>1, <2>2, <2>3
<1> QED BY <1>11, <1>14

(* Split makes at least one piece. *)
LEMMA SplitTyped ==
  ASSUME NEW text \in Names, NEW sep \in Names, Len(sep) >= 1
  PROVE  Split(text, sep) \in Pieces
<1>1. 1 \in 1..(Len(text) + 1)
  BY DEF Names
<1> QED BY <1>1, SplitIs

LEMMA VariableTyped ==
  ASSUME NEW piece \in Names, NEW last
  PROVE  Variable(piece, last) \in [key : Decoded, value : Decoded]
<1> DEFINE marks == {j \in DOMAIN piece : piece[j] = Equals}
           eq == CHOOSE j \in marks : \A h \in marks : j <= h
<1>1. DOMAIN piece = 1..Len(piece) /\ Len(piece) \in Nat
  BY DEF Names
<1>2. CASE marks = {}
  <2>1. urlDecode(piece, last) \in Decoded /\ <<>> \in Decoded
    BY DecodedTyped DEF Decoded, Names
  <2> QED BY <1>2, <2>1 DEF Variable
<1>3. CASE marks # {}
  <2>1. marks \subseteq Nat
    BY <1>1
  <2>2. eq \in marks
    <3> HIDE DEF marks
    <3>1. \E j \in marks : \A h \in marks : j <= h
      BY <1>3, <2>1, SomeLeast
    <3> QED BY <3>1
  <2>3. eq \in 1..Len(piece)
    BY <1>1, <2>2
  <2> DEFINE k == SubSeq(piece, 1, eq - 1)
             v == SubSeq(piece, eq + 1, Len(piece))
  <2>4. k \in Names /\ v \in Names
    <3> HIDE DEF eq
    <3>1. \A j \in 1..(eq - 1) : piece[j] \in Nat
      BY <1>1, <2>3 DEF Names
    <3>2. \A j \in (eq + 1)..Len(piece) : piece[j] \in Nat
      BY <1>1, <2>3 DEF Names
    <3> QED BY <1>1, <2>3, <3>1, <3>2, SubSeqProperties DEF Names
  <2>5. urlDecode(k, FALSE) \in Decoded /\ urlDecode(v, last) \in Decoded
    <3> HIDE DEF k, v
    <3> QED BY <2>4, DecodedTyped
  <2>6. Variable(piece, last) = [key |-> urlDecode(k, FALSE), value |-> urlDecode(v, last)]
    BY <1>3 DEF Variable
  <2> DEFINE dk == urlDecode(k, FALSE)
             dv == urlDecode(v, last)
  <2>7. dk \in Decoded /\ dv \in Decoded /\ Variable(piece, last) = [key |-> dk, value |-> dv]
    BY <2>5, <2>6
  <2> HIDE DEF dk, dv
  <2> QED BY <2>7
<1> QED BY <1>2, <1>3

(* What iterateVars hands on, when it neither throws nor runs over. *)
LEMMA VarsTyped ==
  ASSUME NEW text \in Names, NEW sep \in Names, Len(sep) >= 1,
         ~Has(iterateVars(text, sep), Bad), ~Has(iterateVars(text, sep), Overrun)
  PROVE  iterateVars(text, sep) \in Seq(Variables)
<1> DEFINE s == iterateVars(text, sep)
<1>1. CASE text = <<>>
  BY <1>1 DEF iterateVars
<1>2. CASE text # <<>>
  <2> DEFINE q == Split(text, sep)
  <2>1. q \in Seq(Names)
    BY SplitTyped DEF Pieces
  <2>2. s = [j \in DOMAIN q |-> Variable(q[j], j = Len(q))]
    BY <1>2 DEF iterateVars
  <2> HIDE DEF s, q
  <2>3. DOMAIN q = 1..Len(q) /\ Len(q) \in Nat /\ \A j \in 1..Len(q) : q[j] \in Names
    BY <2>1
  <2>4. DOMAIN s = 1..Len(q) /\ \A j \in 1..Len(q) : s[j] = Variable(q[j], j = Len(q))
    BY <2>2, <2>3
  <2>5. ASSUME NEW j \in 1..Len(q) PROVE s[j] \in Variables
    <3> DEFINE last == j = Len(q)
    <3>1. s[j] \in [key : Decoded, value : Decoded]
      <4>1. s[j] = Variable(q[j], last)
        BY <2>4
      <4>2. q[j] \in Names
        BY <2>3
      <4> HIDE DEF last
      <4> QED BY <4>1, <4>2, VariableTyped
    <3>2. Bad \notin {s[j].key, s[j].value} /\ Overrun \notin {s[j].key, s[j].value}
      BY <2>4 DEF Has, s
    <3> QED BY <3>1, <3>2 DEF Decoded, Variables
  <2>6. s = [j \in 1..Len(q) |-> s[j]]
    BY <2>2, <2>3
  <2>7. s \in [1..Len(q) -> Variables]
    BY <2>5, <2>6
  <2> QED BY <2>3, <2>7 DEF s
<1> QED BY <1>1, <1>2

-----------------------------------------------------------------------------
(* The construction.                                                       *)

LEMMA KeysTyped ==
  /\ HTTP \in Names /\ HTTPS \in Names /\ QUERY_STRING \in Names /\ HTTP_COOKIE \in Names
  /\ <<Ampersand>> \in Names /\ Len(<<Ampersand>>) >= 1
  /\ <<Semicolon, Space>> \in Names /\ Len(<<Semicolon, Space>>) >= 1
BY DEF HTTP, HTTPS, QUERY_STRING, HTTP_COOKIE, Names, Ampersand, Semicolon, Space

LEMMA SeqLen ==
  ASSUME NEW S, NEW q \in Seq(S)
  PROVE  Len(q) \in Nat /\ DOMAIN q = 1..Len(q) /\ \A j \in 1..Len(q) : q[j] \in S
OBVIOUS

LEMMA SeqIn ==
  ASSUME NEW S, NEW T, NEW q \in Seq(S), \A j \in 1..Len(q) : q[j] \in T
  PROVE  q \in Seq(T)
<1>1. q \in [1..Len(q) -> T] /\ Len(q) \in Nat
  OBVIOUS
<1> QED BY <1>1

LEMMA GivenTyped ==
  ASSUME NEW r \in Requests
  PROVE  CookieEntry(r.jar) \o r.envs \o r.extra \in Seq(Variables \cup {None})
<1>1. r.envs \in Seq(Pair \cup {None}) /\ r.extra \in Seq(Pair \cup {None}) /\ r.jar \in Seq(Pair)
  BY RequestAssumption DEF Request
<1>2. Pair \subseteq Variables
  <2>1. Seq(Byte) \subseteq Seq(Nat)
    <3>1. \A b \in Byte : b \in Nat
      BY DEF Byte
    <3> QED BY <3>1, SeqIn
  <2> QED BY <2>1 DEF Pair, Variables, Key, Names
<1>3. CookieEntry(r.jar) \in Seq(Variables)
  <2>1. CASE r.jar = <<>>
    BY <2>1 DEF CookieEntry
  <2>2. CASE r.jar # <<>>
    <3>1. r.jar \in Jars
      <4>1. \A j \in 1..Len(r.jar) : r.jar[j] \in [key : Seq(Byte), value : Seq(Byte)]
        <5> TAKE j \in 1..Len(r.jar)
        <5>1. r.jar[j] \in Pair
          BY <1>1
        <5>2. r.jar[j].key \in Seq(Byte)
          <6>1. r.jar[j].key \in Seq(Byte \ {0})
            BY <1>1, RequestAssumption
          <6>2. Seq(Byte \ {0}) \subseteq Seq(Byte)
            OBVIOUS
          <6> QED BY <6>1, <6>2
        <5> QED BY <5>1, <5>2 DEF Pair
      <4> DEFINE C == [key : Seq(Byte), value : Seq(Byte)]
      <4>2. \A j \in 1..Len(r.jar) : r.jar[j] \in C
        BY <4>1
      <4> HIDE DEF C
      <4>3. r.jar \in Seq(C)
        BY <1>1, <4>2, SeqIn
      <4> QED BY <4>3 DEF C, Jars
    <3>2. CookieHeader(r.jar) \in Names
      BY <2>2, <3>1, JoinedTyped, KeysTyped DEF CookieHeader
    <3>3. [key |-> HTTP_COOKIE, value |-> CookieHeader(r.jar)] \in Variables
      BY <3>2, KeysTyped DEF Variables
    <3> DEFINE e == [key |-> HTTP_COOKIE, value |-> CookieHeader(r.jar)]
    <3>4. CookieEntry(r.jar) = <<e>> /\ e \in Variables
      BY <2>2, <3>3 DEF CookieEntry
    <3> HIDE DEF e
    <3> QED BY <3>4
  <2> QED BY <2>1, <2>2
<1> DEFINE a == CookieEntry(r.jar)
           b == r.envs
           c == r.extra
           E == Variables \cup {None}
<1>4. a \in Seq(E) /\ b \in Seq(E) /\ c \in Seq(E)
  BY <1>1, <1>2, <1>3
<1> HIDE DEF a, b, c, E
<1>5. a \o b \o c \in Seq(E)
  BY <1>4
<1> QED BY <1>5 DEF a, b, c, E

(* The hindmost of m's pairs of key k has the value of the foremost of the  *)
(* first n entries of that key.                                             *)
Kept(s, n, k, m) ==
  \/ \E j \in 1..n : /\ s[j] # None /\ s[j].key = k /\ Last(m, k, s[j].value)
                     /\ \A h \in 1..(j - 1) : s[h] = None \/ s[h].key # k
  \/ (\A j \in 1..n : s[j] = None \/ s[j].key # k) /\ \A h \in 1..Len(m) : m[h].key # k

LEMMA KeptNext ==
  ASSUME NEW s, NEW n \in Nat, NEW m \in Seq(Variables), VarMap!Sorted(m), NEW k \in Names, Kept(s, n, k, m)
  PROVE  /\ s[n + 1] = None => Kept(s, n + 1, k, m)
         /\ s[n + 1] # None /\ s[n + 1] \in Variables => Kept(s, n + 1, k, VarMap!insert(m, s[n + 1]))
<1>1. n + 1 \in 1..(n + 1) /\ (\A j \in 1..(n + 1) : j = n + 1 \/ j \in 1..n) /\ (\A j \in 1..n : j \in 1..(n + 1)) /\ 1..((n + 1) - 1) = 1..n
  OBVIOUS
<1>2. ASSUME s[n + 1] = None PROVE Kept(s, n + 1, k, m)
  BY <1>1, <1>2 DEF Kept
<1>3. ASSUME s[n + 1] # None, s[n + 1] \in Variables PROVE Kept(s, n + 1, k, VarMap!insert(m, s[n + 1]))
  <2> DEFINE i == VarMap!insert(m, s[n + 1])
  <2>1. /\ \A x : Last(m, k, x) => Last(i, k, x)
        /\ (\A h \in 1..Len(m) : m[h].key # k) /\ k = s[n + 1].key => Last(i, k, s[n + 1].value)
        /\ (\A h \in 1..Len(m) : m[h].key # k) /\ k # s[n + 1].key => \A h \in 1..Len(i) : i[h].key # k
    BY <1>3, VarInsertLast
  <2> SUFFICES Kept(s, n + 1, k, i)
    OBVIOUS
  <2> HIDE DEF i
  <2>2. CASE \E j \in 1..n : /\ s[j] # None /\ s[j].key = k /\ Last(m, k, s[j].value)
                             /\ \A h \in 1..(j - 1) : s[h] = None \/ s[h].key # k
    BY <1>1, <2>1, <2>2 DEF Kept
  <2>3. CASE (\A j \in 1..n : s[j] = None \/ s[j].key # k) /\ \A h \in 1..Len(m) : m[h].key # k
    <3>1. CASE k = s[n + 1].key
      <4>1. Last(i, k, s[n + 1].value)
        BY <2>1, <2>3, <3>1
      <4> QED BY <1>1, <1>3, <2>3, <3>1, <4>1 DEF Kept
    <3>2. CASE k # s[n + 1].key
      BY <1>1, <2>1, <2>3, <3>2 DEF Kept
    <3> QED BY <3>1, <3>2
  <2> QED BY <2>2, <2>3 DEF Kept
<1> QED BY <1>2, <1>3

(* x is the value of the last of the pairs from a to b of m whose names,    *)
(* without "HTTP_", are k but for capitals; None without one.               *)
HeaderFound(m, a, b, k, x) ==
  \/ \E j \in a..b : /\ Capitals(Tail(m[j].key)) = Capitals(k) /\ m[j].value = x
                     /\ \A h \in (j + 1)..b : Capitals(Tail(m[h].key)) # Capitals(k)
  \/ (\A j \in a..b : Capitals(Tail(m[j].key)) # Capitals(k)) /\ x = None

LEMMA HeaderFoundNext ==
  ASSUME NEW m, NEW a \in Nat, NEW b \in Nat, a <= b, NEW k, NEW x, HeaderFound(m, a, b - 1, k, x)
  PROVE  HeaderFound(m, a, b, k, IF Capitals(k) = Capitals(Tail(m[b].key)) THEN m[b].value ELSE x)
<1>1. b \in a..b /\ (b + 1)..b = {} /\ \A j \in a..b : j = b \/ j \in a..(b - 1)
  OBVIOUS
<1>2. \A j \in a..(b - 1) : j \in a..b /\ \A h \in (j + 1)..b : h = b \/ h \in (j + 1)..(b - 1)
  OBVIOUS
<1>3. CASE Capitals(k) = Capitals(Tail(m[b].key))
  BY <1>1, <1>3 DEF HeaderFound
<1>4. CASE Capitals(k) # Capitals(Tail(m[b].key))
  <2>1. CASE \E j \in a..(b - 1) : /\ Capitals(Tail(m[j].key)) = Capitals(k) /\ m[j].value = x
                                   /\ \A h \in (j + 1)..(b - 1) : Capitals(Tail(m[h].key)) # Capitals(k)
    <3>1. PICK j \in a..(b - 1) : /\ Capitals(Tail(m[j].key)) = Capitals(k) /\ m[j].value = x
                                  /\ \A h \in (j + 1)..(b - 1) : Capitals(Tail(m[h].key)) # Capitals(k)
      BY <2>1
    <3>2. \A h \in (j + 1)..b : Capitals(Tail(m[h].key)) # Capitals(k)
      BY <1>2, <1>4, <3>1
    <3> QED BY <1>2, <1>4, <3>1, <3>2 DEF HeaderFound
  <2>2. CASE (\A j \in a..(b - 1) : Capitals(Tail(m[j].key)) # Capitals(k)) /\ x = None
    BY <1>1, <1>4, <2>2 DEF HeaderFound
  <2> QED BY <2>1, <2>2 DEF HeaderFound
<1> QED BY <1>3, <1>4

LEMMA StartsWithHTTP ==
  ASSUME NEW n \in Names
  PROVE  /\ starts_with(n, HTTP) <=> Len(n) >= 1 /\ n[1] = 2
         /\ starts_with(n, HTTP) => Tail(n) \in Names /\ HTTP \o Tail(n) = n
<1>1. Len(n) \in Nat /\ Len(HTTP) = 1 /\ \A j \in 1..Len(n) : n[j] \in Nat
  BY DEF Names, HTTP
<1>2. ASSUME Len(n) >= 1 PROVE SubSeq(n, 1, 1) = HTTP <=> n[1] = 2
  <2> DEFINE q == SubSeq(n, 1, 1)
  <2>1. q \in Seq(Nat) /\ Len(q) = 1 /\ q[1] = n[1]
    BY <1>1, <1>2, SubSeqProperties DEF Names
  <2>2. n[1] \in Nat
    BY <1>1, <1>2
  <2>3. HTTP \in Seq(Nat) /\ HTTP[1] = 2
    BY DEF HTTP
  <2> HIDE DEF q
  <2>4. ASSUME n[1] = 2 PROVE q = HTTP
    BY <1>1, <2>1, <2>3, <2>4, SeqEqual
  <2>5. ASSUME q = HTTP PROVE n[1] = 2
    BY <2>1, <2>3, <2>5
  <2> QED BY <2>4, <2>5 DEF q
<1>3. starts_with(n, HTTP) <=> Len(n) >= 1 /\ n[1] = 2
  BY <1>1, <1>2 DEF starts_with
<1>4. ASSUME Len(n) >= 1, n[1] = 2 PROVE Tail(n) \in Names /\ HTTP \o Tail(n) = n
  <2>1. n # <<>>
    BY <1>4
  <2>2. Tail(n) \in Seq(Nat) /\ n = <<n[1]>> \o Tail(n)
    BY <1>1, <2>1 DEF Names
  <2> QED BY <1>4, <2>2 DEF HTTP, Names
<1> QED BY <1>3, <1>4

(* Where names that begin with "HTTP_" are in the order.                    *)
LEMMA HTTPOrder ==
  ASSUME NEW n \in Names, NEW k \in Names
  PROVE  /\ Less(k, HTTP) <=> Len(k) = 0 \/ k[1] < 2
         /\ starts_with(n, HTTP) /\ ~starts_with(k, HTTP) /\ ~Less(k, HTTP) => Less(n, k)
<1>1. Len(n) \in Nat /\ Len(k) \in Nat /\ (\A j \in 1..Len(n) : n[j] \in Nat) /\ \A j \in 1..Len(k) : k[j] \in Nat
  BY DEF Names
<1>2. Len(HTTP) = 1 /\ HTTP[1] = 2
  BY DEF HTTP
<1>3. Less(k, HTTP) <=> Len(k) = 0 \/ k[1] < 2
  <2>1. Less(k, HTTP) <=> 1 > Len(k) \/ k[1] < 2
    BY <1>2 DEF Less
  <2> QED BY <1>1, <2>1
<1>4. ASSUME starts_with(n, HTTP), ~starts_with(k, HTTP), ~Less(k, HTTP) PROVE Less(n, k)
  <2>1. Len(n) >= 1 /\ n[1] = 2 /\ Len(k) >= 1 /\ k[1] > 2
    BY <1>1, <1>3, <1>4, StartsWithHTTP
  <2>2. 1 \in 1..Len(k) /\ 1..(1 - 1) = {}
    BY <1>1, <2>1
  <2> QED BY <2>1, <2>2 DEF Less
<1> QED BY <1>3, <1>4

From == VarMap!lower_bound(envmap, HTTP)

QueryVars == Vars(QUERY_STRING, <<Ampersand>>)

TypedInv ==
  /\ given \in Seq(Variables \cup {None}) /\ next \in 1..(Len(given) + 1)
  /\ envmap \in Seq(Variables) /\ qsmap \in Seq(Variables)
  /\ cookiemap \in Seq(Variables) /\ hdrmap \in Seq(Variables)
  /\ MapsSorted
  /\ pc \in {"environment", "query", "cookies", "headers", "ready", "Http400BadRequest", "out_of_range", "undefined"}

(* envmap has what was read: the last of each name foremost, the first last. *)
EnvInv ==
  /\ \A k \in Names : Found(given, next - 1, k, optionalLookup(k, envmap)) /\ Kept(given, next - 1, k, envmap)
  /\ pc # "environment" => next = Len(given) + 1

QueryInv == pc \in {"cookies", "headers", "ready"} => QueryVars \in Seq(Variables) /\ qsmap = MapOf(QueryVars)

(* hdrmap has the pairs from From on, up to header. *)
HeaderInv ==
  /\ pc \in {"environment", "query", "cookies"} => hdrmap = <<>>
  /\ pc \in {"headers", "ready"} =>
       /\ header \in From..(Len(envmap) + 1)
       /\ \A j \in From..(header - 1) : starts_with(envmap[j].key, HTTP)
       /\ \A k \in Names : HeaderFound(envmap, From, header - 1, k, HeaderIn(k, hdrmap))
       /\ \A j \in 1..Len(hdrmap) : \E h \in From..(header - 1) : hdrmap[j].key = Tail(envmap[h].key)
  /\ pc = "ready" => ~(header <= Len(envmap) /\ starts_with(envmap[header].key, HTTP))

CgiInv == TypedInv /\ EnvInv /\ QueryInv /\ HeaderInv

(* An empty map. *)
LEMMA NothingFound ==
  /\ <<>> \in Seq(Variables) /\ VarMap!Sorted(<<>>) /\ HdrMap!Sorted(<<>>)
  /\ \A k \in Names : optionalLookup(k, <<>>) = None /\ HeaderIn(k, <<>>) = None
<1>1. <<>> \in Seq(Variables) /\ VarMap!Sorted(<<>>) /\ HdrMap!Sorted(<<>>) /\ Len(<<>>) = 0
  BY DEF VarMap!Sorted, HdrMap!Sorted
<1>2. ASSUME NEW k \in Names PROVE optionalLookup(k, <<>>) = None
  <2> DEFINE e == <<>>
  <2>1. e \in Seq(Variables) /\ VarMap!Sorted(e) /\ 1..Len(e) = {}
    BY <1>1
  <2> HIDE DEF e
  <2>2. optionalLookup(k, e) = None
    BY <2>1, VarFound
  <2> QED BY <2>2 DEF e
<1>3. Capital(<<>>) = <<>>
  BY DEF Capital
<1>4. \A k \in Names : HeaderIn(k, <<>>) = None
  BY <1>1, <1>2, <1>3, HdrFoundAsVar, CapitalNames
<1> QED BY <1>1, <1>2, <1>4

LEMMA StartInv ==
  ASSUME NEW r \in Requests, Start(r)
  PROVE  CgiInv
<1>1. given \in Seq(Variables \cup {None}) /\ next = 1 /\ 1 \in 1..(Len(given) + 1)
  <2>1. given = CookieEntry(r.jar) \o r.envs \o r.extra /\ next = 1
    BY DEF Start, EntriesOf
  <2>2. given \in Seq(Variables \cup {None})
    BY <2>1, GivenTyped
  <2>3. Len(given) \in Nat
    BY <2>2, SeqLen
  <2>4. 1 \in 1..(Len(given) + 1)
    BY <2>3
  <2> QED BY <2>1, <2>2, <2>4
<1>2. envmap = <<>> /\ qsmap = <<>> /\ cookiemap = <<>> /\ hdrmap = <<>> /\ pc = "environment"
  BY DEF Start, EntriesOf
<1>3. TypedInv
  BY <1>1, <1>2, NothingFound DEF TypedInv, MapsSorted
<1>4. ASSUME NEW k \in Names PROVE Found(given, next - 1, k, optionalLookup(k, envmap)) /\ Kept(given, next - 1, k, envmap)
  <2>1. 1..(next - 1) = {} /\ 1..Len(envmap) = {}
    BY <1>1, <1>2
  <2>2. optionalLookup(k, envmap) = None
    BY <1>2, NothingFound
  <2> QED BY <2>1, <2>2 DEF Found, Kept
<1>5. EnvInv /\ QueryInv /\ HeaderInv
  BY <1>2, <1>4 DEF EnvInv, QueryInv, HeaderInv
<1> QED BY <1>3, <1>5 DEF CgiInv

-----------------------------------------------------------------------------
(* The steps.                                                              *)

LEMMA StepAddEnv == CgiInv /\ AddEnv => CgiInv'
<1> SUFFICES ASSUME CgiInv, AddEnv PROVE CgiInv'
  OBVIOUS
<1>1. TypedInv /\ EnvInv /\ pc = "environment" /\ hdrmap = <<>>
  BY DEF CgiInv, AddEnv, HeaderInv
<1>2. given \in Seq(Variables \cup {None}) /\ next \in 1..(Len(given) + 1) /\ envmap \in Seq(Variables) /\ VarMap!Sorted(envmap)
  BY <1>1 DEF TypedInv, MapsSorted
<1>3. Len(given) \in Nat /\ next \in 1..Len(given) /\ given[next] \in Variables \cup {None}
  <2>1. Len(given) \in Nat /\ \A j \in 1..Len(given) : given[j] \in Variables \cup {None}
    BY <1>2, SeqLen
  <2>2. next <= Len(given)
    BY DEF AddEnv
  <2>3. next \in 1..Len(given)
    BY <1>2, <2>1, <2>2
  <2> QED BY <2>1, <2>3
<1>4. next' = next + 1 /\ UNCHANGED <<given, qsmap, cookiemap, hdrmap, pc>>
  BY DEF AddEnv
<1>5. next - 1 \in Nat /\ (next - 1) + 1 = next /\ next' - 1 = next
  BY <1>3, <1>4
<1>6. next' \in 1..(Len(given) + 1)
  BY <1>3, <1>4
<1>7. envmap' \in Seq(Variables) /\ VarMap!Sorted(envmap')
  <2>1. CASE given[next] = None
    BY <1>2, <2>1 DEF AddEnv
  <2>2. CASE given[next] # None
    <3>1. envmap' = VarMap!insert(envmap, given[next]) /\ given[next] \in Variables
      BY <1>3, <2>2 DEF AddEnv
    <3> QED BY <1>2, <3>1, VarInserted
  <2> QED BY <2>1, <2>2
<1>8. ASSUME NEW k \in Names PROVE Found(given, next, k, optionalLookup(k, envmap'))
  <2>1. Found(given, next - 1, k, optionalLookup(k, envmap))
    BY <1>1 DEF EnvInv
  <2>2. /\ given[next] # None /\ given[next].key = k => Found(given, next, k, given[next].value)
        /\ given[next] = None \/ given[next].key # k => Found(given, next, k, optionalLookup(k, envmap))
    <3> HIDE DEF CgiInv
    <3> QED BY <1>5, <2>1, FoundNext
  <2>3. CASE given[next] = None
    BY <2>2, <2>3 DEF AddEnv
  <2>4. CASE given[next] # None
    <3>1. envmap' = VarMap!insert(envmap, given[next]) /\ given[next] \in Variables
      BY <1>3, <2>4 DEF AddEnv
    <3>2. optionalLookup(k, envmap') = IF k = given[next].key THEN given[next].value ELSE optionalLookup(k, envmap)
      BY <1>2, <3>1, VarInsertFound
    <3> QED BY <2>2, <2>4, <3>2
  <2> QED BY <2>3, <2>4
<1>9. ASSUME NEW k \in Names PROVE Kept(given, next, k, envmap')
  <2>1. Kept(given, next - 1, k, envmap)
    BY <1>1 DEF EnvInv
  <2>2. /\ given[next] = None => Kept(given, next, k, envmap)
        /\ given[next] # None /\ given[next] \in Variables => Kept(given, next, k, VarMap!insert(envmap, given[next]))
    BY <1>2, <1>5, <2>1, KeptNext
  <2> QED BY <1>3, <2>2 DEF AddEnv
<1>10. TypedInv'
  BY <1>1, <1>4, <1>6, <1>7 DEF TypedInv, MapsSorted
<1>11. EnvInv'
  BY <1>1, <1>4, <1>5, <1>8, <1>9 DEF EnvInv
<1>12. QueryInv' /\ HeaderInv'
  BY <1>1, <1>4 DEF QueryInv, HeaderInv
<1> QED BY <1>10, <1>11, <1>12 DEF CgiInv

LEMMA StepSetPath == CgiInv /\ SetPath => CgiInv'
<1> SUFFICES ASSUME CgiInv, SetPath PROVE CgiInv'
  OBVIOUS
<1>1. UNCHANGED <<given, next, envmap, qsmap, cookiemap, hdrmap, header>> /\ pc = "environment"
      /\ next > Len(given) /\ pc' \in {"Http400BadRequest", "out_of_range", "query"}
  BY DEF SetPath
<1>2. TypedInv'
  BY <1>1 DEF CgiInv, TypedInv, MapsSorted
<1>3. EnvInv'
  <2>1. given \in Seq(Variables \cup {None}) /\ next \in 1..(Len(given) + 1)
    BY DEF CgiInv, TypedInv
  <2>2. Len(given) \in Nat
    BY <2>1, SeqLen
  <2>3. next = Len(given) + 1
    BY <1>1, <2>1, <2>2
  <2> QED BY <1>1, <2>3 DEF CgiInv, EnvInv
<1>4. QueryInv' /\ HeaderInv'
  BY <1>1 DEF CgiInv, QueryInv, HeaderInv
<1> QED BY <1>2, <1>3, <1>4 DEF CgiInv

(* What a text of the environment is made of, when that succeeds. *)
LEMMA EnvVarsTyped ==
  ASSUME TypedInv, NEW k \in Names, NEW sep \in Names, Len(sep) >= 1, ~Has(Vars(k, sep), Bad), ~Has(Vars(k, sep), Overrun)
  PROVE  Vars(k, sep) \in Seq(Variables)
<1>1. envmap \in Seq(Variables) /\ VarMap!Sorted(envmap)
  BY DEF TypedInv, MapsSorted
<1>2. CASE optionalLookup(k, envmap) = None
  BY <1>2 DEF Vars
<1>3. CASE optionalLookup(k, envmap) # None
  <2> DEFINE text == optionalLookup(k, envmap)
  <2>1. text \in Names
    BY <1>1, <1>3, VarFound, KeysAreNames
  <2>2. Vars(k, sep) = iterateVars(text, sep)
    BY <1>3 DEF Vars
  <2> HIDE DEF text
  <2> QED BY <2>1, <2>2, VarsTyped
<1> QED BY <1>2, <1>3

LEMMA StepMapQuery == CgiInv /\ MapQuery => CgiInv'
<1> SUFFICES ASSUME CgiInv, MapQuery PROVE CgiInv'
  OBVIOUS
<1>1. UNCHANGED <<given, next, envmap, cookiemap, hdrmap, header>> /\ pc = "query"
  BY DEF MapQuery
<1>2. CASE Has(QueryVars, Bad) \/ Has(QueryVars, Overrun)
  <2>1. pc' \in {"Http400BadRequest", "undefined"} /\ UNCHANGED qsmap
    BY <1>2 DEF MapQuery, QueryVars
  <2>2. TypedInv'
    BY <1>1, <2>1 DEF CgiInv, TypedInv, MapsSorted
  <2> QED BY <1>1, <2>1, <2>2 DEF CgiInv, EnvInv, QueryInv, HeaderInv
<1>3. CASE ~Has(QueryVars, Bad) /\ ~Has(QueryVars, Overrun)
  <2>1. pc' = "cookies" /\ qsmap' = MapOf(QueryVars)
    BY <1>3 DEF MapQuery, QueryVars
  <2>2. QueryVars \in Seq(Variables)
    BY <1>3, EnvVarsTyped, KeysTyped DEF CgiInv, QueryVars
  <2>3. qsmap' \in Seq(Variables) /\ VarMap!Sorted(qsmap')
    BY <2>1, <2>2, VarsMapped
  <2>4. QueryVars' = QueryVars
    BY <1>1 DEF QueryVars, Vars
  <2>5. TypedInv'
    BY <1>1, <2>1, <2>3 DEF CgiInv, TypedInv, MapsSorted
  <2>6. QueryInv'
    BY <2>1, <2>2, <2>4 DEF QueryInv
  <2> QED BY <1>1, <2>1, <2>5, <2>6 DEF CgiInv, EnvInv, HeaderInv
<1> QED BY <1>2, <1>3

(* An insertion puts no other pair in. *)
LEMMA HdrInsertHas ==
  ASSUME NEW m \in Seq(Variables), NEW v \in Variables, NEW h \in 1..Len(HdrMap!insert(m, v))
  PROVE  HdrMap!insert(m, v)[h] = v \/ \E g \in 1..Len(m) : HdrMap!insert(m, v)[h] = m[g]
<1> DEFINE j == HdrMap!lower_bound(m, v.key)
           i == HdrMap!insert(m, v)
<1>1. j \in 1..(Len(m) + 1)
  <2>1. v.key \in Names
    BY DEF Variables
  <2> DEFINE k == Capitals(v.key)
             c == Capital(m)
  <2>2. j = VarMap!lower_bound(c, k) /\ c \in Seq(Variables) /\ Len(c) = Len(m) /\ k \in Names
    BY <2>1, HdrBoundAsVar, CapitalMap, CapitalNames
  <2> HIDE DEF j, k, c
  <2> QED BY <2>2, VarBound
<1>2. i = VarMap!InsertAt(m, j, v)
  BY DEF HdrMap!insert, HdrMap!InsertAt, VarMap!InsertAt
<1> SUFFICES i[h] = v \/ \E g \in 1..Len(m) : i[h] = m[g]
  OBVIOUS
<1>3. h \in 1..Len(i)
  OBVIOUS
<1> HIDE DEF i, j
<1>4. Len(i) = Len(m) + 1 /\ i[j] = v /\ (\A g \in 1..(j - 1) : i[g] = m[g])
      /\ \A g \in (j + 1)..(Len(m) + 1) : i[g] = m[g - 1]
  BY <1>1, <1>2, InsertedAt
<1>5. Len(m) \in Nat
  BY SeqLen
<1>6. CASE h < j
  <2>1. h \in 1..(j - 1) /\ h \in 1..Len(m)
    BY <1>1, <1>3, <1>4, <1>5, <1>6
  <2> QED BY <1>4, <2>1
<1>7. CASE h > j
  <2>1. h \in (j + 1)..(Len(m) + 1) /\ h - 1 \in 1..Len(m)
    BY <1>1, <1>3, <1>4, <1>5, <1>7
  <2> QED BY <1>4, <2>1
<1> QED BY <1>1, <1>3, <1>4, <1>5, <1>6, <1>7

LEMMA StepMapCookies == CgiInv /\ MapCookies => CgiInv'
<1> SUFFICES ASSUME CgiInv, MapCookies PROVE CgiInv'
  OBVIOUS
<1> DEFINE cookies == Vars(HTTP_COOKIE, <<Semicolon, Space>>)
<1>1. UNCHANGED <<given, next, envmap, qsmap, hdrmap>> /\ pc = "cookies" /\ hdrmap = <<>>
  BY DEF MapCookies, CgiInv, HeaderInv
<1>2. QueryVars' = QueryVars
  BY <1>1 DEF QueryVars, Vars
<1>3. CASE Has(cookies, Bad) \/ Has(cookies, Overrun)
  <2>1. pc' \in {"Http400BadRequest", "undefined"} /\ UNCHANGED <<cookiemap, header>>
    BY <1>3 DEF MapCookies
  <2>2. TypedInv'
    BY <1>1, <2>1 DEF CgiInv, TypedInv, MapsSorted
  <2> QED BY <1>1, <2>1, <2>2 DEF CgiInv, EnvInv, QueryInv, HeaderInv
<1>4. CASE ~Has(cookies, Bad) /\ ~Has(cookies, Overrun)
  <2>1. pc' = "headers" /\ cookiemap' = MapOf(cookies) /\ header' = From
    BY <1>4 DEF MapCookies, From
  <2>2. cookies \in Seq(Variables)
    BY <1>4, EnvVarsTyped, KeysTyped DEF CgiInv
  <2> HIDE DEF cookies
  <2>3. cookiemap' \in Seq(Variables) /\ VarMap!Sorted(cookiemap')
    BY <2>1, <2>2, VarsMapped
  <2>4. TypedInv'
    BY <1>1, <2>1, <2>3 DEF CgiInv, TypedInv, MapsSorted
  <2>5. EnvInv' /\ QueryInv'
    BY <1>1, <1>2, <2>1 DEF CgiInv, EnvInv, QueryInv
  <2>6. From \in 1..(Len(envmap) + 1) /\ Len(envmap) \in Nat
    BY VarBound, SeqLen, KeysTyped DEF From, CgiInv, TypedInv
  <2>7. From' = From /\ From..(From - 1) = {} /\ header' \in From..(Len(envmap) + 1) /\ 1..Len(hdrmap) = {}
    BY <1>1, <2>1, <2>6 DEF From
  <2>8. ASSUME NEW k \in Names PROVE HeaderFound(envmap, From, From - 1, k, HeaderIn(k, hdrmap))
    <3>1. HeaderIn(k, hdrmap) = None
      BY <1>1, NothingFound
    <3> QED BY <2>7, <3>1 DEF HeaderFound
  <2>9. HeaderInv'
    BY <1>1, <2>1, <2>7, <2>8 DEF HeaderInv
  <2> QED BY <2>4, <2>5, <2>9 DEF CgiInv
<1> QED BY <1>3, <1>4

LEMMA StepAddHeader == CgiInv /\ AddHeader => CgiInv'
<1> SUFFICES ASSUME CgiInv, AddHeader PROVE CgiInv'
  OBVIOUS
<1>1. UNCHANGED <<given, next, envmap, qsmap, cookiemap>> /\ pc = "headers"
  BY DEF AddHeader
<1>2. QueryVars' = QueryVars /\ From' = From
  BY <1>1 DEF QueryVars, Vars, From
<1>3. envmap \in Seq(Variables) /\ hdrmap \in Seq(Variables) /\ HdrMap!Sorted(hdrmap)
  BY DEF CgiInv, TypedInv, MapsSorted
<1>4. From \in 1..(Len(envmap) + 1) /\ Len(envmap) \in Nat
  BY <1>3, VarBound, SeqLen, KeysTyped DEF From
<1>5. header \in From..(Len(envmap) + 1)
  BY <1>1 DEF CgiInv, HeaderInv
<1>6. CASE ~(header <= Len(envmap) /\ starts_with(envmap[header].key, HTTP))
  <2>1. pc' = "ready" /\ UNCHANGED <<hdrmap, header>>
    BY <1>6 DEF AddHeader
  <2>2. TypedInv'
    BY <1>1, <2>1 DEF CgiInv, TypedInv, MapsSorted
  <2>3. EnvInv' /\ QueryInv'
    BY <1>1, <1>2, <2>1 DEF CgiInv, EnvInv, QueryInv
  <2>4. HeaderInv'
    BY <1>1, <1>2, <1>6, <2>1 DEF CgiInv, HeaderInv
  <2> QED BY <2>2, <2>3, <2>4 DEF CgiInv
<1>7. CASE header <= Len(envmap) /\ starts_with(envmap[header].key, HTTP)
  <2> DEFINE v == [envmap[header] EXCEPT !.key = Tail(@)]
             name == envmap[header].key
  <2>1. pc' = "headers" /\ hdrmap' = HdrMap!insert(hdrmap, v) /\ header' = header + 1
    BY <1>1, <1>7 DEF AddHeader
  <2>2. header \in 1..Len(envmap) /\ envmap[header] \in Variables
    <3>1. header \in 1..Len(envmap)
      BY <1>4, <1>5, <1>7
    <3> QED BY <1>3, <3>1, KeysAreNames
  <2>3. Tail(name) \in Names
    <3>1. name \in Names
      BY <2>2 DEF Variables
    <3> QED BY <1>7, <3>1, StartsWithHTTP
  <2>4. v \in Variables /\ v.key = Tail(name) /\ v.value = envmap[header].value
    BY <2>2, <2>3 DEF Variables
  <2> HIDE DEF v
  <2>5. hdrmap' \in Seq(Variables) /\ HdrMap!Sorted(hdrmap')
    BY <1>3, <2>1, <2>4, HdrInserted
  <2>6. TypedInv'
    BY <1>1, <2>1, <2>5 DEF CgiInv, TypedInv, MapsSorted
  <2>7. EnvInv' /\ QueryInv'
    BY <1>1, <1>2, <2>1 DEF CgiInv, EnvInv, QueryInv
  <2>8. header' - 1 = header /\ header' \in From..(Len(envmap) + 1) /\ header \in From..header
        /\ \A j \in From..header : j = header \/ j \in From..(header - 1)
    BY <1>4, <1>5, <1>7, <2>1
  <2>9. \A j \in From..header : starts_with(envmap[j].key, HTTP)
    BY <1>1, <1>7, <2>8 DEF CgiInv, HeaderInv
  <2>10. ASSUME NEW k \in Names PROVE HeaderFound(envmap, From, header, k, HeaderIn(k, hdrmap'))
    <3>1. HeaderFound(envmap, From, header - 1, k, HeaderIn(k, hdrmap))
      BY <1>1 DEF CgiInv, HeaderInv
    <3>2. HeaderIn(k, hdrmap') = IF Capitals(k) = Capitals(Tail(name)) THEN envmap[header].value ELSE HeaderIn(k, hdrmap)
      <4>1. HeaderIn(k, HdrMap!insert(hdrmap, v)) = IF Capitals(k) = Capitals(v.key) THEN v.value ELSE HeaderIn(k, hdrmap)
        BY <1>3, <2>4, HdrInserted
      <4> QED BY <2>1, <2>4, <4>1
    <3>3. From \in Nat /\ header \in Nat /\ From <= header
      BY <1>4, <1>5
    <3>4. HeaderFound(envmap, From, header, k,
                      IF Capitals(k) = Capitals(Tail(name)) THEN envmap[header].value ELSE HeaderIn(k, hdrmap))
      BY <3>1, <3>3, HeaderFoundNext
    <3> QED BY <3>2, <3>4
  <2>11. ASSUME NEW j \in 1..Len(hdrmap') PROVE \E h \in From..header : hdrmap'[j].key = Tail(envmap[h].key)
    <3>1. hdrmap'[j] = v \/ \E i \in 1..Len(hdrmap) : hdrmap'[j] = hdrmap[i]
      BY <1>3, <2>1, <2>4, HdrInsertHas
    <3>2. \A i \in 1..Len(hdrmap) : \E h \in From..header : hdrmap[i].key = Tail(envmap[h].key)
      <4>1. \A h \in From..(header - 1) : h \in From..header
        BY <1>4, <1>5
      <4> QED BY <1>1, <4>1 DEF CgiInv, HeaderInv
    <3> QED BY <2>4, <2>8, <3>1, <3>2
  <2>12. HeaderInv'
    BY <1>1, <1>2, <2>1, <2>8, <2>9, <2>10, <2>11 DEF HeaderInv
  <2> QED BY <2>6, <2>7, <2>12 DEF CgiInv
<1> QED BY <1>6, <1>7

LEMMA StepNext == CgiInv /\ [Next]_vars => CgiInv'
<1> SUFFICES ASSUME CgiInv, [Next]_vars PROVE CgiInv'
  OBVIOUS
<1>1. CASE Next
  BY <1>1, StepAddEnv, StepSetPath, StepMapQuery, StepMapCookies, StepAddHeader DEF Next
<1>2. CASE UNCHANGED vars
  <2>1. UNCHANGED <<given, next, envmap, qsmap, cookiemap, hdrmap, header, pc>>
    BY <1>2 DEF vars
  <2>2. QueryVars' = QueryVars /\ From' = From
    BY <2>1 DEF QueryVars, Vars, From
  <2>3. TypedInv' /\ EnvInv' /\ QueryInv'
    BY <2>1, <2>2 DEF CgiInv, TypedInv, MapsSorted, EnvInv, QueryInv
  <2>4. HeaderInv'
    BY <2>1, <2>2 DEF CgiInv, HeaderInv
  <2> QED BY <2>3, <2>4 DEF CgiInv
<1> QED BY <1>1, <1>2

-----------------------------------------------------------------------------
(* What the invariant says of a constructed request.                       *)

LEMMA KeysOfVariables ==
  ASSUME NEW s \in Seq(Variables \cup {None})
  PROVE  Keys(s) \subseteq Names /\ Len(s) \in Nat
         /\ \A k : k \in Keys(s) <=> \E j \in 1..Len(s) : s[j] # None /\ s[j].key = k
<1>1. DOMAIN s = 1..Len(s) /\ Len(s) \in Nat /\ \A j \in 1..Len(s) : s[j] \in Variables \cup {None}
  BY SeqLen
<1>2. \A k : k \in Keys(s) <=> \E j \in 1..Len(s) : s[j] # None /\ s[j].key = k
  BY <1>1 DEF Keys, Entries
<1>3. \A j \in 1..Len(s) : s[j] # None => s[j].key \in Names
  BY <1>1 DEF Variables
<1> QED BY <1>1, <1>2, <1>3

LEMMA VariablesOrNone ==
  ASSUME NEW s \in Seq(Variables)
  PROVE  s \in Seq(Variables \cup {None}) /\ \A j \in 1..Len(s) : s[j] # None
<1>1. \A j \in 1..Len(s) : s[j] \in Variables
  BY SeqLen
<1>2. \A j \in 1..Len(s) : s[j] \in Variables \cup {None}
  BY <1>1
<1> QED BY <1>1, <1>2, SeqIn, NoneApart

(* A name is in envmap when it was given. *)
LEMMA EnvHas ==
  ASSUME CgiInv, pc = "ready", NEW k \in Names
  PROVE  k \in Keys(given) <=> \E j \in 1..Len(envmap) : envmap[j].key = k
<1>1. given \in Seq(Variables \cup {None}) /\ envmap \in Seq(Variables) /\ VarMap!Sorted(envmap) /\ next = Len(given) + 1
  BY DEF CgiInv, TypedInv, EnvInv, MapsSorted
<1>2. Len(given) \in Nat
  BY <1>1, KeysOfVariables
<1>3. next - 1 = Len(given)
  BY <1>1, <1>2
<1>4. Kept(given, Len(given), k, envmap)
  BY <1>3 DEF CgiInv, EnvInv
<1>5. k \in Keys(given) <=> \E j \in 1..Len(given) : given[j] # None /\ given[j].key = k
  BY <1>1, KeysOfVariables
<1> QED BY <1>4, <1>5 DEF Kept, Last

LEMMA LatestFound == CgiInv => LatestCounts
<1> SUFFICES ASSUME CgiInv, pc = "ready" PROVE LatestCounts
  BY DEF LatestCounts
<1>1. given \in Seq(Variables \cup {None}) /\ next = Len(given) + 1 /\ envmap \in Seq(Variables) /\ cookiemap \in Seq(Variables)
  BY DEF CgiInv, TypedInv, EnvInv
<1>2. Len(given) \in Nat
  BY <1>1, KeysOfVariables
<1>3. next - 1 = Len(given)
  BY <1>1, <1>2
<1>4. ASSUME NEW k \in Keys(given) PROVE getEnvStr(k) = Latest(given, k)
  <2>1. k \in Names
    BY <1>1, KeysOfVariables
  <2>2. Found(given, Len(given), k, getEnvStr(k))
    BY <1>3, <2>1 DEF CgiInv, EnvInv, getEnvStr
  <2> DEFINE S == Variables \cup {None}
  <2>3. given \in Seq(S)
    BY <1>1
  <2> HIDE DEF S
  <2> QED BY <2>2, <2>3, FoundLatest
<1>5. QueryVars \in Seq(Variables) /\ qsmap = MapOf(QueryVars)
  BY DEF CgiInv, QueryInv
<1>6. ASSUME NEW k \in Names
      PROVE  IF k \in Keys(QueryVars) THEN getQueryStringParamStr(k) = Latest(QueryVars, k) ELSE getQueryStringParamStr(k) = None
  <2>1. Found(QueryVars, Len(QueryVars), k, getQueryStringParamStr(k))
    BY <1>5, VarsMapped DEF getQueryStringParamStr
  <2> QED BY <1>5, <2>1, FoundLatest
<1>7. Keys(QueryVars) \subseteq Names /\ Keys(cookiemap) \subseteq Names
  BY <1>1, <1>5, VariablesOrNone, KeysOfVariables
<1>8. isSecure <=> HTTPS \in Keys(given)
  <2>1. isSecure <=> \E j \in 1..Len(envmap) : ~Less(envmap[j].key, HTTPS) /\ ~Less(HTTPS, envmap[j].key)
    BY DEF isSecure, VarMap!contains
  <2>2. \A j \in 1..Len(envmap) : envmap[j].key \in Names
    BY <1>1, KeysAreNames
  <2>3. \A j \in 1..Len(envmap) : ~Less(envmap[j].key, HTTPS) /\ ~Less(HTTPS, envmap[j].key) <=> envmap[j].key = HTTPS
    <3> TAKE j \in 1..Len(envmap)
    <3>1. ~Less(HTTPS, HTTPS)
      BY KeysTyped, LessNotBoth
    <3> QED BY <2>2, <3>1, KeysTyped, LessTotal
  <2> QED BY <2>1, <2>3, EnvHas, KeysTyped
<1> QED BY <1>4, <1>6, <1>7, <1>8 DEF LatestCounts, QueryVars

(* All the pairs whose names begin with "HTTP_" have been copied. *)
LEMMA AllHeaders ==
  ASSUME CgiInv, pc = "ready", NEW j \in 1..Len(envmap)
  PROVE  starts_with(envmap[j].key, HTTP) <=> j \in From..(header - 1)
<1>1. envmap \in Seq(Variables) /\ VarMap!Sorted(envmap)
  BY DEF CgiInv, TypedInv, MapsSorted
<1>2. Len(envmap) \in Nat /\ \A h \in 1..Len(envmap) : envmap[h].key \in Names
  BY <1>1, KeysAreNames
<1>3. /\ From \in 1..(Len(envmap) + 1)
      /\ \A h \in 1..(From - 1) : Less(envmap[h].key, HTTP)
      /\ From <= Len(envmap) => ~Less(envmap[From].key, HTTP)
  BY <1>1, KeysTyped, VarBound DEF From
<1>4. /\ header \in From..(Len(envmap) + 1) /\ ~(header <= Len(envmap) /\ starts_with(envmap[header].key, HTTP))
      /\ \A h \in From..(header - 1) : starts_with(envmap[h].key, HTTP)
  BY DEF CgiInv, HeaderInv
<1>5. ASSUME starts_with(envmap[j].key, HTTP), j < From PROVE FALSE
  <2>1. j \in 1..(From - 1)
    BY <1>2, <1>3, <1>5
  <2>2. Less(envmap[j].key, HTTP)
    BY <1>3, <2>1
  <2>3. envmap[j].key \in Names
    BY <1>2
  <2>4. Len(envmap[j].key) >= 1 /\ envmap[j].key[1] = 2
    BY <1>5, <2>3, StartsWithHTTP
  <2>5. Len(envmap[j].key) = 0 \/ envmap[j].key[1] < 2
    BY <2>2, <2>3, HTTPOrder
  <2> QED BY <2>4, <2>5
<1>6. ASSUME starts_with(envmap[j].key, HTTP), j >= header PROVE FALSE
  <2>1. header \in 1..Len(envmap) /\ j # header
    BY <1>2, <1>3, <1>4, <1>6
  <2>2. ~starts_with(envmap[header].key, HTTP) /\ header < j
    BY <1>4, <1>6, <2>1
  <2>3. ~Less(envmap[header].key, HTTP)
    <3>1. CASE header = From
      BY <1>3, <2>1, <3>1
    <3>2. CASE header # From
      <4>1. From < header /\ From \in 1..Len(envmap)
        BY <1>2, <1>3, <1>4, <2>1, <3>2
      <4>2. ~Less(envmap[header].key, envmap[From].key) /\ ~Less(envmap[From].key, HTTP)
        BY <1>1, <1>3, <2>1, <4>1 DEF VarMap!Sorted
      <4> QED BY <1>2, <2>1, <4>1, <4>2, KeysTyped, NotLessTransitive
    <3> QED BY <3>1, <3>2
  <2>4. Less(envmap[j].key, envmap[header].key)
    BY <1>2, <1>6, <2>1, <2>2, <2>3, HTTPOrder
  <2>5. ~Less(envmap[j].key, envmap[header].key)
    BY <1>1, <2>1, <2>2 DEF VarMap!Sorted
  <2> QED BY <2>4, <2>5
<1>7. j \in From..(header - 1) <=> ~(j < From) /\ ~(j >= header)
  BY <1>2, <1>3, <1>4
<1> QED BY <1>4, <1>5, <1>6, <1>7

LEMMA CapitalAfter ==
  ASSUME NEW n \in Names, starts_with(n, HTTP)
  PROVE  /\ Len(n) \in Nat \ {0}
         /\ Capitals(n) \in Seq(Nat) /\ Len(Capitals(n)) = Len(n) /\ Capitals(n)[1] = 2
         /\ Capitals(Tail(n)) \in Seq(Nat) /\ Len(Capitals(Tail(n))) = Len(n) - 1
         /\ \A j \in 1..(Len(n) - 1) : Capitals(Tail(n))[j] = Capitals(n)[j + 1]
<1> DEFINE t == Tail(n)
<1>1. Len(n) \in Nat /\ Len(n) >= 1 /\ n[1] = 2 /\ t \in Names
  BY StartsWithHTTP DEF Names
<1>2. Len(t) = Len(n) - 1 /\ \A j \in 1..(Len(n) - 1) : t[j] = n[j + 1]
  <2>1. n # <<>>
    BY <1>1
  <2> QED BY <2>1 DEF Names
<1> HIDE DEF t
<1>3. DOMAIN n = 1..Len(n) /\ DOMAIN t = 1..(Len(n) - 1)
  BY <1>1, <1>2 DEF Names
<1>4. Capitals(n) \in Seq(Nat) /\ Capitals(t) \in Seq(Nat)
  BY <1>1, CapitalNames DEF Names
<1>5. DOMAIN Capitals(n) = 1..Len(n) /\ DOMAIN Capitals(t) = 1..(Len(n) - 1)
  BY <1>3 DEF Capitals
<1>6. Len(Capitals(n)) = Len(n) /\ Len(Capitals(t)) = Len(n) - 1
  <2>1. Len(n) - 1 \in Nat
    BY <1>1
  <2> QED BY <1>1, <1>4, <1>5, <2>1
<1>7. Capitals(n)[1] = 2
  <2>1. 1 \in DOMAIN n
    BY <1>1, <1>3
  <2> QED BY <1>1, <2>1 DEF Capitals
<1>8. ASSUME NEW j \in 1..(Len(n) - 1) PROVE Capitals(t)[j] = Capitals(n)[j + 1]
  <2>1. j \in DOMAIN t /\ j + 1 \in DOMAIN n /\ t[j] = n[j + 1]
    BY <1>1, <1>2, <1>3
  <2> QED BY <2>1 DEF Capitals
<1> QED BY <1>1, <1>4, <1>6, <1>7, <1>8 DEF t

LEMMA CapitalTail ==
  ASSUME NEW n \in Names, NEW k \in Names, starts_with(n, HTTP), starts_with(k, HTTP)
  PROVE  Capitals(n) = Capitals(k) <=> Capitals(Tail(n)) = Capitals(Tail(k))
<1> DEFINE cn == Capitals(n)
           ck == Capitals(k)
           tn == Capitals(Tail(n))
           tk == Capitals(Tail(k))
<1>1. /\ Len(n) \in Nat \ {0} /\ cn \in Seq(Nat) /\ Len(cn) = Len(n) /\ cn[1] = 2
      /\ tn \in Seq(Nat) /\ Len(tn) = Len(n) - 1 /\ \A j \in 1..(Len(n) - 1) : tn[j] = cn[j + 1]
  BY CapitalAfter
<1>2. /\ Len(k) \in Nat \ {0} /\ ck \in Seq(Nat) /\ Len(ck) = Len(k) /\ ck[1] = 2
      /\ tk \in Seq(Nat) /\ Len(tk) = Len(k) - 1 /\ \A j \in 1..(Len(k) - 1) : tk[j] = ck[j + 1]
  BY CapitalAfter
<1> HIDE DEF cn, ck, tn, tk
<1>3. ASSUME cn = ck PROVE tn = tk
  <2>1. Len(n) = Len(k)
    BY <1>1, <1>2, <1>3
  <2>2. \A j \in 1..Len(tn) : tn[j] = tk[j]
    BY <1>1, <1>2, <1>3, <2>1
  <2> QED BY <1>1, <1>2, <2>1, <2>2, SeqEqual
<1>4. ASSUME tn = tk PROVE cn = ck
  <2>1. Len(n) = Len(k)
    BY <1>1, <1>2, <1>4
  <2>2. \A j \in 1..Len(cn) : cn[j] = ck[j]
    <3> TAKE j \in 1..Len(cn)
    <3>1. CASE j = 1
      BY <1>1, <1>2, <3>1
    <3>2. CASE j # 1
      <4>1. j - 1 \in 1..(Len(n) - 1) /\ (j - 1) + 1 = j
        BY <1>1, <3>2
      <4>2. cn[j] = tn[j - 1] /\ ck[j] = tk[j - 1]
        BY <1>1, <1>2, <2>1, <4>1
      <4> QED BY <1>4, <4>2
    <3> QED BY <3>1, <3>2
  <2> QED BY <1>1, <1>2, <2>1, <2>2, SeqEqual
<1> QED BY <1>3, <1>4 DEF cn, ck, tn, tk

LEMMA EarliestIs ==
  ASSUME NEW S, NEW s \in Seq(S), NEW k, NEW j \in 1..Len(s), s[j] # None, s[j].key = k,
         \A h \in 1..(j - 1) : s[h] = None \/ s[h].key # k
  PROVE  Earliest(s, k) = s[j].value
<1> DEFINE at == {i \in Entries(s) : s[i].key = k}
           c == CHOOSE i \in at : \A h \in at : i <= h
<1>1. Len(s) \in Nat /\ at = {i \in 1..Len(s) : s[i] # None /\ s[i].key = k}
  BY DEF Entries
<1>2. j \in at /\ \A h \in at : j <= h
  <2> HIDE DEF at
  <2>1. \A h \in at : j <= h
    <3> TAKE h \in at
    <3>1. h \in 1..Len(s) /\ h \notin 1..(j - 1)
      BY <1>1
    <3> QED BY <1>1, <3>1
  <2> QED BY <1>1, <2>1
<1>3. c \in at /\ \A h \in at : c <= h
  BY <1>2
<1>4. c = j
  BY <1>1, <1>2, <1>3
<1>5. Earliest(s, k) = s[c].value
  BY DEF Earliest
<1> QED BY <1>4, <1>5

LEMMA FirstHeaderFound ==
  ASSUME CgiInv, pc = "ready", NEW k \in Keys(given), starts_with(k, HTTP)
  PROVE  \E n \in SameHeader(k) : /\ \A o \in SameHeader(k) : ~Less(n, o)
                                  /\ getHeaderParamStr(Tail(k)) = Earliest(given, n)
<1>1. given \in Seq(Variables \cup {None}) /\ next = Len(given) + 1 /\ envmap \in Seq(Variables) /\ VarMap!Sorted(envmap)
  BY DEF CgiInv, TypedInv, EnvInv, MapsSorted
<1>2. k \in Names /\ Keys(given) \subseteq Names /\ Len(given) \in Nat
  BY <1>1, KeysOfVariables
<1>3. Len(envmap) \in Nat /\ \A j \in 1..Len(envmap) : envmap[j].key \in Names
  BY <1>1, KeysAreNames
<1>4. From \in 1..(Len(envmap) + 1) /\ header \in From..(Len(envmap) + 1)
  BY <1>1, KeysTyped, VarBound DEF From, CgiInv, HeaderInv
<1>5. \A j \in From..(header - 1) : j \in 1..Len(envmap)
  BY <1>3, <1>4
<1> DEFINE Same(j) == Capitals(Tail(envmap[j].key)) = Capitals(Tail(k))
<1>6. ASSUME NEW o \in SameHeader(k) PROVE \E j \in From..(header - 1) : envmap[j].key = o /\ Same(j)
  <2>1. o \in Keys(given) /\ starts_with(o, HTTP) /\ Capitals(o) = Capitals(k) /\ o \in Names
    BY <1>2 DEF SameHeader
  <2>2. PICK j \in 1..Len(envmap) : envmap[j].key = o
    BY <2>1, EnvHas
  <2>3. j \in From..(header - 1)
    BY <2>1, <2>2, AllHeaders
  <2>4. Capitals(Tail(o)) = Capitals(Tail(k))
    BY <1>2, <2>1, CapitalTail
  <2> QED BY <2>2, <2>3, <2>4
<1>7. k \in SameHeader(k)
  BY <1>2 DEF SameHeader
<1>8. Tail(k) \in Names
  BY <1>2, StartsWithHTTP
<1>9. HeaderFound(envmap, From, header - 1, Tail(k), getHeaderParamStr(Tail(k)))
  BY <1>8 DEF CgiInv, HeaderInv, getHeaderParamStr, HeaderIn
<1>10. PICK j \in From..(header - 1) : Same(j) /\ envmap[j].value = getHeaderParamStr(Tail(k)) /\ \A h \in (j + 1)..(header - 1) : ~Same(h)
  BY <1>6, <1>7, <1>9 DEF HeaderFound
<1> DEFINE n == envmap[j].key
<1>11. n \in Names /\ starts_with(n, HTTP) /\ n \in Keys(given)
  BY <1>3, <1>5, AllHeaders, EnvHas
<1>12. n \in SameHeader(k)
  BY <1>2, <1>10, <1>11, CapitalTail DEF SameHeader
<1>13. \A h \in From..(header - 1) : Same(h) => h <= j
  <2> TAKE h \in From..(header - 1)
  <2>1. h > j => h \in (j + 1)..(header - 1)
    BY <1>4
  <2> QED BY <1>4, <1>10, <2>1
<1>14. ASSUME NEW o \in SameHeader(k) PROVE ~Less(n, o)
  <2>1. PICK h \in From..(header - 1) : envmap[h].key = o /\ Same(h)
    BY <1>6
  <2>2. CASE h = j
    BY <1>11, <2>1, <2>2, LessNotBoth
  <2>3. CASE h # j
    <3>1. h < j /\ h \in 1..Len(envmap) /\ j \in 1..Len(envmap)
      BY <1>4, <1>5, <1>13, <2>1, <2>3
    <3> QED BY <1>1, <2>1, <3>1 DEF VarMap!Sorted
  <2> QED BY <2>2, <2>3
<1>15. envmap[j].value = Earliest(given, n)
  <2>1. Kept(given, Len(given), n, envmap)
    <3>1. next - 1 = Len(given)
      BY <1>1, <1>2
    <3> QED BY <1>11, <3>1 DEF CgiInv, EnvInv
  <2>2. j \in 1..Len(envmap)
    BY <1>5
  <2>3. PICK i \in 1..Len(given) : /\ given[i] # None /\ given[i].key = n /\ Last(envmap, n, given[i].value)
                                   /\ \A h \in 1..(i - 1) : given[h] = None \/ given[h].key # n
    BY <2>1, <2>2 DEF Kept
  <2>4. PICK l \in 1..Len(envmap) : envmap[l].key = n /\ envmap[l].value = given[i].value
                                    /\ \A h \in (l + 1)..Len(envmap) : envmap[h].key # n
    BY <2>3 DEF Last
  <2>5. l \in From..(header - 1) /\ Same(l)
    BY <1>10, <1>11, <2>4, AllHeaders
  <2>6. l <= j /\ ~(l < j)
    <3>1. l < j => j \in (l + 1)..Len(envmap)
      BY <2>2
    <3> QED BY <1>13, <2>4, <2>5, <3>1
  <2>7. l = j
    BY <1>4, <2>6
  <2>8. Earliest(given, n) = given[i].value
    <3> DEFINE S == Variables \cup {None}
    <3>1. given \in Seq(S)
      BY <1>1
    <3> HIDE DEF S, n
    <3> QED BY <2>3, <3>1, EarliestIs
  <2> QED BY <2>4, <2>7, <2>8
<1> QED BY <1>10, <1>12, <1>14, <1>15

LEMMA HeadersFound == CgiInv => HeadersTurned
<1> SUFFICES ASSUME CgiInv, pc = "ready" PROVE HeadersTurned
  BY DEF HeadersTurned
<1>1. ASSUME NEW k \in Keys(hdrmap) PROVE HTTP \o k \in Keys(given)
  <2>1. hdrmap \in Seq(Variables) /\ envmap \in Seq(Variables)
    BY DEF CgiInv, TypedInv
  <2>2. PICK j \in 1..Len(hdrmap) : hdrmap[j].key = k
    BY <2>1, VariablesOrNone, KeysOfVariables
  <2>3. PICK h \in From..(header - 1) : k = Tail(envmap[h].key)
    BY <2>2 DEF CgiInv, HeaderInv
  <2>4. h \in 1..Len(envmap) /\ envmap[h].key \in Names
    <3>1. From \in 1..(Len(envmap) + 1) /\ header \in From..(Len(envmap) + 1) /\ Len(envmap) \in Nat
      BY <2>1, KeysTyped, KeysAreNames, VarBound DEF From, CgiInv, HeaderInv
    <3>2. h \in 1..Len(envmap)
      BY <3>1
    <3> QED BY <2>1, <3>2, KeysAreNames
  <2>5. HTTP \o k = envmap[h].key
    BY <2>3, <2>4, AllHeaders, StartsWithHTTP
  <2> QED BY <2>4, <2>5, EnvHas
<1> QED BY <1>1, FirstHeaderFound DEF HeadersTurned

-----------------------------------------------------------------------------

(* The parameters are fetched of a request that stays as it is. *)
LEMMA ParamIsNext == [ParamNext]_<<vars, paramVars>> => [Next]_vars
<1>1. ParamNext => [Next]_vars
  BY DEF ParamNext, Construct, Unconstructed, CallOperations, getURLParam, getQueryStringParam, getHeaderParam,
         getCookieParam, getBody, getBodyParam, Asks
<1>2. UNCHANGED <<vars, paramVars>> => [Next]_vars
  OBVIOUS
<1> QED BY <1>1, <1>2

LEMMA Constructed == (Spec => []CgiInv) /\ (ParamSpec => []CgiInv)
<1>1. Init => CgiInv
  BY StartInv DEF Init
<1>2. ParamInit => CgiInv
  BY StartInv, CasesAssumption DEF ParamInit
<1>3. Spec => []CgiInv
  BY <1>1, StepNext, PTL DEF Spec
<1>4. ParamSpec => []CgiInv
  BY <1>2, ParamIsNext, StepNext, PTL DEF ParamSpec
<1> QED BY <1>3, <1>4

(* Every map is in the order of its keys, which bisection depends on: while *)
(* a request is constructed and while its parameters are fetched.           *)
THEOREM MapsKeepTheOrder == (Spec => []MapsSorted) /\ (ParamSpec => []MapsSorted)
<1>1. CgiInv => MapsSorted
  BY DEF CgiInv, TypedInv
<1> QED BY <1>1, Constructed, PTL

(* Of the entries and of the variables of one name the last one is found,   *)
(* and no name that was not given is.                                       *)
THEOREM LatestIsFound == (Spec => []LatestCounts) /\ (ParamSpec => []LatestCounts)
  BY LatestFound, Constructed, PTL

(* A request's headers are those of the environment, the first of each name *)
(* of capitals: copying the pairs in order turns them round.                *)
THEOREM FirstHeaderIsFound == (Spec => []HeadersTurned) /\ (ParamSpec => []HeadersTurned)
  BY HeadersFound, Constructed, PTL

-----------------------------------------------------------------------------
(* What is written is read.                                                *)

(* The bytes that urlencode writes. *)
Written == Digits \cup Upper \cup Lower \cup {45, 46, 95, 126, Plus, Percent}

Char == 1..254
Text == Seq(Char)

LEMMA HexDigits ==
  ASSUME NEW d \in 0..15
  PROVE  hexchar(d) \in Written /\ hexchar(d) \in Hex /\ HexTable(hexchar(d)) = d
<1>1. CASE d < 10
  <2>1. hexchar(d) = 48 + d /\ 48 + d \in 48..57 /\ (48 + d) - 48 = d
    BY <1>1 DEF hexchar
  <2> QED BY <2>1 DEF Written, Hex, Digits, HexTable
<1>2. CASE ~(d < 10)
  <2>1. hexchar(d) = 87 + d /\ 87 + d \in 97..102 /\ (87 + d) - 87 = d
    BY <1>2 DEF hexchar
  <2>2. hexchar(d) \in Written
    <3>1. hexchar(d) \in Lower
      BY <2>1 DEF Lower
    <3> QED BY <3>1 DEF Written
  <2>3. hexchar(d) \in Hex
    BY <2>1 DEF Hex
  <2>4. HexTable(hexchar(d)) = hexchar(d) - 87
    BY <2>1 DEF HexTable, Digits
  <2> QED BY <2>1, <2>2, <2>3, <2>4
<1> QED BY <1>1, <1>2

Unreserved == Digits \cup Upper \cup Lower \cup {45, 46, 95, 126}

(* The three forms of an encoded byte. *)
LEMMA HexOutForms ==
  ASSUME NEW b \in Byte
  PROVE  \/ b = Space /\ HexOut(b) = <<Plus>>
         \/ b # Space /\ b \in Unreserved /\ HexOut(b) = <<b>> /\ b # Plus /\ b # Percent
         \/ b # Space /\ b \notin Unreserved /\ HexOut(b) = <<Percent, hexchar(b \div 16), hexchar(b % 16)>>
<1>1. b \in Unreserved => b # Plus /\ b # Percent
  BY DEF Unreserved, Plus, Percent, Digits, Upper, Lower
<1> QED BY <1>1 DEF HexOut, Unreserved

LEMMA Nibbles ==
  ASSUME NEW b \in Byte
  PROVE  b \div 16 \in 0..15 /\ b % 16 \in 0..15 /\ 16 * (b \div 16) + (b % 16) = b
BY DEF Byte

LEMMA HexOutWritten ==
  ASSUME NEW b \in Byte
  PROVE  HexOut(b) \in Seq(Written)
<1>1. CASE b = Space
  <2>1. Plus \in Written
    BY DEF Written
  <2>2. HexOut(b) = <<Plus>>
    BY <1>1, HexOutForms
  <2> HIDE DEF Plus
  <2>3. <<Plus>> \in Seq(Written)
    BY <2>1
  <2> QED BY <2>2, <2>3
<1>2. CASE b # Space /\ b \in Unreserved
  <2>1. b \in Written
    BY <1>2 DEF Written, Unreserved
  <2>2. HexOut(b) = <<b>>
    BY <1>2, HexOutForms
  <2>3. <<b>> \in Seq(Written)
    BY <2>1
  <2> QED BY <2>2, <2>3
<1>3. CASE b # Space /\ b \notin Unreserved
  <2> DEFINE x == hexchar(b \div 16)
             y == hexchar(b % 16)
  <2>1. x \in Written /\ y \in Written /\ Percent \in Written
    BY HexDigits, Nibbles DEF Written
  <2>2. HexOut(b) = <<Percent, x, y>>
    BY <1>3, HexOutForms
  <2> HIDE DEF x, y
  <2> QED BY <2>1, <2>2
<1> QED BY <1>1, <1>2, <1>3

LEMMA EncodedWritten ==
  ASSUME NEW s \in Seq(Byte)
  PROVE  urlencode(s) \in Seq(Written)
<1>1. PICK f \in [0..Len(s) -> Names] :
        /\ f[0] = <<>> /\ urlencode(s) = f[Len(s)]
        /\ \A j \in 1..Len(s) : f[j] = f[j - 1] \o HexOut(s[j])
  BY EncodedIs
<1>2. Len(s) \in Nat /\ \A j \in 1..Len(s) : s[j] \in Byte
  OBVIOUS
<1> DEFINE P == {j \in 0..Len(s) : f[j] \in Seq(Written)}
<1>3. 0 \in P
  BY <1>1, <1>2
<1>4. \A j \in 0..(Len(s) - 1) : j \in P => j + 1 \in P
  <2> SUFFICES ASSUME NEW j \in 0..(Len(s) - 1), f[j] \in Seq(Written) PROVE f[j + 1] \in Seq(Written) /\ j + 1 \in 0..Len(s)
    OBVIOUS
  <2>1. j + 1 \in 1..Len(s) /\ (j + 1) - 1 = j
    BY <1>2
  <2>2. f[j + 1] = f[j] \o HexOut(s[j + 1]) /\ HexOut(s[j + 1]) \in Seq(Written)
    BY <1>1, <1>2, <2>1, HexOutWritten
  <2> QED BY <1>2, <2>1, <2>2
<1> HIDE DEF P
<1>5. \A j \in 0..Len(s) : j \in P
  BY <1>2, <1>3, <1>4, UpTo
<1>6. Len(s) \in P
  BY <1>2, <1>5
<1> QED BY <1>1, <1>6 DEF P

LEMMA FailuresApart == Bad \notin Names /\ Overrun \notin Names
<1>1. ASSUME NEW q \in Names, Len(q) = 1 PROVE q[1] \in Nat
  <2>1. 1 \in 1..Len(q)
    BY <1>1
  <2> QED BY <2>1, SeqLen DEF Names
<1>2. Len(Bad) = 1 /\ Bad[1] = -1 /\ Len(Overrun) = 1 /\ Overrun[1] = -2
  BY DEF Bad, Overrun
<1> QED BY <1>1, <1>2

(* Where an encoded byte is, the decoder reads that byte. *)
LEMMA TurnReads ==
  ASSUME NEW b \in Char, NEW text \in Names, NEW last, NEW p \in 1..Len(text), NEW f,
         p + Len(HexOut(b)) <= Len(text) + 1,
         \A k \in 1..Len(HexOut(b)) : text[p + k - 1] = HexOut(b)[k]
  PROVE  DecodeTurn(text, last, p, f) = Then(b, f[p + Len(HexOut(b))])
<1>1. b \in Byte /\ Len(text) \in Nat /\ p # Len(text) + 1
  BY DEF Byte, Char, Names
<1>2. CASE b = Space
  <2>1. Len(HexOut(b)) = 1 /\ HexOut(b)[1] = Plus /\ 1 \in 1..1 /\ p + 1 - 1 = p
    BY <1>1, <1>2, HexOutForms
  <2>2. text[p] = Plus
    BY <2>1
  <2> QED BY <1>1, <1>2, <2>1, <2>2 DEF DecodeTurn
<1>3. CASE b # Space /\ b \in Unreserved
  <2>1. Len(HexOut(b)) = 1 /\ HexOut(b)[1] = b /\ b # Plus /\ b # Percent /\ 1 \in 1..1 /\ p + 1 - 1 = p
    BY <1>1, <1>3, HexOutForms
  <2>2. text[p] = b
    BY <2>1
  <2> QED BY <1>1, <2>1, <2>2 DEF DecodeTurn
<1>4. CASE b # Space /\ b \notin Unreserved
  <2> DEFINE x == hexchar(b \div 16)
             y == hexchar(b % 16)
  <2>1. Len(HexOut(b)) = 3 /\ HexOut(b)[1] = Percent /\ HexOut(b)[2] = x /\ HexOut(b)[3] = y
    BY <1>1, <1>4, HexOutForms
  <2>2. 1 \in 1..3 /\ 2 \in 1..3 /\ 3 \in 1..3 /\ p + 1 - 1 = p /\ p + 2 - 1 = p + 1 /\ p + 3 - 1 = p + 2
    OBVIOUS
  <2>3. text[p] = Percent /\ text[p + 1] = x /\ text[p + 2] = y
    BY <2>1, <2>2
  <2>4. p + 2 <= Len(text) /\ ~(p + 2 > Len(text))
    BY <1>1, <2>1
  <2>5. x \in Hex /\ HexTable(x) = b \div 16 /\ y \in Hex /\ HexTable(y) = b % 16
    BY <1>1, Nibbles, HexDigits
  <2>6. HexIn(x, y) = 16 * (b \div 16) + (b % 16)
    <3> HIDE DEF x, y
    <3> QED BY <2>5 DEF HexIn
  <2>7. HexIn(x, y) = b
    BY <1>1, <2>6, Nibbles
  <2> HIDE DEF x, y
  <2>8. Escaped(text, last, p) = b
    BY <2>3, <2>4, <2>7 DEF Escaped
  <2>9. text[p] # Plus /\ b # 0
    BY <2>3 DEF Plus, Percent, Char
  <2> QED BY <1>1, <2>1, <2>3, <2>4, <2>8, <2>9 DEF DecodeTurn
<1> QED BY <1>2, <1>3, <1>4

LEMMA Concatenated ==
  ASSUME NEW S, NEW a \in Seq(S), NEW b \in Seq(S), NEW c, c = a \o b
  PROVE  /\ c \in Seq(S) /\ Len(a) \in Nat /\ Len(b) \in Nat /\ Len(c) = Len(a) + Len(b)
         /\ \A k \in 1..Len(a) : c[k] = a[k]
         /\ \A k \in 1..Len(b) : c[Len(a) + k] = b[k]
OBVIOUS

(* c is a and then b. *)
Follows(c, a, b) ==
  /\ Len(a) \in Nat /\ Len(b) \in Nat /\ Len(c) = Len(a) + Len(b)
  /\ \A k \in 1..Len(a) : c[k] = a[k]
  /\ \A k \in 1..Len(b) : c[Len(a) + k] = b[k]

LEMMA ConcatFollows ==
  ASSUME NEW a \in Names, NEW b \in Names
  PROVE  Follows(a \o b, a, b)
BY DEF Follows, Names

LEMMA Consed ==
  ASSUME NEW S, NEW x \in S, NEW q \in Seq(S), NEW c, c = <<x>> \o q
  PROVE  /\ c \in Seq(S) /\ Len(q) \in Nat /\ Len(c) = Len(q) + 1 /\ c[1] = x
         /\ \A k \in 1..Len(q) : c[k + 1] = q[k]
<1>1. <<x>> \in Seq(S) /\ Len(<<x>>) = 1 /\ <<x>>[1] = x
  OBVIOUS
<1> DEFINE a == <<x>>
<1>2. a \in Seq(S) /\ Len(a) = 1 /\ a[1] = x /\ c = a \o q
  BY <1>1
<1> HIDE DEF a
<1>3. /\ c \in Seq(S) /\ Len(q) \in Nat /\ Len(c) = Len(a) + Len(q)
      /\ \A k \in 1..Len(a) : c[k] = a[k]
      /\ \A k \in 1..Len(q) : c[Len(a) + k] = q[k]
  BY <1>2, Concatenated
<1>4. c[1] = x
  BY <1>2, <1>3
<1>5. \A k \in 1..Len(q) : c[k + 1] = q[k]
  <2> TAKE k \in 1..Len(q)
  <2>1. Len(a) + k = k + 1
    BY <1>2, <1>3
  <2> QED BY <1>3, <2>1
<1> QED BY <1>2, <1>3, <1>4, <1>5

LEMMA TextTyped ==
  ASSUME NEW s \in Text
  PROVE  s \in Seq(Byte) /\ s \in Names /\ Len(s) \in Nat /\ \A j \in 1..Len(s) : s[j] \in Char /\ s[j] \in Byte
<1>1. Len(s) \in Nat /\ \A j \in 1..Len(s) : s[j] \in Char
  BY SeqLen DEF Text
<1>2. \A j \in 1..Len(s) : s[j] \in Byte /\ s[j] \in Nat
  <2>1. \A c \in Char : c \in Byte /\ c \in Nat
    BY DEF Byte, Char
  <2> QED BY <1>1, <2>1
<1>3. s \in Seq(Byte) /\ s \in Seq(Nat)
  BY <1>2, SeqIn DEF Text
<1> QED BY <1>1, <1>2, <1>3 DEF Names

LEMMA RestOf ==
  ASSUME NEW s \in Names, NEW j \in 1..Len(s)
  PROVE  /\ <<s[j]>> \o SubSeq(s, j + 1, Len(s)) = SubSeq(s, j, Len(s))
         /\ SubSeq(s, j + 1, Len(s)) \in Names
<1>1. Len(s) \in Nat /\ (\A h \in 1..Len(s) : s[h] \in Nat) /\ Len(s) \in j..Len(s)
  BY SeqLen DEF Names
<1>2. SubSeq(s, j, Len(s)) = <<s[j]>> \o SubSeq(s, j + 1, Len(s))
  BY <1>1, SubSeqRecursiveFirst DEF Names
<1>3. SubSeq(s, j + 1, Len(s)) \in Names
  BY <1>1, SubSeqProperties DEF Names
<1> QED BY <1>2, <1>3

LEMMA ThenRest ==
  ASSUME NEW s \in Text, NEW j \in 1..Len(s)
  PROVE  Then(s[j], SubSeq(s, j + 1, Len(s))) = SubSeq(s, j, Len(s))
<1> DEFINE r == SubSeq(s, j + 1, Len(s))
<1>1. <<s[j]>> \o r = SubSeq(s, j, Len(s)) /\ r \in Names
  BY TextTyped, RestOf
<1> HIDE DEF r
<1>2. Then(s[j], r) = <<s[j]>> \o r
  BY <1>1, FailuresApart DEF Then
<1> QED BY <1>1, <1>2 DEF r

(* urlDecode reads what urlencode writes: a text of any length of any of    *)
(* the bytes 1 to 254, at the end of a header or within it.                 *)
THEOREM DecodesEncoded ==
  ASSUME NEW s \in Text, NEW last
  PROVE  urlDecode(urlencode(s), last) = s
<1> DEFINE n == Len(s)
           T == urlencode(s)
<1>1. n \in Nat /\ s \in Seq(Byte) /\ \A j \in 1..n : s[j] \in Char /\ s[j] \in Byte
  BY TextTyped
<1>2. T \in Names
  BY <1>1, EncodedTyped
<1>3. PICK f \in [0..n -> Names] : f[0] = <<>> /\ T = f[n] /\ \A j \in 1..n : f[j] = f[j - 1] \o HexOut(s[j])
  BY <1>1, EncodedIs
<1>4. PICK g \in [1..(Len(T) + 1) -> Decoded] :
        urlDecode(T, last) = g[1] /\ \A j \in 1..(Len(T) + 1) : g[j] = DecodeTurn(T, last, j, g)
  <2> HIDE DEF T
  <2> QED BY <1>2, DecodedIs, Zenon
<1> HIDE DEF n, T
<1>5. \A j \in 0..n : f[j] \in Names /\ Len(f[j]) \in Nat
  BY <1>3 DEF Names
<1>6. ASSUME NEW j \in 1..n PROVE Follows(f[j], f[j - 1], HexOut(s[j])) /\ Len(HexOut(s[j])) \in {1, 3}
  <2>1. j - 1 \in 0..n
    BY <1>1
  <2>2. HexOut(s[j]) \in Names /\ Len(HexOut(s[j])) \in {1, 3} /\ f[j - 1] \in Names /\ f[j] = f[j - 1] \o HexOut(s[j])
    BY <1>1, <1>3, <2>1, HexOutTyped
  <2> QED BY <2>2, ConcatFollows
<1> DEFINE P == {i \in 1..n : Len(f[i]) <= Len(T) /\ \A k \in 1..Len(f[i]) : T[k] = f[i][k]}
<1>7. \A i \in 1..n : (\A h \in (i + 1)..n : h \in P) => i \in P
  <2> SUFFICES ASSUME NEW i \in 1..n, \A h \in (i + 1)..n : h \in P
               PROVE  Len(f[i]) <= Len(T) /\ \A k \in 1..Len(f[i]) : T[k] = f[i][k]
    OBVIOUS
  <2>1. CASE i = n
    BY <1>1, <1>3, <1>5, <2>1
  <2>2. CASE i # n
    <3>1. i + 1 \in 1..n /\ i + 1 \in P /\ (i + 1) - 1 = i /\ i \in 0..n /\ i + 1 \in 0..n
      BY <1>1, <2>2
    <3> DEFINE a == f[i]
               c == f[i + 1]
               h == HexOut(s[i + 1])
    <3>2. Len(c) <= Len(T) /\ \A k \in 1..Len(c) : T[k] = c[k]
      BY <3>1
    <3>3. Follows(c, a, h)
      BY <1>6, <3>1
    <3>4. Len(T) \in Nat
      BY <1>2 DEF Names
    <3> HIDE DEF a, c, h
    <3>5. Len(a) <= Len(T) /\ \A k \in 1..Len(a) : T[k] = a[k]
      BY <3>2, <3>3, <3>4 DEF Follows
    <3> QED BY <3>5 DEF a
  <2> QED BY <2>1, <2>2
<1> HIDE DEF P
<1>8. \A i \in 1..n : i \in P
  BY <1>1, <1>7, DownFrom
<1>9. ASSUME NEW i \in 1..n PROVE g[Len(f[i - 1]) + 1] = Then(s[i], g[Len(f[i]) + 1])
  <2> DEFINE a == f[i - 1]
             c == f[i]
             b == s[i]
             h == HexOut(b)
             p == Len(a) + 1
  <2>1. Follows(c, a, h) /\ Len(h) \in {1, 3}
    BY <1>6
  <2>2. Len(c) <= Len(T) /\ \A k \in 1..Len(c) : T[k] = c[k]
    BY <1>8 DEF P
  <2>3. Len(T) \in Nat
    BY <1>2 DEF Names
  <2> SUFFICES g[p] = Then(b, g[Len(c) + 1])
    OBVIOUS
  <2> HIDE DEF a, c, h
  <2>4. p \in 1..Len(T) /\ p + Len(h) <= Len(T) + 1 /\ p + Len(h) = Len(c) + 1 /\ p \in 1..(Len(T) + 1)
    <3>1. Len(a) \in Nat /\ Len(c) = Len(a) + Len(h) /\ Len(c) <= Len(T)
      BY <2>1, <2>2 DEF Follows
    <3>2. \A la \in Nat : \A lh \in {1, 3} : \A lt \in Nat : la + lh <= lt =>
            la + 1 \in 1..lt /\ (la + 1) + lh <= lt + 1 /\ (la + 1) + lh = (la + lh) + 1 /\ la + 1 \in 1..(lt + 1)
      OBVIOUS
    <3>3. Len(h) \in {1, 3} /\ Len(a) + Len(h) <= Len(T)
      BY <2>1, <3>1
    <3>4. /\ Len(a) + 1 \in 1..Len(T) /\ (Len(a) + 1) + Len(h) <= Len(T) + 1
          /\ (Len(a) + 1) + Len(h) = (Len(a) + Len(h)) + 1 /\ Len(a) + 1 \in 1..(Len(T) + 1)
      BY <2>3, <3>1, <3>2, <3>3
    <3> QED BY <3>1, <3>4
  <2>5. \A k \in 1..Len(h) : T[p + k - 1] = h[k]
    <3> TAKE k \in 1..Len(h)
    <3>1. Len(a) + k \in 1..Len(c) /\ p + k - 1 = Len(a) + k /\ c[Len(a) + k] = h[k]
      BY <2>1 DEF Follows
    <3> QED BY <2>2, <3>1
  <2>6. b \in Char
    BY <1>1
  <2> HIDE DEF b, p
  <2>7. DecodeTurn(T, last, p, g) = Then(b, g[p + Len(h)])
    BY <1>2, <2>4, <2>5, <2>6, TurnReads DEF h
  <2>8. g[p] = DecodeTurn(T, last, p, g)
    BY <1>4, <2>4
  <2> QED BY <2>4, <2>7, <2>8
<1> DEFINE Q == {i \in 1..(n + 1) : g[Len(f[i - 1]) + 1] = SubSeq(s, i, n)}
<1>10. \A i \in 1..(n + 1) : (\A h \in (i + 1)..(n + 1) : h \in Q) => i \in Q
  <2> SUFFICES ASSUME NEW i \in 1..(n + 1), \A h \in (i + 1)..(n + 1) : h \in Q
               PROVE  g[Len(f[i - 1]) + 1] = SubSeq(s, i, n)
    OBVIOUS
  <2>1. CASE i = n + 1
    <3>1. i - 1 = n /\ Len(T) + 1 \in 1..(Len(T) + 1)
      BY <1>1, <1>2, <2>1 DEF Names
    <3>2. g[Len(T) + 1] = <<>>
      BY <1>4, <3>1 DEF DecodeTurn
    <3>3. SubSeq(s, n + 1, n) = <<>>
      <4>1. n + 1 \in Int /\ n \in Int /\ n < n + 1
        BY <1>1
      <4> QED BY <4>1, SubSeqEmpty
    <3> QED BY <1>3, <2>1, <3>1, <3>2, <3>3
  <2>2. CASE i # n + 1
    <3>1. i \in 1..n /\ i + 1 \in (i + 1)..(n + 1) /\ (i + 1) - 1 = i
      BY <1>1, <2>2
    <3>2. g[Len(f[i]) + 1] = SubSeq(s, i + 1, n)
      BY <3>1
    <3> QED BY <1>9, <3>1, <3>2, ThenRest DEF n
  <2> QED BY <2>1, <2>2
<1> HIDE DEF Q
<1>11. 1 \in Q
  <2>1. n + 1 \in Nat /\ 1 \in 1..(n + 1)
    BY <1>1
  <2>2. \A i \in 1..(n + 1) : i \in Q
    BY <1>10, <2>1, DownFrom
  <2> QED BY <2>1, <2>2
<1>12. g[1] = SubSeq(s, 1, n)
  <2>1. 1 - 1 = 0 /\ Len(<<>>) + 1 = 1
    OBVIOUS
  <2> QED BY <1>3, <1>11, <2>1 DEF Q
<1>13. SubSeq(s, 1, n) = s
  BY <1>1 DEF n
<1> QED BY <1>4, <1>12, <1>13 DEF T

(* What separators begin with. *)
Marks == {Semicolon, Ampersand}

LEMMA WrittenApart ==
  /\ Written \subseteq Nat
  /\ \A c \in Written : c # Equals /\ c \notin Marks
BY DEF Written, Digits, Upper, Lower, Plus, Percent, Equals, Semicolon, Ampersand, Marks

LEMMA SliceIs ==
  ASSUME NEW S, NEW q \in Seq(S), NEW a \in 1..(Len(q) + 1), NEW b \in 0..Len(q), a <= b + 1, NEW r \in Seq(S),
         Len(r) = b - a + 1, \A k \in 1..Len(r) : r[k] = q[a + k - 1]
  PROVE  SubSeq(q, a, b) = r
<1> DEFINE s == SubSeq(q, a, b)
<1>1. Len(q) \in Nat /\ \A i \in a..b : q[i] \in S
  OBVIOUS
<1>2. s \in Seq(S) /\ Len(s) = (IF a <= b THEN b - a + 1 ELSE 0) /\ \A i \in 1..(b - a + 1) : s[i] = q[a + i - 1]
  BY <1>1, SubSeqProperties
<1>3. (IF a <= b THEN b - a + 1 ELSE 0) = b - a + 1
  BY <1>1
<1> HIDE DEF s
<1>4. Len(s) = Len(r) /\ \A i \in 1..Len(s) : s[i] = r[i]
  BY <1>2, <1>3
<1>5. s = r
  BY <1>2, <1>4, SeqEqual
<1> QED BY <1>5 DEF s

(* The text of a cookie: a name, the first '=', a value; and no marks. *)
IsCookie(piece, k, v) ==
  /\ piece \in Names /\ Len(piece) = Len(k) + 1 + Len(v) /\ Len(k) \in Nat /\ Len(v) \in Nat
  /\ SubSeq(piece, 1, (Len(k) + 1) - 1) = k /\ SubSeq(piece, (Len(k) + 1) + 1, Len(piece)) = v
  /\ piece[Len(k) + 1] = Equals /\ \A j \in 1..Len(piece) : piece[j] = Equals => Len(k) + 1 <= j
  /\ \A j \in 1..Len(piece) : piece[j] \notin Marks

LEMMA ConcatNames ==
  ASSUME NEW a \in Names, NEW b \in Names
  PROVE  a \o b \in Names
BY DEF Names

LEMMA CookieParts ==
  ASSUME NEW k \in Seq(Written), NEW v \in Seq(Written), NEW piece, piece = k \o <<Equals>> \o v
  PROVE  IsCookie(piece, k, v)
<1> DEFINE e == <<Equals>>
           a == k \o e
<1>1. k \in Names /\ v \in Names /\ e \in Names /\ Len(e) = 1 /\ e[1] = Equals
      /\ (\A j \in 1..Len(k) : k[j] # Equals /\ k[j] \notin Marks)
      /\ \A j \in 1..Len(v) : v[j] \notin Marks
  <2>1. (\A j \in 1..Len(k) : k[j] \in Written) /\ \A j \in 1..Len(v) : v[j] \in Written
    BY SeqLen
  <2>2. k \in Names /\ v \in Names
    BY <2>1, WrittenApart, SeqIn DEF Names
  <2>3. e \in Names /\ Len(e) = 1 /\ e[1] = Equals
    BY DEF Names, Equals
  <2> HIDE DEF e
  <2> QED BY <2>1, <2>2, <2>3, WrittenApart
<1> HIDE DEF e
<1>2. a \in Names /\ Follows(a, k, e) /\ piece = a \o v
  <2>1. a \in Names
    BY <1>1, ConcatNames
  <2> QED BY <1>1, <2>1, ConcatFollows DEF e
<1> HIDE DEF a
<1>3. piece \in Names /\ Follows(piece, a, v)
  <2>1. piece \in Names
    BY <1>1, <1>2, ConcatNames
  <2> QED BY <1>1, <1>2, <2>1, ConcatFollows
<1>4. Len(k) \in Nat /\ Len(v) \in Nat /\ Len(a) = Len(k) + 1 /\ Len(piece) = Len(k) + 1 + Len(v)
  BY <1>1, <1>2, <1>3 DEF Follows
<1>5. \A j \in 1..Len(k) : piece[j] = k[j]
  BY <1>2, <1>3, <1>4 DEF Follows
<1>6. piece[Len(k) + 1] = Equals
  <2>1. a[Len(k) + 1] = Equals
    BY <1>1, <1>2 DEF Follows
  <2>2. Len(k) + 1 \in 1..Len(a)
    BY <1>4
  <2> QED BY <1>3, <2>1, <2>2 DEF Follows
<1>7. \A j \in 1..Len(v) : piece[Len(k) + 1 + j] = v[j]
  BY <1>3, <1>4 DEF Follows
<1>8. SubSeq(piece, 1, (Len(k) + 1) - 1) = k
  <2>1. (Len(k) + 1) - 1 = Len(k) /\ Len(k) \in 0..Len(piece) /\ 1 \in 1..(Len(piece) + 1) /\ 1 <= Len(k) + 1
        /\ Len(k) = Len(k) - 1 + 1 /\ \A j \in 1..Len(k) : 1 + j - 1 = j
    BY <1>4
  <2>2. SubSeq(piece, 1, Len(k)) = k
    BY <1>1, <1>3, <1>5, <2>1, SliceIs DEF Names
  <2> QED BY <2>1, <2>2
<1>9. SubSeq(piece, (Len(k) + 1) + 1, Len(piece)) = v
  <2> DEFINE b == (Len(k) + 1) + 1
  <2>1. Len(piece) \in 0..Len(piece) /\ b \in 1..(Len(piece) + 1) /\ b <= Len(piece) + 1
        /\ Len(v) = Len(piece) - b + 1 /\ \A j \in 1..Len(v) : b + j - 1 = Len(k) + 1 + j
    BY <1>4
  <2>2. \A j \in 1..Len(v) : v[j] = piece[b + j - 1]
    BY <1>7, <2>1
  <2> HIDE DEF b
  <2>3. SubSeq(piece, b, Len(piece)) = v
    BY <1>1, <1>3, <2>1, <2>2, SliceIs DEF Names
  <2> QED BY <2>3 DEF b
<1>10. ASSUME NEW j \in 1..Len(piece) PROVE (piece[j] = Equals => Len(k) + 1 <= j) /\ piece[j] \notin Marks
  <2>1. CASE j <= Len(k)
    <3>1. j \in 1..Len(k)
      BY <1>4, <2>1
    <3> QED BY <1>1, <1>5, <3>1
  <2>2. CASE j = Len(k) + 1
    BY <1>4, <1>6, <2>2 DEF Equals, Semicolon, Ampersand, Marks
  <2>3. CASE j > Len(k) + 1
    <3>1. PICK h \in 1..Len(v) : j = Len(k) + 1 + h
      <4>1. j - (Len(k) + 1) \in 1..Len(v) /\ j = Len(k) + 1 + (j - (Len(k) + 1))
        BY <1>4, <2>3
      <4> QED BY <4>1
    <3> QED BY <1>1, <1>4, <1>7, <2>3, <3>1
  <2> QED BY <1>4, <2>1, <2>2, <2>3
<1> QED BY <1>3, <1>4, <1>6, <1>8, <1>9, <1>10 DEF IsCookie


LEMMA CookieRead ==
  ASSUME NEW c, c.key \in Text, c.value \in Text, NEW last
  PROVE  /\ Variable(Cookie(c), last) = [key |-> c.key, value |-> c.value]
         /\ Cookie(c) \in Names /\ Len(Cookie(c)) >= 1 /\ \A j \in 1..Len(Cookie(c)) : Cookie(c)[j] \notin Marks
<1> DEFINE k == urlencode(c.key)
           v == urlencode(c.value)
           piece == Cookie(c)
<1>1. k \in Seq(Written) /\ v \in Seq(Written)
  BY TextTyped, EncodedWritten
<1>2. piece = k \o <<Equals>> \o v
  BY DEF Cookie
<1>3. urlDecode(k, FALSE) = c.key /\ urlDecode(v, last) = c.value
  BY DecodesEncoded
<1> HIDE DEF k, v, piece
<1>4. IsCookie(piece, k, v)
  BY <1>1, <1>2, CookieParts
<1> DEFINE marks == {j \in DOMAIN piece : piece[j] = Equals}
           eq == CHOOSE j \in marks : \A h \in marks : j <= h
<1>5. DOMAIN piece = 1..Len(piece)
  BY <1>4 DEF IsCookie, Names
<1>6. eq = Len(k) + 1 /\ marks # {}
  <2>1. Len(k) + 1 \in marks /\ \A h \in marks : Len(k) + 1 <= h
    BY <1>4, <1>5 DEF IsCookie
  <2>2. eq \in marks /\ \A h \in marks : eq <= h
    BY <2>1
  <2>3. eq \in Nat
    BY <1>4, <1>5, <2>2 DEF IsCookie
  <2> HIDE DEF eq, marks
  <2> QED BY <1>4, <2>1, <2>2, <2>3 DEF IsCookie
<1>7. Variable(piece, last) = [key |-> urlDecode(SubSeq(piece, 1, eq - 1), FALSE),
                               value |-> urlDecode(SubSeq(piece, eq + 1, Len(piece)), last)]
  BY <1>6 DEF Variable
<1> HIDE DEF eq, marks
<1>8. SubSeq(piece, 1, eq - 1) = k /\ SubSeq(piece, eq + 1, Len(piece)) = v
  BY <1>4, <1>6 DEF IsCookie
<1>9. Variable(piece, last) = [key |-> c.key, value |-> c.value]
  BY <1>3, <1>7, <1>8, Zenon
<1> QED BY <1>4, <1>9 DEF piece, IsCookie


(* A separator: its first byte is not in it again. *)
Separator(sep) == sep \in Names /\ Len(sep) >= 1 /\ \A k \in 2..Len(sep) : sep[k] # sep[1]

Free(text, sep) == \A k \in 1..Len(text) : text[k] # sep[1]

SepAt(text, sep, j) == j + Len(sep) <= Len(text) + 1 /\ \A k \in 1..Len(sep) : text[j + k - 1] = sep[k]

LEMMA TurnAt ==
  ASSUME NEW sep, Separator(sep), NEW text \in Names, NEW j \in 1..(Len(text) + 1), NEW f
  PROVE  SplitTurn(text, sep, j, f) =
           IF j = Len(text) + 1 THEN << <<>> >>
           ELSE IF SepAt(text, sep, j) THEN << <<>> >> \o f[j + Len(sep)] ELSE Extended(text[j], f[j + 1])
<1> DEFINE e == j + Len(sep) - 1
           s == SubSeq(text, j, e)
<1>1. Len(text) \in Nat /\ \A h \in 1..Len(text) : text[h] \in Nat
  BY SeqLen DEF Names
<1>2. sep \in Seq(Nat) /\ Len(sep) \in Nat /\ Len(sep) >= 1
  BY SeqLen DEF Separator, Names
<1>3. ASSUME j + Len(sep) <= Len(text) + 1 PROVE s = sep <=> \A k \in 1..Len(sep) : text[j + k - 1] = sep[k]
  <2>1. e \in 0..Len(text) /\ j <= e + 1 /\ Len(sep) = e - j + 1
    BY <1>1, <1>2, <1>3
  <2>2. ASSUME s = sep, NEW k \in 1..Len(sep) PROVE text[j + k - 1] = sep[k]
    <3>1. \A i \in j..e : text[i] \in Nat
      BY <1>1, <2>1
    <3>2. e \in Int /\ j \in Int /\ k \in 1..(e - j + 1)
      BY <2>1
    <3> HIDE DEF e
    <3>3. s[k] = text[j + k - 1]
      BY <3>1, <3>2, SubSeqProperties
    <3> HIDE DEF s
    <3> QED BY <2>2, <3>3
  <2>3. ASSUME \A k \in 1..Len(sep) : text[j + k - 1] = sep[k] PROVE s = sep
    <3> HIDE DEF e
    <3>1. \A k \in 1..Len(sep) : sep[k] = text[j + k - 1]
      BY <2>3
    <3> QED BY <1>2, <2>1, <3>1, SliceIs DEF Names
  <2> QED BY <2>2, <2>3
<1> HIDE DEF s
<1>4. j + Len(sep) <= Len(text) + 1 /\ s = sep <=> SepAt(text, sep, j)
  BY <1>3 DEF SepAt
<1> QED BY <1>4 DEF SplitTurn, s

(* Without a separator behind p, one piece is left. *)
LEMMA NoSeparator ==
  ASSUME NEW sep, Separator(sep), NEW text \in Names, NEW p \in 1..(Len(text) + 1), NEW f,
         \A j \in 1..(Len(text) + 1) : f[j] = SplitTurn(text, sep, j, f),
         \A j \in p..Len(text) : text[j] # sep[1]
  PROVE  f[p] = <<SubSeq(text, p, Len(text))>>
<1> DEFINE n == Len(text)
           P == {j \in 1..(n + 1) : j < p \/ f[j] = <<SubSeq(text, j, n)>>}
<1>1. n \in Nat /\ n + 1 \in Nat /\ \A h \in 1..n : text[h] \in Nat
  BY SeqLen DEF Names
<1>2. \A j \in 1..(n + 1) : (\A h \in (j + 1)..(n + 1) : h \in P) => j \in P
  <2> SUFFICES ASSUME NEW j \in 1..(n + 1), \A h \in (j + 1)..(n + 1) : h \in P, ~(j < p)
               PROVE  f[j] = <<SubSeq(text, j, n)>>
    OBVIOUS
  <2>1. CASE j = n + 1
    <3>1. f[j] = << <<>> >>
      BY <2>1, TurnAt
    <3>2. SubSeq(text, n + 1, n) = <<>>
      <4>1. n + 1 \in Int /\ n \in Int /\ n < n + 1
        BY <1>1
      <4> QED BY <4>1, SubSeqEmpty
    <3> QED BY <2>1, <3>1, <3>2
  <2>2. CASE j # n + 1
    <3> DEFINE r == SubSeq(text, j + 1, n)
    <3>1. j \in 1..n /\ j + 1 \in (j + 1)..(n + 1) /\ j \in p..n /\ ~(j + 1 < p)
      BY <1>1, <2>2
    <3>2. f[j + 1] = <<r>>
      BY <3>1
    <3>3. f[j] = Extended(text[j], f[j + 1])
      <4>1. ~SepAt(text, sep, j)
        <5>1. text[j] # sep[1] /\ j + 1 - 1 = j
          BY <3>1
        <5>2. 1 \in 1..Len(sep)
          BY SeqLen DEF Separator, Names
        <5> QED BY <5>1, <5>2 DEF SepAt
      <4> QED BY <2>2, <4>1, TurnAt
    <3>4. <<text[j]>> \o r = SubSeq(text, j, n) /\ r \in Names
      BY <3>1, RestOf
    <3> HIDE DEF r
    <3>5. Head(<<r>>) = r /\ Tail(<<r>>) = <<>>
      OBVIOUS
    <3>6. Extended(text[j], <<r>>) = << <<text[j]>> \o r >> \o <<>>
      BY <3>5 DEF Extended
    <3> DEFINE c == <<text[j]>> \o r
    <3>7. c \in Names
      <4>1. text[j] \in Nat
        BY <1>1, <3>1
      <4>2. <<text[j]>> \in Names
        BY <4>1 DEF Names
      <4> QED BY <3>4, <4>2, ConcatNames
    <3>8. f[j] = <<c>> \o <<>> /\ c = SubSeq(text, j, n)
      BY <3>2, <3>3, <3>4, <3>6
    <3> HIDE DEF c
    <3>9. <<c>> \o <<>> = <<c>>
      OBVIOUS
    <3> QED BY <3>8, <3>9
  <2> QED BY <2>1, <2>2
<1> HIDE DEF P, n
<1>3. \A j \in 1..(n + 1) : j \in P
  BY <1>1, <1>2, DownFrom
<1>4. p \in P /\ p \in Nat
  BY <1>3 DEF n
<1> QED BY <1>4 DEF P, n


LEMMA TailAppended ==
  ASSUME NEW S, NEW q \in Seq(S), NEW l \in Seq(S), q # <<>>
  PROVE Head(q \o l) = Head(q) /\ Tail(q \o l) = Tail(q) \o l
<1> DEFINE z == q \o l
           t == Tail(q)
           u == Tail(z)
           w == t \o l
<1>1. Len(q) \in Nat /\ Len(q) >= 1 /\ Len(l) \in Nat
  OBVIOUS
<1>2. z \in Seq(S) /\ Len(z) = Len(q) + Len(l) /\ z # <<>>
      /\ \A i \in 1..Len(z) : z[i] = IF i <= Len(q) THEN q[i] ELSE l[i - Len(q)]
  BY <1>1
<1>3. Head(z) = Head(q)
  BY <1>1, <1>2
<1>4. t \in Seq(S) /\ Len(t) = Len(q) - 1 /\ \A i \in 1..Len(t) : t[i] = q[i + 1]
  BY HeadTailProperties
<1> HIDE DEF z
<1>5. u \in Seq(S) /\ Len(u) = Len(z) - 1 /\ \A i \in 1..Len(u) : u[i] = z[i + 1]
  BY <1>2, HeadTailProperties
<1> HIDE DEF t, u
<1>6. w \in Seq(S) /\ Len(w) = Len(t) + Len(l)
      /\ \A i \in 1..Len(w) : w[i] = IF i <= Len(t) THEN t[i] ELSE l[i - Len(t)]
  BY <1>4, <1>1
<1> HIDE DEF w
<1>7. \A i \in 1..Len(u) : u[i] = w[i]
  <2> TAKE i \in 1..Len(u)
  <2>1. i + 1 \in 1..Len(z) /\ i \in 1..Len(w) /\ (i + 1 <= Len(q) <=> i <= Len(t)) /\ (i + 1) - Len(q) = i - Len(t)
    BY <1>1, <1>2, <1>4, <1>5, <1>6
  <2>2. u[i] = IF i <= Len(t) THEN q[i + 1] ELSE l[i - Len(t)]
    BY <1>2, <1>5, <2>1
  <2>3. w[i] = IF i <= Len(t) THEN t[i] ELSE l[i - Len(t)]
    BY <1>6, <2>1
  <2>4. i <= Len(t) => i \in 1..Len(t)
    BY <1>4, <1>1
  <2> QED BY <1>4, <2>2, <2>3, <2>4
<1>8. u = w
  BY <1>1, <1>2, <1>4, <1>5, <1>6, <1>7, SeqEqual
<1> QED BY <1>3, <1>8 DEF z, t, u, w

LEMMA ConcatMiddle ==
  ASSUME NEW S, NEW e \in Seq(S), NEW q \in Seq(S), NEW l \in Seq(S)
  PROVE e \o (q \o l) = (e \o q) \o l
OBVIOUS

LEMMA PiecesAppended ==
  ASSUME NEW q \in Pieces, NEW b \in Names
  PROVE  /\ << <<>> >> \o (q \o <<b>>) = (<< <<>> >> \o q) \o <<b>>
         /\ \A c \in Nat : Extended(c, q \o <<b>>) = Extended(c, q) \o <<b>>
<1> DEFINE e == << <<>> >>
           l == <<b>>
           z == q \o l
           t == Tail(q)
<1>1. q \in Seq(Names) /\ q # <<>>
  BY DEF Pieces
<1>2. e \in Seq(Names)
  BY DEF Names
<1>3. l \in Seq(Names)
  OBVIOUS
<1>4. Head(q) \in Names /\ t \in Seq(Names)
  BY <1>1, HeadTailProperties
<1> HIDE DEF e, l
<1>5. e \o (q \o l) = (e \o q) \o l
  BY <1>1, <1>2, <1>3, ConcatMiddle
<1>6. Head(z) = Head(q) /\ Tail(z) = t \o l
  BY <1>1, <1>3, TailAppended
<1> HIDE DEF z, t
<1>7. ASSUME NEW c \in Nat PROVE Extended(c, z) = Extended(c, q) \o l
  <2> DEFINE x == <<c>> \o Head(q)
             y == <<x>>
  <2>1. x \in Names
    BY <1>4 DEF Names
  <2>2. Extended(c, z) = y \o (t \o l) /\ Extended(c, q) = y \o t
    BY <1>6 DEF Extended, t
  <2> HIDE DEF x
  <2>3. y \in Seq(Names)
    BY <2>1
  <2> HIDE DEF y
  <2>4. y \o (t \o l) = (y \o t) \o l
    BY <1>3, <1>4, <2>3, ConcatMiddle
  <2> QED BY <2>2, <2>4
<1> QED BY <1>5, <1>7 DEF e, l, z

(* t, the separator and a text free of it are split into what t is, and that text. *)
LEMMA SplitFollowed ==
  ASSUME NEW sep, Separator(sep), NEW t \in Names, NEW b \in Names, Free(b, sep),
         NEW a \in Names, Follows(a, t, sep), NEW T \in Names, Follows(T, a, b)
  PROVE  T # <<>> /\ Split(T, sep) = Split(t, sep) \o <<b>>
<1> DEFINE m == Len(t)
           l == Len(sep)
<1>1. sep \in Names /\ l \in Nat /\ l >= 1
  BY SeqLen DEF Separator, Names
<1>2. a \in Names /\ Follows(a, t, sep)
  OBVIOUS
<1>3. T \in Names /\ Follows(T, a, b)
  OBVIOUS
<1>4. /\ m \in Nat /\ Len(b) \in Nat /\ Len(a) = m + l /\ Len(T) = m + l + Len(b) /\ Len(T) \in Nat
      /\ \A k \in 1..m : t[k] \in Nat
  BY <1>1, <1>2, <1>3, SeqLen DEF Follows, Names
<1>5. \A k \in 1..m : T[k] = t[k]
  BY <1>1, <1>2, <1>3, <1>4 DEF Follows
<1>6. \A k \in 1..l : T[m + k] = sep[k]
  <2> TAKE k \in 1..l
  <2>1. a[m + k] = sep[k]
    BY <1>2 DEF Follows
  <2>2. m + k \in 1..Len(a)
    BY <1>1, <1>4
  <2> HIDE DEF m, l
  <2> QED BY <1>3, <2>1, <2>2 DEF Follows
<1>7. \A k \in 1..Len(b) : T[m + l + k] = b[k]
  BY <1>3, <1>4 DEF Follows
<1>8. PICK f \in [1..(m + 1) -> Pieces] :
        Split(t, sep) = f[1] /\ \A j \in 1..(m + 1) : f[j] = SplitTurn(t, sep, j, f)
  BY <1>1, SplitIs, Zenon
<1>9. PICK g \in [1..(Len(T) + 1) -> Pieces] :
        Split(T, sep) = g[1] /\ \A j \in 1..(Len(T) + 1) : g[j] = SplitTurn(T, sep, j, g)
  BY <1>1, <1>3, SplitIs, Zenon
<1>14. T # <<>>
  BY <1>1, <1>4
<1>10. g[m + 1 + l] = <<b>>
  <2> DEFINE p == m + 1 + l
  <2>1. p \in 1..(Len(T) + 1)
    BY <1>1, <1>4
  <2>2. \A j \in p..Len(T) : T[j] # sep[1]
    <3> TAKE j \in p..Len(T)
    <3>1. j - (m + l) \in 1..Len(b) /\ m + l + (j - (m + l)) = j
      BY <1>1, <1>4
    <3> DEFINE k == j - (m + l)
    <3>2. T[m + l + k] = b[k] /\ b[k] # sep[1]
      BY <1>7, <3>1 DEF Free
    <3> QED BY <3>1, <3>2
  <2>4. SubSeq(T, p, Len(T)) = b
    <3>1. Len(T) \in 0..Len(T) /\ p <= Len(T) + 1 /\ Len(b) = Len(T) - p + 1
      BY <1>1, <1>4
    <3>2. \A k \in 1..Len(b) : b[k] = T[p + k - 1]
      <4> TAKE k \in 1..Len(b)
      <4>1. p + k - 1 = m + l + k
        BY <1>1, <1>4
      <4> QED BY <1>7, <4>1
    <3> HIDE DEF p
    <3> QED BY <1>3, <2>1, <3>1, <3>2, SliceIs DEF Names
  <2> HIDE DEF p
  <2>3. g[p] = <<SubSeq(T, p, Len(T))>>
    BY <1>3, <1>9, <2>1, <2>2, NoSeparator
  <2> QED BY <2>3, <2>4 DEF p
<1>11. ASSUME NEW j \in 1..m PROVE SepAt(T, sep, j) <=> SepAt(t, sep, j)
  <2>1. CASE j + l <= m + 1
    <3>1. j + l <= Len(T) + 1 /\ \A k \in 1..l : j + k - 1 \in 1..m
      BY <1>1, <1>4, <2>1
    <3> QED BY <1>5, <2>1, <3>1 DEF SepAt
  <2>2. CASE ~(j + l <= m + 1)
    <3> DEFINE k == m + 2 - j
    <3>1. k \in 2..l /\ k \in 1..l /\ j + k - 1 = m + 1 /\ 1 \in 1..l
      BY <1>1, <1>4, <2>2
    <3>2. T[j + k - 1] # sep[k]
      <4>1. sep[k] # sep[1]
        BY <3>1 DEF Separator
      <4>2. T[m + 1] = sep[1]
        BY <1>6, <3>1
      <4> QED BY <3>1, <4>1, <4>2
    <3> HIDE DEF k
    <3> QED BY <2>2, <3>1, <3>2 DEF SepAt
  <2> QED BY <2>1, <2>2
<1> DEFINE P == {j \in 1..(m + 1) : g[j] = f[j] \o <<b>>}
<1>12. \A j \in 1..(m + 1) : (\A h \in (j + 1)..(m + 1) : h \in P) => j \in P
  <2> SUFFICES ASSUME NEW j \in 1..(m + 1), \A h \in (j + 1)..(m + 1) : h \in P PROVE g[j] = f[j] \o <<b>>
    OBVIOUS
  <2>0. j \in 1..(Len(T) + 1) /\ j # Len(T) + 1
    BY <1>1, <1>4
  <2>1. CASE j = m + 1
    <3>1. f[j] = << <<>> >>
      BY <1>8, <2>1, TurnAt
    <3>2. SepAt(T, sep, j)
      <4>1. j + l <= Len(T) + 1 /\ \A k \in 1..l : j + k - 1 = m + k
        BY <1>1, <1>4, <2>1
      <4> QED BY <1>6, <4>1 DEF SepAt
    <3>3. g[j] = << <<>> >> \o g[j + l]
      BY <1>3, <1>9, <2>0, <3>2, TurnAt
    <3> QED BY <1>10, <2>1, <3>1, <3>3
  <2>2. CASE j # m + 1 /\ SepAt(t, sep, j)
    <3>1. j \in 1..m /\ j + l <= m + 1
      BY <1>4, <2>2 DEF SepAt
    <3>2. j + l \in (j + 1)..(m + 1) /\ j + l \in 1..(m + 1)
      BY <1>1, <1>4, <3>1
    <3>3. f[j] = << <<>> >> \o f[j + l]
      BY <1>8, <2>2, TurnAt
    <3>4. g[j] = << <<>> >> \o g[j + l]
      BY <1>3, <1>9, <1>11, <2>0, <2>2, <3>1, TurnAt
    <3>5. g[j + l] = f[j + l] \o <<b>> /\ f[j + l] \in Pieces
      BY <1>8, <3>2
    <3> QED BY <3>3, <3>4, <3>5, PiecesAppended
  <2>3. CASE j # m + 1 /\ ~SepAt(t, sep, j)
    <3>1. j \in 1..m /\ j + 1 \in (j + 1)..(m + 1) /\ j + 1 \in 1..(m + 1)
      BY <1>4, <2>3
    <3>2. f[j] = Extended(t[j], f[j + 1])
      BY <1>8, <2>3, TurnAt
    <3>3. g[j] = Extended(T[j], g[j + 1])
      BY <1>3, <1>9, <1>11, <2>0, <2>3, <3>1, TurnAt
    <3>4. g[j + 1] = f[j + 1] \o <<b>> /\ f[j + 1] \in Pieces
      BY <1>8, <3>1
    <3>5. T[j] = t[j] /\ t[j] \in Nat
      BY <1>4, <1>5, <3>1
    <3> QED BY <3>2, <3>3, <3>4, <3>5, PiecesAppended
  <2> QED BY <2>1, <2>2, <2>3
<1> HIDE DEF P
<1>13. 1 \in P
  <2>1. m + 1 \in Nat /\ 1 \in 1..(m + 1)
    BY <1>4
  <2>2. \A j \in 1..(m + 1) : j \in P
    BY <1>12, <2>1, DownFrom
  <2> QED BY <2>1, <2>2
<1> QED BY <1>3, <1>8, <1>9, <1>13, <1>14 DEF P

LEMMA SplitAppended ==
  ASSUME NEW sep, Separator(sep), NEW t \in Names, NEW b \in Names, Free(b, sep),
         NEW T, T = t \o sep \o b
  PROVE  T \in Names /\ T # <<>> /\ Split(T, sep) = Split(t, sep) \o <<b>>
<1> DEFINE a == t \o sep
<1>1. sep \in Names
  BY DEF Separator
<1>2. a \in Names /\ Follows(a, t, sep) /\ T = a \o b
  BY <1>1, ConcatNames, ConcatFollows
<1> HIDE DEF a
<1>3. T \in Names /\ Follows(T, a, b)
  BY <1>2, ConcatNames, ConcatFollows
<1>4. \A U \in Names : Follows(U, a, b) => U # <<>> /\ Split(U, sep) = Split(t, sep) \o <<b>>
  BY <1>2, SplitFollowed
<1> QED BY <1>3, <1>4

LEMMA SplitAlone ==
  ASSUME NEW sep, Separator(sep), NEW b \in Names, Free(b, sep)
  PROVE  Split(b, sep) = <<b>>
<1>1. sep \in Names /\ Len(sep) >= 1
  BY DEF Separator
<1>2. PICK f \in [1..(Len(b) + 1) -> Pieces] :
        Split(b, sep) = f[1] /\ \A j \in 1..(Len(b) + 1) : f[j] = SplitTurn(b, sep, j, f)
  BY <1>1, SplitIs, Zenon
<1>3. 1 \in 1..(Len(b) + 1)
  BY SeqLen DEF Names
<1>4. f[1] = <<SubSeq(b, 1, Len(b))>>
  BY <1>2, <1>3, NoSeparator DEF Free
<1>5. SubSeq(b, 1, Len(b)) = b
  BY SubSeqFull DEF Names
<1> QED BY <1>2, <1>4, <1>5

TextPair == [key : Text, value : Text]

LEMMA TextJar ==
  ASSUME NEW s \in Seq(TextPair)
  PROVE  /\ s \in Jars /\ Len(s) \in Nat
         /\ \A j \in 1..Len(s) : s[j].key \in Text /\ s[j].value \in Text /\ s[j] = [key |-> s[j].key, value |-> s[j].value]
<1>1. Len(s) \in Nat /\ \A j \in 1..Len(s) : s[j] \in TextPair
  BY SeqLen
<1>2. \A u \in TextPair : u.key \in Text /\ u.value \in Text /\ u = [key |-> u.key, value |-> u.value]
  BY DEF TextPair
<1> DEFINE Cookies == [key : Seq(Byte), value : Seq(Byte)]
<1>3. \A u \in TextPair : u \in Cookies
  BY <1>2, TextTyped
<1> HIDE DEF Cookies
<1>4. \A j \in 1..Len(s) : s[j] \in Cookies
  BY <1>1, <1>3
<1>5. s \in Seq(Cookies)
  BY <1>4, SeqIn
<1> QED BY <1>1, <1>2, <1>5 DEF Jars, Cookies

LEMMA OneMore ==
  ASSUME NEW S, NEW m \in Nat, NEW p \in Seq(S), NEW q \in Seq(S), NEW x \in S,
         Len(p) = m, Len(q) = m + 1, \A i \in 1..m : q[i] = p[i], q[m + 1] = x
  PROVE  q = p \o <<x>>
<1> DEFINE r == p \o <<x>>
<1>1. r \in Seq(S) /\ Len(r) = m + 1 /\ (\A i \in 1..m : r[i] = p[i]) /\ r[m + 1] = x
  OBVIOUS
<1> HIDE DEF r
<1>2. \A i \in 1..(m + 1) : q[i] = r[i]
  <2> TAKE i \in 1..(m + 1)
  <2>1. i \in 1..m \/ i = m + 1
    OBVIOUS
  <2> QED BY <1>1, <2>1
<1>3. q = r
  BY <1>1, <1>2, SeqEqual
<1> QED BY <1>3 DEF r

Dividing(sep) == Separator(sep) /\ sep[1] \in Marks

(* What the client joins is split into its pairs. *)
LEMMA JoinedSplit ==
  ASSUME NEW s \in Seq(TextPair), s # <<>>, NEW sep, Dividing(sep)
  PROVE  Joined(s, sep) # <<>> /\ Split(Joined(s, sep), sep) = [i \in 1..Len(s) |-> Cookie(s[i])]
<1> DEFINE n == Len(s)
<1>1. n \in Nat /\ n >= 1
  <2>1. n \in Nat \ {0}
    BY EmptySeq
  <2> QED BY <2>1
<1>2. \A j \in 1..n : Cookie(s[j]) \in Names /\ Len(Cookie(s[j])) >= 1 /\ Free(Cookie(s[j]), sep)
  <2> TAKE j \in 1..n
  <2> DEFINE c == s[j]
  <2>1. c.key \in Text /\ c.value \in Text
    BY TextJar
  <2> HIDE DEF c
  <2>2. Cookie(c) \in Names /\ Len(Cookie(c)) >= 1 /\ Free(Cookie(c), sep)
    BY <2>1, CookieRead DEF Free, Dividing
  <2> QED BY <2>2 DEF c
<1>3. PICK f \in [1..n -> Names] :
        /\ f[1] = Cookie(s[1]) /\ Joined(s, sep) = f[n]
        /\ \A j \in 2..n : f[j] = JoinTurn(s, sep, j, f[j - 1])
  <2>1. s \in Jars /\ sep \in Names
    BY TextJar DEF Dividing, Separator
  <2> QED BY <2>1, JoinedIs, Zenon
<1> HIDE DEF n
<1> DEFINE C(m) == [i \in 1..m |-> Cookie(s[i])]
<1>4. \A m \in 1..n : C(m) \in Seq(Names) /\ Len(C(m)) = m /\ \A i \in 1..m : C(m)[i] = Cookie(s[i])
  <2> TAKE m \in 1..n
  <2>1. \A i \in 1..m : Cookie(s[i]) \in Names
    BY <1>1, <1>2
  <2>2. C(m) \in [1..m -> Names] /\ m \in Nat
    BY <2>1
  <2> QED BY <2>2
<1>5. \A m \in 1..(n - 1) : C(m + 1) = C(m) \o <<Cookie(s[m + 1])>>
  <2> TAKE m \in 1..(n - 1)
  <2> DEFINE x == Cookie(s[m + 1])
             p == C(m)
             q == C(m + 1)
  <2>1. m \in 1..n /\ m + 1 \in 1..n /\ m \in Nat
    BY <1>1
  <2>2. p \in Seq(Names) /\ Len(p) = m /\ \A i \in 1..m : p[i] = Cookie(s[i])
    BY <1>4, <2>1
  <2>3. q \in Seq(Names) /\ Len(q) = m + 1 /\ \A i \in 1..(m + 1) : q[i] = Cookie(s[i])
    BY <1>4, <2>1
  <2>4. x \in Names
    BY <1>2, <2>1
  <2> HIDE DEF p, q
  <2>5. q[m + 1] = x
    BY <2>1, <2>3
  <2>6. \A i \in 1..m : q[i] = p[i]
    BY <2>1, <2>2, <2>3
  <2> HIDE DEF x
  <2>7. q = p \o <<x>>
    BY <2>1, <2>2, <2>3, <2>4, <2>5, <2>6, OneMore
  <2> QED BY <2>7 DEF p, q, x
<1> DEFINE P == {j \in 0..(n - 1) : f[j + 1] # <<>> /\ Split(f[j + 1], sep) = C(j + 1)}
<1>6. 0 \in P
  <2> DEFINE b == Cookie(s[1])
  <2>1. 1 \in 1..n
    BY <1>1
  <2>2. b \in Names /\ Len(b) >= 1 /\ Free(b, sep)
    BY <1>2, <2>1
  <2>3. C(1) = <<b>>
    OBVIOUS
  <2> HIDE DEF b, C
  <2>4. b # <<>> /\ Split(b, sep) = <<b>>
    BY <2>2, SplitAlone DEF Dividing
  <2>5. 0 \in 0..(n - 1) /\ 0 + 1 = 1 /\ f[1] = b
    BY <1>1, <1>3 DEF b
  <2> QED BY <2>3, <2>4, <2>5
<1>7. \A j \in 0..((n - 1) - 1) : j \in P => j + 1 \in P
  <2> SUFFICES ASSUME NEW j \in 0..((n - 1) - 1), Split(f[j + 1], sep) = C(j + 1)
               PROVE  j + 1 \in 0..(n - 1) /\ f[(j + 1) + 1] # <<>> /\ Split(f[(j + 1) + 1], sep) = C((j + 1) + 1)
    OBVIOUS
  <2> HIDE DEF C
  <2> DEFINE i == j + 1
             t == f[i]
             b == Cookie(s[i + 1])
             T == f[i + 1]
  <2>1. i \in 1..(n - 1) /\ i + 1 \in 2..n /\ i \in 1..n /\ i + 1 \in 1..n /\ (i + 1) - 1 = i /\ i \in 0..(n - 1)
    BY <1>1
  <2>2. t \in Names /\ b \in Names /\ Free(b, sep)
    BY <1>2, <1>3, <2>1
  <2>3. T = t \o sep \o b
    <3>1. T = JoinTurn(s, sep, i + 1, t)
      BY <1>3, <2>1
    <3> QED BY <3>1 DEF JoinTurn
  <2>4. C(i + 1) = C(i) \o <<b>>
    BY <1>5, <2>1
  <2>5. Split(t, sep) = C(i)
    OBVIOUS
  <2> HIDE DEF i, t, b, T
  <2>6. T # <<>> /\ Split(T, sep) = Split(t, sep) \o <<b>>
    BY <2>2, <2>3, SplitAppended DEF Dividing
  <2>7. i \in 0..(n - 1) /\ T # <<>> /\ Split(T, sep) = C(i + 1)
    BY <2>1, <2>4, <2>5, <2>6
  <2> QED BY <2>7 DEF i, T
<1> HIDE DEF P
<1>8. \A j \in 0..(n - 1) : j \in P
  <2>1. n - 1 \in Nat
    BY <1>1
  <2> QED BY <1>6, <1>7, <2>1, UpTo
<1>9. n - 1 \in P /\ (n - 1) + 1 = n
  BY <1>1, <1>8
<1>10. f[n] # <<>> /\ Split(f[n], sep) = C(n)
  BY <1>9 DEF P
<1> QED BY <1>3, <1>10 DEF n

(* iterateVars reads the pairs that were joined, whatever their texts are. *)
LEMMA JoinedIterated ==
  ASSUME NEW s \in Seq(TextPair), s # <<>>, NEW sep, Dividing(sep)
  PROVE  iterateVars(Joined(s, sep), sep) = s
<1> DEFINE n == Len(s)
           q == Split(Joined(s, sep), sep)
           v == iterateVars(Joined(s, sep), sep)
<1>1. Joined(s, sep) # <<>> /\ q = [i \in 1..n |-> Cookie(s[i])]
  BY JoinedSplit
<1>2. v = [j \in DOMAIN q |-> Variable(q[j], j = Len(q))]
  BY <1>1 DEF iterateVars
<1> HIDE DEF q, v
<1>3. DOMAIN q = 1..n /\ \A j \in 1..n : q[j] = Cookie(s[j])
  BY <1>1
<1>4. ASSUME NEW j \in 1..n PROVE v[j] = s[j]
  <2> DEFINE c == s[j]
             last == j = Len(q)
  <2>1. c.key \in Text /\ c.value \in Text /\ c = [key |-> c.key, value |-> c.value]
    BY TextJar
  <2>2. v[j] = Variable(q[j], last)
    BY <1>2, <1>3
  <2>3. q[j] = Cookie(c)
    BY <1>3
  <2> HIDE DEF c, last
  <2>4. Variable(Cookie(c), last) = [key |-> c.key, value |-> c.value]
    BY <2>1, CookieRead
  <2> QED BY <2>1, <2>2, <2>3, <2>4 DEF c
<1>5. v = [j \in 1..n |-> v[j]]
  BY <1>2, <1>3
<1>6. s = [j \in 1..n |-> s[j]]
  OBVIOUS
<1>7. v = s
  BY <1>4, <1>5, <1>6
<1> QED BY <1>7 DEF v

CookieSep == <<Semicolon, Space>>

LEMMA MarksDivide == Dividing(CookieSep) /\ Dividing(<<Ampersand>>)
<1>1. Dividing(<<Ampersand>>)
  BY DEF Dividing, Separator, Marks, Ampersand, Names
<1>2. CookieSep \in Names /\ Len(CookieSep) = 2 /\ CookieSep[1] = Semicolon /\ CookieSep[2] = Space
  BY DEF CookieSep, Semicolon, Space, Names
<1>3. \A k \in 2..2 : k = 2
  OBVIOUS
<1>4. \A k \in 2..Len(CookieSep) : CookieSep[k] # CookieSep[1]
  BY <1>2, <1>3 DEF Semicolon, Space
<1>5. CookieSep[1] \in Marks /\ Len(CookieSep) >= 1
  BY <1>2 DEF Marks
<1> QED BY <1>1, <1>2, <1>4, <1>5 DEF Dividing, Separator

LEMMA JarHeader ==
  ASSUME NEW s \in Seq(TextPair), s # <<>>
  PROVE  CookieHeader(s) \in Names /\ iterateVars(CookieHeader(s), CookieSep) = s
<1>1. s \in Jars /\ CookieSep \in Names /\ CookieHeader(s) = Joined(s, CookieSep)
  BY TextJar, MarksDivide DEF Dividing, Separator, CookieHeader, CookieSep
<1> QED BY <1>1, JoinedTyped, JoinedIterated, MarksDivide

(* The client's cookies are the first entry, and the map of cookies is made *)
(* of them when no other entry has that name.                               *)
JarInv ==
  /\ jar \in Seq(TextPair)
  /\ jar # <<>> => Len(given) >= 1 /\ given[1] = [key |-> HTTP_COOKIE, value |-> CookieHeader(jar)]

JarRead ==
  /\ pc \in {"headers", "ready"} => cookiemap = MapOf(jar)
  /\ pc = "Http400BadRequest" => PathText = None \/ Has(QueryVars, Bad)

CookieInv == JarInv /\ (JarOnly(given, jar) => JarRead)

LEMMA FirstEntry ==
  ASSUME NEW S, NEW e \in S, NEW a \in Seq(S), NEW b \in Seq(S)
  PROVE  Len(<<e>> \o a \o b) >= 1 /\ (<<e>> \o a \o b)[1] = e
<1>1. <<e>> \in Seq(S) /\ Len(<<e>>) = 1 /\ <<e>>[1] = e
  OBVIOUS
<1> QED BY <1>1

LEMMA CookieStart ==
  ASSUME NEW r \in Requests, Start(r)
  PROVE  CookieInv
<1>1. jar = r.jar /\ given = CookieEntry(r.jar) \o r.envs \o r.extra /\ pc = "environment"
  BY DEF Start, EntriesOf
<1>2. r.envs \in Seq(Pair \cup {None}) /\ r.extra \in Seq(Pair \cup {None}) /\ r.jar \in Seq(Pair)
  BY RequestAssumption DEF Request
<1>3. r.jar \in Seq(TextPair)
  <2>1. Byte \ {0} = Char
    BY DEF Byte, Char
  <2>2. \A j \in 1..Len(r.jar) : r.jar[j] \in TextPair
    <3> TAKE j \in 1..Len(r.jar)
    <3>1. r.jar[j] \in Pair /\ j \in DOMAIN r.jar
      BY <1>2, SeqLen
    <3>2. r.jar[j].key \in Text /\ r.jar[j].value \in Text
      BY <2>1, <3>1, RequestAssumption DEF Text
    <3> DEFINE u == r.jar[j]
    <3> HIDE DEF u
    <3>3. u \in Pair => u = [key |-> u.key, value |-> u.value]
      BY DEF Pair
    <3> QED BY <3>1, <3>2, <3>3 DEF TextPair, u
  <2> QED BY <1>2, <2>2, SeqIn
<1>4. ASSUME jar # <<>> PROVE Len(given) >= 1 /\ given[1] = [key |-> HTTP_COOKIE, value |-> CookieHeader(jar)]
  <2> DEFINE e == [key |-> HTTP_COOKIE, value |-> CookieHeader(jar)]
             S == {e} \cup Pair \cup {None}
             a == r.envs
             b == r.extra
  <2>1. CookieEntry(r.jar) = <<e>>
    BY <1>1, <1>4 DEF CookieEntry
  <2>2. e \in S /\ Pair \cup {None} \subseteq S
    OBVIOUS
  <2> HIDE DEF e, S
  <2>3. a \in Seq(S) /\ b \in Seq(S)
    BY <1>2, <2>2, SeqMonotonic
  <2>4. given = <<e>> \o a \o b
    BY <1>1, <2>1
  <2> HIDE DEF a, b
  <2>5. Len(given) >= 1 /\ given[1] = e
    BY <2>2, <2>3, <2>4, FirstEntry
  <2> QED BY <2>5 DEF e
<1> QED BY <1>1, <1>3, <1>4 DEF CookieInv, JarInv, JarRead

(* The one entry of that name is the client's. *)
LEMMA OnlyFirst ==
  ASSUME TypedInv, JarInv, jar # <<>>, JarOnly(given, jar), NEW j \in 1..Len(given), given[j] # None, given[j].key = HTTP_COOKIE
  PROVE  j = 1
<1> DEFINE S == {i \in Entries(given) : given[i].key = HTTP_COOKIE}
<1>1. DOMAIN given = 1..Len(given) /\ Len(given) \in Nat
  BY SeqLen DEF TypedInv
<1>2. IsFiniteSet(S)
  <2>1. S \in SUBSET (1..Len(given))
    BY <1>1 DEF Entries
  <2>2. IsFiniteSet(1..Len(given))
    BY <1>1, FS_Interval
  <2> HIDE DEF S
  <2> QED BY <2>1, <2>2, FS_Subset
<1>3. Cardinality(S) = 1
  <2>1. Len(CookieEntry(jar)) = 1
    BY DEF CookieEntry
  <2> QED BY <2>1 DEF JarOnly
<1>4. 1 \in S
  <2>1. given[1] = [key |-> HTTP_COOKIE, value |-> CookieHeader(jar)] /\ 1 \in 1..Len(given)
    BY <1>1 DEF JarInv
  <2>2. CookieHeader(jar) \in Names
    BY JarHeader DEF JarInv
  <2>3. given[1] \in Variables
    BY <2>1, <2>2, KeysTyped DEF Variables
  <2>4. given[1].key = HTTP_COOKIE
    BY <2>1
  <2> QED BY <1>1, <2>1, <2>3, <2>4, NoneApart DEF Entries
<1>5. j \in S
  BY <1>1 DEF Entries
<1> HIDE DEF S
<1>6. PICK x : S = {x}
  BY <1>2, <1>3, FS_Singleton
<1> QED BY <1>4, <1>5, <1>6

LEMMA CookiesOfJar ==
  ASSUME CgiInv, JarInv, JarOnly(given, jar), pc = "cookies"
  PROVE  Vars(HTTP_COOKIE, CookieSep) = jar
<1>1. given \in Seq(Variables \cup {None}) /\ next = Len(given) + 1 /\ TypedInv
  BY DEF CgiInv, TypedInv, EnvInv
<1>2. Len(given) \in Nat /\ next - 1 = Len(given)
  BY <1>1, KeysOfVariables
<1> DEFINE x == optionalLookup(HTTP_COOKIE, envmap)
<1>3. Found(given, Len(given), HTTP_COOKIE, x)
  BY <1>2, KeysTyped DEF CgiInv, EnvInv
<1>4. CASE jar = <<>>
  <2> DEFINE S == {i \in Entries(given) : given[i].key = HTTP_COOKIE}
  <2>1. DOMAIN given = 1..Len(given)
    BY <1>1, SeqLen
  <2>2. S = {}
    <3>1. S \in SUBSET (1..Len(given)) /\ IsFiniteSet(1..Len(given))
      BY <1>2, <2>1, FS_Interval DEF Entries
    <3>2. Cardinality(S) = 0
      BY <1>4 DEF JarOnly, CookieEntry
    <3> HIDE DEF S
    <3>3. IsFiniteSet(S)
      BY <3>1, FS_Subset
    <3> QED BY <3>2, <3>3, FS_EmptySet
  <2>3. \A j \in 1..Len(given) : given[j] = None \/ given[j].key # HTTP_COOKIE
    BY <2>1, <2>2 DEF Entries
  <2>4. x = None
    BY <1>3, <2>3 DEF Found
  <2> QED BY <1>4, <2>4 DEF Vars, x
<1>5. CASE jar # <<>>
  <2>1. given[1] = [key |-> HTTP_COOKIE, value |-> CookieHeader(jar)] /\ 1 \in 1..Len(given)
    BY <1>2, <1>5 DEF JarInv
  <2>2. CookieHeader(jar) \in Names
    BY <1>5, JarHeader DEF JarInv
  <2>3. given[1].key = HTTP_COOKIE /\ given[1].value = CookieHeader(jar) /\ given[1] # None
    <3>1. given[1] \in Variables
      BY <2>1, <2>2, KeysTyped DEF Variables
    <3> QED BY <2>1, <3>1, NoneApart
  <2> HIDE DEF x
  <2>4. x = CookieHeader(jar)
    <3>1. PICK j \in 1..Len(given) : given[j] # None /\ given[j].key = HTTP_COOKIE /\ given[j].value = x
      BY <1>3, <2>1, <2>3 DEF Found
    <3>2. j = 1
      BY <1>1, <1>5, <3>1, OnlyFirst
    <3> QED BY <2>3, <3>1, <3>2
  <2>5. x # None
    BY <2>2, <2>4, NoneApart
  <2>6. Vars(HTTP_COOKIE, CookieSep) = iterateVars(x, CookieSep)
    BY <2>5 DEF Vars, x
  <2>7. iterateVars(CookieHeader(jar), CookieSep) = jar
    BY <1>5, JarHeader DEF JarInv
  <2> QED BY <2>4, <2>6, <2>7
<1> QED BY <1>4, <1>5

(* No text is one of the failures. *)
LEMMA JarVariables ==
  ASSUME NEW s \in Seq(TextPair)
  PROVE  s \in Seq(Variables) /\ ~Has(s, Bad) /\ ~Has(s, Overrun)
<1>1. DOMAIN s = 1..Len(s) /\ \A j \in 1..Len(s) : s[j].key \in Names /\ s[j].value \in Names
  BY SeqLen, TextJar, TextTyped
<1>2. \A j \in 1..Len(s) : s[j] \in Variables
  <2> TAKE j \in 1..Len(s)
  <2> DEFINE u == s[j]
  <2>1. u = [key |-> u.key, value |-> u.value] /\ u.key \in Names /\ u.value \in Names
    BY <1>1, TextJar
  <2> HIDE DEF u
  <2>2. u \in Variables
    BY <2>1 DEF Variables
  <2> QED BY <2>2 DEF u
<1>3. s \in Seq(Variables)
  BY <1>2, SeqIn
<1> QED BY <1>1, <1>3, FailuresApart DEF Has

LEMMA CookieStep == CgiInv /\ CookieInv /\ [Next]_vars => CookieInv'
<1> SUFFICES ASSUME CgiInv, CookieInv, [Next]_vars PROVE CookieInv'
  OBVIOUS
<1>1. UNCHANGED <<jar, given>>
  BY DEF Next, AddEnv, SetPath, MapQuery, MapCookies, AddHeader, vars
<1>2. JarInv' /\ (JarOnly(given, jar)' <=> JarOnly(given, jar)) /\ JarInv
  BY <1>1 DEF CookieInv, JarInv
<1> SUFFICES ASSUME JarOnly(given, jar), JarRead PROVE JarRead'
  BY <1>1, <1>2 DEF CookieInv
<1>3. CASE AddEnv
  BY <1>3 DEF AddEnv, JarRead
<1>4. CASE SetPath
  BY <1>4 DEF SetPath, JarRead, PathText
<1>5. CASE MapQuery
  BY <1>5 DEF MapQuery, JarRead, QueryVars, Vars
<1>6. CASE MapCookies
  <2> DEFINE cookies == Vars(HTTP_COOKIE, <<Semicolon, Space>>)
  <2>1. cookies = jar
    BY <1>2, <1>6, CookiesOfJar DEF MapCookies, CookieSep
  <2>2. ~Has(jar, Bad) /\ ~Has(jar, Overrun)
    BY <1>2, JarVariables DEF JarInv
  <2>3. pc' = "headers" /\ cookiemap' = MapOf(jar)
    BY <1>6, <2>1, <2>2 DEF MapCookies
  <2> QED BY <1>1, <2>3 DEF JarRead
<1>7. CASE AddHeader
  BY <1>1, <1>7 DEF AddHeader, JarRead
<1>8. CASE UNCHANGED vars
  BY <1>8 DEF vars, JarRead, PathText, QueryVars, Vars
<1> QED BY <1>3, <1>4, <1>5, <1>6, <1>7, <1>8 DEF Next

LEMMA CookiesFound == CookieInv => CookiesReadBack
<1> SUFFICES ASSUME CookieInv, JarOnly(given, jar)
             PROVE  /\ pc \in {"headers", "ready"} => \A k \in Keys(jar) : getCookieParamStr(k) = Latest(jar, k)
                    /\ pc = "Http400BadRequest" => PathText = None \/ Has(Vars(QUERY_STRING, <<Ampersand>>), Bad)
  BY DEF CookiesReadBack
<1>1. jar \in Seq(TextPair) /\ jar \in Seq(Variables)
  BY JarVariables DEF CookieInv, JarInv
<1>3. ASSUME pc \in {"headers", "ready"}, NEW k \in Keys(jar) PROVE getCookieParamStr(k) = Latest(jar, k)
  <2>1. cookiemap = MapOf(jar)
    BY <1>3 DEF CookieInv, JarRead
  <2>2. k \in Names
    BY <1>1, VariablesOrNone, KeysOfVariables
  <2>3. Found(jar, Len(jar), k, getCookieParamStr(k))
    BY <1>1, <2>1, <2>2, VarsMapped DEF getCookieParamStr
  <2> QED BY <1>1, <2>3, FoundLatest
<1> QED BY <1>3 DEF CookieInv, JarRead, QueryVars

(* What setCookie sends and a client sends back is what is read, for any    *)
(* number of cookies whose names and values are of any of the bytes 1 to    *)
(* 254, and no such request is refused for its cookies.                     *)
THEOREM CookiesAreReadBack == (Spec => []CookiesReadBack) /\ (ParamSpec => []CookiesReadBack)
<1>1. Init => CookieInv
  BY CookieStart DEF Init
<1>2. ParamInit => CookieInv
  BY CookieStart, CasesAssumption DEF ParamInit
<1>3. [ParamNext]_<<vars, paramVars>> => [Next]_vars
  BY ParamIsNext
<1>4. Spec => []CookieInv
  BY <1>1, CookieStep, Constructed, PTL DEF Spec
<1>5. ParamSpec => []CookieInv
  BY <1>2, <1>3, CookieStep, Constructed, PTL DEF ParamSpec
<1> QED BY <1>4, <1>5, CookiesFound, PTL
-----------------------------------------------------------------------------
(* The parameters.                                                         *)

LEMMA FormIterated ==
  ASSUME NEW s \in Seq(TextPair)
  PROVE  Form(s) \in Names /\ iterateVars(Form(s), <<Ampersand>>) = s
<1>1. CASE s = <<>>
  BY <1>1 DEF Form, iterateVars, Names
<1>2. CASE s # <<>>
  <2> DEFINE sep == <<Ampersand>>
  <2>1. s \in Jars /\ sep \in Names /\ Form(s) = Joined(s, sep) /\ Dividing(sep)
    BY <1>2, TextJar, MarksDivide DEF Dividing, Separator, Form
  <2> HIDE DEF sep
  <2>2. Form(s) \in Names /\ iterateVars(Form(s), sep) = s
    BY <1>2, <2>1, JoinedTyped, JoinedIterated
  <2> QED BY <2>2 DEF sep
<1> QED BY <1>1, <1>2

SentAs(s, k) == {s[h].value : h \in {i \in DOMAIN s : s[i].key = k}}

KeyedParam(p) == p.source \in {"QueryString", "Cookie", "Body"} /\ p.key # None

(* x is what s has for a keyed parameter p, or what stands in for it. *)
TextSent(s, p, x) == KeyedParam(p) =>
  IF SentAs(s, p.key) = {} THEN x \in {None, p.default} /\ (x = None => p.isOptional)
  ELSE \E t \in SentAs(s, p.key) : x \in convert(t, p.type) /\ (p.source # "Body" => t = Latest(s, p.key))

MapSent(s, x) == DOMAIN x = Keys(s) /\ \A k \in Keys(s) :
                   \E h \in DOMAIN s : s[h] = [key |-> k, value |-> x[k]]

ComplexSent(s, x) == \A k \in DOMAIN Members :
  IF k \in Keys(s) THEN SetFromString(Latest(s, k), Members[k]) = {x[k]} ELSE x[k] = None

Arrived(s, p, x) ==
  /\ TextSent(s, p, x)
  /\ p.type = "StringMap" => MapSent(s, x)
  /\ p.type = "Complex" => ComplexSent(s, x)
  /\ s # <<>> /\ p.source = "Body" /\ p.key = None /\ p.type = "string" => x = s[Len(s)].value

(* What was sent for p, if anything, does not convert. *)
Refused(s, p) == KeyedParam(p) =>
  SentAs(s, p.key) = {} \/ \E t \in SentAs(s, p.key) : convert(t, p.type) = {}

WellTyped(p) ==
  /\ p.key \in Key \cup {None}
  /\ p.type \in {"StringMap", "Complex"} => p.source = "Body" /\ p.key = None
  /\ {p.default, None} \cap (Key \cup Int \cup BOOLEAN) = {}

Sourced(ps, source) == \E j \in DOMAIN ps : ps[j].source = source

IsSeq(s) == \E S : s \in Seq(S)

(* What is never changed. *)
SentInv ==
  /\ IsSeq(params) /\ \A j \in DOMAIN params : WellTyped(params[j])
  /\ sent \in Seq(TextPair) /\ None \notin [Keys(sent) -> Key]
  /\ Sourced(params, "QueryString") => QUERY_STRING \in Keys(given) /\ Latest(given, QUERY_STRING) = Form(sent)
  /\ Sourced(params, "Cookie") => jar = sent /\ JarOnly(given, jar)

(* The body is there until it is read, and what it is read into is kept. *)
BodyInv ==
  /\ pbody # None => MapSent(sent, pbody) /\ \E j \in DOMAIN params : params[j].source = "Body" /\ params[j].key # None
  /\ outcome = "execute" /\ pbody = None /\ (\E j \in DOMAIN params : j > Len(got) /\ params[j].source = "Body") =>
       input = Form(sent)

GotInv == \A j \in DOMAIN got : Arrived(sent, params[j], got[j])

RefuseInv == outcome = "Http400BadRequest" /\ pc = "ready" =>
  LET p == params[Len(got) + 1] IN
  Len(got) < Len(params) /\ ((p.source = "Body" => getEnvStr(CONTENT_TYPE) = FormType) => Refused(sent, p))

OutcomeInv ==
  /\ outcome # "execute" => pc \in {"ready", "Http400BadRequest", "out_of_range", "undefined"}
  /\ outcome = "called" => Len(got) = Len(params)

ArriveInv ==
  /\ SentInv /\ OutcomeInv
  /\ IsSeq(got) /\ Len(got) <= Len(params)
  /\ BodyShared => BodyInv /\ GotInv /\ RefuseInv

(* Something that was sent is the latest of its name. *)
LEMMA LatestSent ==
  ASSUME NEW s \in Seq(TextPair), NEW k \in Keys(s)
  PROVE  k \in Names /\ Latest(s, k) \in Names /\ \E j \in DOMAIN s : s[j].key = k /\ s[j].value = Latest(s, k)
<1> DEFINE x == optionalLookup(k, MapOf(s))
<1>1. s \in Seq(Variables) /\ s \in Seq(Variables \cup {None})
  BY JarVariables, VariablesOrNone
<1>2. k \in Names /\ (\E j \in 1..Len(s) : s[j] # None /\ s[j].key = k)
  BY <1>1, KeysOfVariables
<1>3. Found(s, Len(s), k, x)
  BY <1>1, <1>2, VarsMapped
<1> HIDE DEF x
<1>4. x = Latest(s, k)
  BY <1>1, <1>3, FoundLatest
<1>5. \E j \in 1..Len(s) : s[j].key = k /\ s[j].value = x
  BY <1>2, <1>3 DEF Found
<1>6. DOMAIN s = 1..Len(s) /\ \A j \in 1..Len(s) : s[j].value \in Names
  BY SeqLen, TextJar, TextTyped
<1> QED BY <1>2, <1>4, <1>5, <1>6

LEMMA SentAsIs ==
  ASSUME sent \in Seq(TextPair), NEW k
  PROVE  /\ SentAs(sent, k) # {} <=> k \in Keys(sent)
         /\ k \in Keys(sent) => Latest(sent, k) \in SentAs(sent, k)
         /\ \A h \in DOMAIN sent : sent[h].key = k => sent[h].value \in SentAs(sent, k)
         /\ SentAs(sent, k) \subseteq Names
<1>1. sent \in Seq(Variables) /\ DOMAIN sent = 1..Len(sent)
  BY JarVariables, SeqLen
<1>2. \A j \in 1..Len(sent) : sent[j] # None
  BY <1>1, VariablesOrNone
<1>3. SentAs(sent, k) # {} => k \in Keys(sent)
  BY <1>1, <1>2 DEF SentAs, Keys, Entries
<1>4. \A h \in DOMAIN sent : sent[h].key = k => sent[h].value \in SentAs(sent, k)
  BY DEF SentAs
<1>5. ASSUME k \in Keys(sent) PROVE Latest(sent, k) \in SentAs(sent, k)
  BY <1>4, <1>5, LatestSent
<1>6. SentAs(sent, k) \subseteq Names
  <2>1. \A j \in DOMAIN sent : sent[j].value \in Names
    BY SeqLen, TextJar, TextTyped
  <2> QED BY <2>1 DEF SentAs
<1> QED BY <1>3, <1>4, <1>5, <1>6

(* The text that is looked up for p is what was sent for it, or none. *)
HasText(s, p, text) ==
  IF SentAs(s, p.key) = {} THEN text = None
  ELSE text # None /\ text \in SentAs(s, p.key) /\ (p.source # "Body" => text = Latest(s, p.key))

LEMMA FoundText ==
  ASSUME sent \in Seq(TextPair), NEW p, p.key \in Names, NEW text, Found(sent, Len(sent), p.key, text)
  PROVE  HasText(sent, p, text)
<1>1. IF p.key \in Keys(sent) THEN text = Latest(sent, p.key) ELSE text = None
  BY FoundLatest
<1>2. CASE p.key \in Keys(sent)
  <2>1. Latest(sent, p.key) # None
    BY <1>2, LatestSent, NoneApart
  <2> QED BY <1>1, <1>2, <2>1, SentAsIs DEF HasText
<1>3. CASE p.key \notin Keys(sent)
  BY <1>1, <1>3, SentAsIs DEF HasText
<1> QED BY <1>2, <1>3

LEMMA QuerySent ==
  ASSUME CgiInv, SentInv, pc = "ready", NEW p, p.key \in Names, Sourced(params, "QueryString")
  PROVE  HasText(sent, p, getQueryStringParamStr(p.key))
<1>1. sent \in Seq(TextPair) /\ QUERY_STRING \in Keys(given) /\ Latest(given, QUERY_STRING) = Form(sent)
  BY DEF SentInv
<1>2. LatestCounts
  BY LatestFound
<1>3. optionalLookup(QUERY_STRING, envmap) = Form(sent)
  BY <1>1, <1>2 DEF LatestCounts, getEnvStr
<1>4. Form(sent) # None /\ iterateVars(Form(sent), <<Ampersand>>) = sent
  BY <1>1, FormIterated, NoneApart
<1>5. QueryVars = sent
  BY <1>3, <1>4 DEF QueryVars, Vars
<1>6. qsmap = MapOf(sent) /\ sent \in Seq(Variables)
  BY <1>5 DEF CgiInv, QueryInv
<1>7. Found(sent, Len(sent), p.key, getQueryStringParamStr(p.key))
  BY <1>6, VarsMapped DEF getQueryStringParamStr
<1> QED BY <1>1, <1>7, FoundText

LEMMA CookieSent ==
  ASSUME CookieInv, SentInv, pc = "ready", NEW p, p.key \in Names, Sourced(params, "Cookie")
  PROVE  HasText(sent, p, getCookieParamStr(p.key))
<1>1. jar = sent /\ JarOnly(given, jar) /\ sent \in Seq(TextPair)
  BY DEF SentInv
<1>2. cookiemap = MapOf(sent) /\ sent \in Seq(Variables)
  BY <1>1, JarVariables DEF CookieInv, JarRead
<1>3. Found(sent, Len(sent), p.key, getCookieParamStr(p.key))
  BY <1>2, VarsMapped DEF getCookieParamStr
<1> QED BY <1>1, <1>3, FoundText

(* What a text converts to is one value at most. *)
LEMMA OneValue ==
  ASSUME NEW text, NEW type, SetFromString(text, type) # {}
  PROVE  SetFromString(text, type) = {CHOOSE v \in SetFromString(text, type) : TRUE}
<1> DEFINE S == SetFromString(text, type)
<1>1. \E x : S \subseteq {x}
  <2>1. CASE type = "bool"
    <3>1. TRUEText # FALSEText
      BY DEF TRUEText, FALSEText
    <3>2. \A a, b \in S : a = b
      BY <2>1, <3>1 DEF SetFromString
    <3> QED BY <3>2
  <2>2. CASE type = "string"
    BY <2>2 DEF SetFromString, convert
  <2>3. CASE type \notin {"bool", "string"}
    <3>1. S = from_chars(text, type)
      BY <2>3 DEF SetFromString, convert
    <3> HIDE DEF S
    <3> QED BY <3>1 DEF from_chars
  <2> QED BY <2>1, <2>2, <2>3
<1> HIDE DEF S
<1>2. S # {}
  BY DEF S
<1>3. (CHOOSE v \in S : TRUE) \in S
  BY <1>2
<1>4. S = {CHOOSE v \in S : TRUE}
  BY <1>1, <1>3
<1> QED BY <1>4 DEF S

LEMMA DictionarySent ==
  ASSUME sent \in Seq(TextPair), None \notin [Keys(sent) -> Key], Body = sent, NEW d \in deserializeDictionary
  PROVE  d # None /\ MapSent(sent, d) /\ \A k \in Keys(sent) : d[k] # None /\ d[k] \in SentAs(sent, k)
<1> DEFINE V == {sent[j].value : j \in DOMAIN sent}
<1>1. d \in [Keys(sent) -> V] /\ \A k \in DOMAIN d : \E j \in DOMAIN sent : sent[j] = [key |-> k, value |-> d[k]]
  BY DEF deserializeDictionary
<1>2. V \subseteq Key
  <2>1. \A j \in DOMAIN sent : sent[j].value \in Names
    BY SeqLen, TextJar, TextTyped
  <2> QED BY <2>1 DEF Names, Key
<1> HIDE DEF V
<1>3. DOMAIN d = Keys(sent) /\ d \in [Keys(sent) -> Key]
  BY <1>1, <1>2
<1>4. MapSent(sent, d)
  BY <1>1, <1>3 DEF MapSent
<1>5. \A k \in Keys(sent) : d[k] # None
  <2>1. \A k \in Keys(sent) : d[k] \in Key
    BY <1>3
  <2> QED BY <2>1, NoneApart DEF Names, Key
<1>6. ASSUME NEW k \in Keys(sent) PROVE d[k] \in SentAs(sent, k)
  <2>1. PICK h \in DOMAIN sent : sent[h] = [key |-> k, value |-> d[k]]
    BY <1>1, <1>3
  <2>2. sent[h].key = k /\ sent[h].value = d[k]
    BY <2>1
  <2> QED BY <2>2, SentAsIs
<1> QED BY <1>3, <1>4, <1>5, <1>6

LEMMA ComplexArrives ==
  ASSUME sent \in Seq(TextPair), Body = sent, NEW x \in deserializeComplex
  PROVE  ComplexSent(sent, x)
<1> DEFINE member(k) == IF k \in Keys(sent) THEN SetFromString(Latest(sent, k), Members[k]) ELSE {None}
<1>1. \A j \in DOMAIN sent : sent[j].key \in DOMAIN Members => SetFromString(sent[j].value, Members[sent[j].key]) # {}
  BY DEF deserializeComplex
<1>2. x = [k \in DOMAIN Members |-> CHOOSE v \in member(k) : TRUE]
  BY DEF deserializeComplex
<1>3. \A k \in DOMAIN Members : x[k] = CHOOSE v \in member(k) : TRUE
  BY <1>2
<1>4. ASSUME NEW k \in DOMAIN Members, k \in Keys(sent) PROVE SetFromString(Latest(sent, k), Members[k]) = {x[k]}
  <2> DEFINE S == SetFromString(Latest(sent, k), Members[k])
  <2>1. S # {}
    BY <1>1, <1>4, LatestSent
  <2>2. S = {CHOOSE v \in S : TRUE}
    BY <2>1, OneValue
  <2> HIDE DEF S
  <2>3. member(k) = S
    BY <1>4 DEF S
  <2> QED BY <1>3, <2>2, <2>3 DEF S
<1>5. ASSUME NEW k \in DOMAIN Members, k \notin Keys(sent) PROVE x[k] = None
  <2>1. member(k) = {None}
    BY <1>5
  <2>2. (CHOOSE v \in {None} : TRUE) = None
    OBVIOUS
  <2> QED BY <1>3, <2>1, <2>2
<1> QED BY <1>4, <1>5 DEF ComplexSent

LEMMA WholeBodyArrives ==
  ASSUME sent # <<>>, Body = sent, NEW x \in deserializeSimple("string")
  PROVE  x = sent[Len(sent)].value
BY DEF deserializeSimple, SetFromString, convert

(* What is fetched is one of the values. *)
LEMMA FetchedOne ==
  ASSUME NEW values, Fetched(values), IsSeq(got), Len(got) < Len(params), IsSeq(params)
  PROVE  /\ IsSeq(got') /\ Len(got') \in Nat /\ Len(params) \in Nat /\ Len(got') \in {Len(got), Len(got) + 1} /\ Len(got') <= Len(params)
         /\ Len(got') = Len(got) => values = {} /\ got' = got /\ outcome' = "Http400BadRequest"
         /\ Len(got') # Len(got) => outcome' = outcome
         /\ \A j \in DOMAIN got' : \/ j \in DOMAIN got /\ got'[j] = got[j]
                                   \/ j = Len(got) + 1 /\ got'[j] \in values
<1>1. PICK S : got \in Seq(S)
  BY DEF IsSeq
<1>2. PICK P : params \in Seq(P)
  BY DEF IsSeq
<1>3. Len(got) \in Nat /\ Len(params) \in Nat /\ DOMAIN got = 1..Len(got)
  BY <1>1, <1>2, SeqLen
<1>4. CASE values = {}
  BY <1>3, <1>4 DEF Fetched
<1>5. CASE values # {}
  <2> DEFINE x == CHOOSE v \in values : TRUE
             T == S \cup {x}
  <2>1. x \in values
    BY <1>5
  <2>2. got' = Append(got, x) /\ outcome' = outcome
    BY <1>5 DEF Fetched
  <2> HIDE DEF x
  <2>3. x \in T /\ \A j \in 1..Len(got) : got[j] \in T
    BY <1>1, SeqLen
  <2> HIDE DEF T
  <2>4. got \in Seq(T)
    BY <1>1, <2>3, SeqIn
  <2>5. got' \in Seq(T) /\ Len(got') = Len(got) + 1 /\ DOMAIN got' = 1..(Len(got) + 1)
        /\ (\A j \in 1..Len(got) : got'[j] = got[j]) /\ got'[Len(got) + 1] = x
    BY <2>2, <2>3, <2>4
  <2>6. \A j \in 1..(Len(got) + 1) : j \in 1..Len(got) \/ j = Len(got) + 1
    BY <1>3
  <2>7. \E U : got' \in Seq(U)
    BY <2>5
  <2>8. IsSeq(got')
    BY <2>7 DEF IsSeq
  <2>9. Len(got') \in Nat /\ Len(got') \in {Len(got), Len(got) + 1} /\ Len(got') <= Len(params) /\ Len(got') # Len(got)
    <3>1. \A a, b \in Nat : a < b => a + 1 \in Nat /\ a + 1 <= b /\ a + 1 # a
      OBVIOUS
    <3>2. Len(got') = Len(got) + 1
      BY <2>5
    <3>3. Len(got) + 1 \in Nat /\ Len(got) + 1 <= Len(params) /\ Len(got) + 1 # Len(got)
      BY <1>3, <3>1
    <3> QED BY <3>2, <3>3
  <2>10. ASSUME NEW j \in DOMAIN got'
         PROVE  \/ j \in DOMAIN got /\ got'[j] = got[j]
                \/ j = Len(got) + 1 /\ got'[j] \in values
    BY <1>3, <2>1, <2>5, <2>6
  <2> QED BY <1>3, <2>2, <2>8, <2>9, <2>10
<1> QED BY <1>4, <1>5

(* The values that getFrom fetches one of. *)
ValuesFrom(p, text) ==
  IF text # None THEN convert(text, p.type) ELSE IF p.isOptional THEN {None} ELSE {p.default} \ {None}

LEMMA FromFetches ==
  ASSUME NEW p, NEW text, getFrom(p, text)
  PROVE  Fetched(ValuesFrom(p, text))
BY DEF getFrom, Missing, ValuesFrom

(* A text of a keyed parameter, or what stands in for it, arrives. *)
LEMMA TextArrives ==
  ASSUME sent \in Seq(TextPair), NEW p, WellTyped(p), p.source # "Body" \/ p.key # None, NEW text,
         KeyedParam(p) => HasText(sent, p, text)
  PROVE  /\ \A x \in ValuesFrom(p, text) : Arrived(sent, p, x)
         /\ ValuesFrom(p, text) = {} => Refused(sent, p)
<1>1. p.type # "StringMap" /\ p.type # "Complex"
  BY DEF WellTyped
<1>2. ASSUME NEW x \in ValuesFrom(p, text), KeyedParam(p)
      PROVE  IF SentAs(sent, p.key) = {} THEN x \in {None, p.default} /\ (x = None => p.isOptional)
             ELSE \E t \in SentAs(sent, p.key) : x \in convert(t, p.type) /\ (p.source # "Body" => t = Latest(sent, p.key))
  <2>1. CASE SentAs(sent, p.key) = {}
    <3>1. text = None
      BY <1>2, <2>1 DEF HasText
    <3> QED BY <1>2, <2>1, <3>1 DEF ValuesFrom
  <2>2. CASE SentAs(sent, p.key) # {}
    <3>1. text # None /\ text \in SentAs(sent, p.key) /\ (p.source # "Body" => text = Latest(sent, p.key))
      BY <1>2, <2>2 DEF HasText
    <3> QED BY <1>2, <2>2, <3>1 DEF ValuesFrom
  <2> QED BY <2>1, <2>2
<1>3. \A x \in ValuesFrom(p, text) : Arrived(sent, p, x)
  BY <1>1, <1>2, Zenon DEF Arrived, TextSent
<1>4. ASSUME ValuesFrom(p, text) = {}, KeyedParam(p), SentAs(sent, p.key) # {}
      PROVE  \E t \in SentAs(sent, p.key) : convert(t, p.type) = {}
  <2>1. text # None /\ text \in SentAs(sent, p.key)
    BY <1>4 DEF HasText
  <2> QED BY <1>4, <2>1 DEF ValuesFrom
<1> QED BY <1>3, <1>4 DEF Refused

LEMMA CharIs == Byte \ {0} = Char
BY DEF Byte, Char

LEMMA ArriveStart == ParamInit => ArriveInv
<1> SUFFICES ASSUME NEW c \in Cases, Start(c.request), params = c.params, sent = c.sent, input = c.body,
                    pbody = None, got = <<>>, outcome = "execute"
             PROVE  ArriveInv
  BY DEF ParamInit
<1> DEFINE P == {c.params[j] : j \in DOMAIN c.params}
<1>1. c.params \in Seq(P) /\ (\A p \in P : WellTyped(p)) /\ Sends(c)
  BY CasesAssumption DEF WellTyped
<1>2. IsSeq(params)
  <2> HIDE DEF P
  <2>1. params \in Seq(P)
    BY <1>1
  <2> QED BY <2>1 DEF IsSeq
<1>3. \A j \in DOMAIN params : WellTyped(params[j])
  BY <1>1
<1>4. given = EntriesOf(c.request) /\ jar = c.request.jar
  BY DEF Start
<1>5. sent \in Seq(TextPair)
  <2>1. sent \in Seq([key : Seq(Byte \ {0}), value : Seq(Byte \ {0})])
    BY <1>1 DEF Sends
  <2> QED BY <2>1, CharIs, Zenon DEF TextPair, Text
<1>6. None \notin [Keys(sent) -> Key]
  BY <1>1, Zenon DEF Sends
<1>7. Sourced(params, "QueryString") => QUERY_STRING \in Keys(given) /\ Latest(given, QUERY_STRING) = Form(sent)
  BY <1>1, <1>4, Zenon DEF Sends, Sourced
<1>8. Sourced(params, "Cookie") => jar = sent /\ JarOnly(given, jar)
  BY <1>1, <1>4, Zenon DEF Sends, Sourced
<1>9. Sourced(params, "Body") => input = Form(sent)
  BY <1>1, Zenon DEF Sends, Sourced
<1>10. SentInv
  BY <1>2, <1>3, <1>5, <1>6, <1>7, <1>8 DEF SentInv
<1>11. IsSeq(got) /\ Len(got) = 0 /\ DOMAIN got = {}
  <2>1. <<>> \in Seq({})
    OBVIOUS
  <2> QED BY <2>1 DEF IsSeq
<1>12. PICK S : params \in Seq(S)
  BY <1>2 DEF IsSeq
<1>13. Len(params) \in Nat /\ Len(got) <= Len(params)
  BY <1>11, <1>12, SeqLen
<1>14. BodyInv
  BY <1>9 DEF BodyInv, Sourced
<1>15. GotInv /\ RefuseInv /\ OutcomeInv
  BY <1>11 DEF GotInv, RefuseInv, OutcomeInv
<1> QED BY <1>10, <1>11, <1>13, <1>14, <1>15 DEF ArriveInv

LEMMA EntriesStay == [Next]_vars => UNCHANGED <<jar, given>>
BY DEF Next, AddEnv, SetPath, MapQuery, MapCookies, AddHeader, vars

LEMMA SentStays == SentInv /\ [Next]_vars /\ UNCHANGED <<params, sent>> => SentInv'
BY EntriesStay DEF SentInv

(* Nothing is fetched. *)
LEMMA NothingFetched ==
  ASSUME ArriveInv, [Next]_vars, UNCHANGED <<params, sent, input, pbody, got>>, outcome' = "execute" => outcome = "execute",
         OutcomeInv', BodyShared => RefuseInv'
  PROVE  ArriveInv'
<1>1. SentInv'
  BY SentStays DEF ArriveInv
<1>2. BodyShared' <=> BodyShared
  BY DEF BodyShared
<1>3. BodyInv => BodyInv'
  BY DEF BodyInv
<1>4. GotInv => GotInv'
  BY DEF GotInv
<1> QED BY <1>1, <1>2, <1>3, <1>4 DEF ArriveInv

(* One of values is fetched for p. *)
LEMMA Fetches ==
  ASSUME ArriveInv, NEW p, Asks(p, p.source), NEW values, Fetched(values),
         BodyShared => BodyInv' /\ (\A x \in values : Arrived(sent, p, x)) /\ (values = {} => Refused(sent, p))
  PROVE  ArriveInv'
<1>1. /\ UNCHANGED <<vars, params, sent>> /\ Len(got) < Len(params) /\ p = params[Len(got) + 1]
      /\ pc = "ready" /\ outcome = "execute"
  BY DEF Asks
<1>2. SentInv'
  BY <1>1, SentStays DEF ArriveInv
<1>3. BodyShared' <=> BodyShared
  BY <1>1 DEF BodyShared
<1>4. /\ IsSeq(got') /\ Len(got') <= Len(params)
      /\ Len(got') = Len(got) => values = {} /\ got' = got /\ outcome' = "Http400BadRequest"
      /\ Len(got') # Len(got) => outcome' = outcome
      /\ \A j \in DOMAIN got' : \/ j \in DOMAIN got /\ got'[j] = got[j]
                                \/ j = Len(got) + 1 /\ got'[j] \in values
  BY <1>1, FetchedOne DEF ArriveInv, SentInv
<1>5. ASSUME BodyShared PROVE GotInv'
  <2> SUFFICES ASSUME NEW j \in DOMAIN got' PROVE Arrived(sent, params[j], got'[j])
    BY <1>1 DEF GotInv
  <2>1. CASE j \in DOMAIN got /\ got'[j] = got[j]
    BY <1>5, <2>1 DEF ArriveInv, GotInv
  <2>2. CASE j = Len(got) + 1 /\ got'[j] \in values
    BY <1>1, <1>5, <2>2
  <2> QED BY <1>4, <2>1, <2>2
<1>6. ASSUME BodyShared PROVE RefuseInv'
  <2> SUFFICES ASSUME outcome' = "Http400BadRequest"
               PROVE  LET q == params[Len(got') + 1] IN Len(got') < Len(params) /\ Refused(sent, q)
    BY <1>1 DEF RefuseInv
  <2>1. Len(got') = Len(got) /\ values = {}
    BY <1>1, <1>4
  <2> QED BY <1>1, <1>6, <2>1
<1>7. OutcomeInv'
  BY <1>1, <1>4 DEF OutcomeInv, vars
<1>8. IsSeq(got)' /\ (Len(got) <= Len(params))'
  BY <1>1, <1>4
<1> QED BY <1>2, <1>3, <1>5, <1>6, <1>7, <1>8 DEF ArriveInv

(* What was not fetched is a parameter. *)
LEMMA NextParam ==
  ASSUME ArriveInv, Len(got) < Len(params)
  PROVE  /\ Len(got) \in Nat /\ Len(params) \in Nat /\ DOMAIN params = 1..Len(params)
         /\ Len(got) + 1 \in DOMAIN params /\ WellTyped(params[Len(got) + 1])
<1>1. PICK S : got \in Seq(S)
  BY DEF ArriveInv, IsSeq
<1>2. PICK P : params \in Seq(P)
  BY DEF ArriveInv, SentInv, IsSeq
<1>3. Len(got) \in Nat /\ Len(params) \in Nat /\ DOMAIN params = 1..Len(params)
  BY <1>1, <1>2, SeqLen
<1>4. Len(got) < Len(params)
  OBVIOUS
<1>5. \A a, b \in Nat : a < b => a + 1 \in 1..b
  OBVIOUS
<1>6. Len(got) + 1 \in 1..Len(params)
  BY <1>3, <1>4, <1>5
<1> QED BY <1>3, <1>6 DEF ArriveInv, SentInv

LEMMA BodyStays ==
  ASSUME ArriveInv, BodyInv, NEW values, Fetched(values), Len(got) < Len(params), UNCHANGED <<params, sent, input, pbody>>
  PROVE  BodyInv'
<1>1. /\ Len(got') \in Nat /\ Len(got') \in {Len(got), Len(got) + 1}
      /\ Len(got') = Len(got) => outcome' = "Http400BadRequest"
      /\ Len(got') # Len(got) => outcome' = outcome
  BY FetchedOne DEF ArriveInv, SentInv
<1>2. Len(got) \in Nat /\ DOMAIN params = 1..Len(params) /\ Len(params) \in Nat
  BY NextParam
<1>3. \A j \in DOMAIN params : j > Len(got') => j > Len(got)
  <2>1. \A a \in Nat : \A b \in {a, a + 1} : \A j \in Nat : j > b => j > a
    OBVIOUS
  <2>2. \A j \in DOMAIN params : j \in Nat
    BY <1>2
  <2> QED BY <1>1, <1>2, <2>1, <2>2
<1>4. outcome' = "execute" => outcome = "execute"
  BY <1>1
<1> QED BY <1>3, <1>4 DEF BodyInv

LEMMA TextFetched ==
  ASSUME ArriveInv, NEW p, Asks(p, p.source), p.source # "Body" \/ p.key # None, NEW text, getFrom(p, text),
         BodyShared => BodyInv' /\ (KeyedParam(p) => HasText(sent, p, text))
  PROVE  ArriveInv'
<1>1. Len(got) < Len(params) /\ p = params[Len(got) + 1]
  BY DEF Asks
<1>2. WellTyped(p) /\ sent \in Seq(TextPair)
  BY <1>1, NextParam DEF ArriveInv, SentInv
<1> DEFINE values == ValuesFrom(p, text)
<1>3. Fetched(values)
  BY FromFetches
<1>4. ASSUME BodyShared PROVE (\A x \in values : Arrived(sent, p, x)) /\ (values = {} => Refused(sent, p))
  BY <1>2, <1>4, TextArrives
<1> HIDE DEF values
<1> QED BY <1>3, <1>4, Fetches

(* An action that asks for no entry of the body leaves the body as it is. *)
LEMMA BodyAside ==
  ASSUME ArriveInv, NEW p, Asks(p, p.source), UNCHANGED <<input, pbody>>, NEW values, Fetched(values), BodyShared
  PROVE  BodyInv'
<1>1. UNCHANGED <<params, sent>> /\ Len(got) < Len(params) /\ BodyInv
  BY DEF Asks, ArriveInv
<1> QED BY <1>1, BodyStays

LEMMA StepURL == ASSUME ArriveInv, NEW p, getURLParam(p) PROVE ArriveInv'
<1>1. Asks(p, p.source) /\ p.source = "URL" /\ UNCHANGED <<input, pbody>>
  BY DEF getURLParam, Asks
<1>2. CASE Head(p.key) < Len(pathElements)
  <2> DEFINE values == convert(pathElements[Head(p.key) + 1], p.type)
  <2>1. Fetched(values)
    BY <1>2 DEF getURLParam
  <2> HIDE DEF values
  <2>2. (\A x \in values : Arrived(sent, p, x)) /\ Refused(sent, p)
    <3>1. WellTyped(p)
      BY <1>1, NextParam DEF Asks
    <3>2. p.source # "Body" /\ ~KeyedParam(p)
      BY <1>1 DEF KeyedParam
    <3> QED BY <3>1, <3>2, Zenon DEF WellTyped, Arrived, TextSent, Refused
  <2>3. BodyShared => BodyInv'
    BY <1>1, <2>1, BodyAside
  <2> QED BY <1>1, <2>1, <2>2, <2>3, Fetches
<1>3. CASE ~(Head(p.key) < Len(pathElements))
  <2>1. outcome' = "runtime_error" /\ UNCHANGED got
    BY <1>3 DEF getURLParam
  <2>2. UNCHANGED <<vars, params, sent>> /\ pc = "ready"
    BY <1>1 DEF Asks
  <2>3. OutcomeInv' /\ RefuseInv'
    BY <2>1, <2>2 DEF OutcomeInv, RefuseInv, vars
  <2> QED BY <1>1, <2>1, <2>2, <2>3, NothingFetched
<1> QED BY <1>2, <1>3

LEMMA StepHeader == ASSUME ArriveInv, NEW p, getHeaderParam(p) PROVE ArriveInv'
<1> DEFINE text == getHeaderParamStr(p.key)
<1>1. Asks(p, p.source) /\ p.source = "Header" /\ UNCHANGED <<input, pbody>> /\ getFrom(p, text)
  BY DEF getHeaderParam, Asks
<1> HIDE DEF text
<1>2. BodyShared => BodyInv'
  BY <1>1, FromFetches, BodyAside
<1>3. ~KeyedParam(p)
  BY <1>1 DEF KeyedParam
<1> QED BY <1>1, <1>2, <1>3, TextFetched

(* The key of a keyed parameter is a name, and its source is looked in. *)
LEMMA KeyedName ==
  ASSUME ArriveInv, NEW p, Asks(p, p.source)
  PROVE  (KeyedParam(p) => p.key \in Names) /\ Sourced(params, p.source)
<1>1. Len(got) < Len(params) /\ p = params[Len(got) + 1]
  BY DEF Asks
<1>2. WellTyped(p) /\ Len(got) + 1 \in DOMAIN params
  BY <1>1, NextParam
<1>3. KeyedParam(p) => p.key \in Names
  BY <1>2 DEF WellTyped, KeyedParam, Names, Key
<1>4. Sourced(params, p.source)
  BY <1>1, <1>2 DEF Sourced
<1> QED BY <1>3, <1>4

LEMMA StepQuery == ASSUME CgiInv, ArriveInv, NEW p, getQueryStringParam(p) PROVE ArriveInv'
<1> DEFINE text == getQueryStringParamStr(p.key)
<1>1. Asks(p, p.source) /\ p.source = "QueryString" /\ UNCHANGED <<input, pbody>> /\ getFrom(p, text) /\ pc = "ready"
  BY DEF getQueryStringParam, Asks
<1>2. KeyedParam(p) => HasText(sent, p, text)
  BY <1>1, KeyedName, QuerySent DEF ArriveInv
<1> HIDE DEF text
<1>3. BodyShared => BodyInv'
  BY <1>1, FromFetches, BodyAside
<1>4. p.source # "Body"
  BY <1>1
<1> QED BY <1>1, <1>2, <1>3, <1>4, TextFetched

LEMMA StepCookie == ASSUME CookieInv, ArriveInv, NEW p, getCookieParam(p) PROVE ArriveInv'
<1> DEFINE text == getCookieParamStr(p.key)
<1>1. Asks(p, p.source) /\ p.source = "Cookie" /\ UNCHANGED <<input, pbody>> /\ getFrom(p, text) /\ pc = "ready"
  BY DEF getCookieParam, Asks
<1>2. KeyedParam(p) => HasText(sent, p, text)
  BY <1>1, KeyedName, CookieSent DEF ArriveInv
<1> HIDE DEF text
<1>3. BodyShared => BodyInv'
  BY <1>1, FromFetches, BodyAside
<1>4. p.source # "Body"
  BY <1>1
<1> QED BY <1>1, <1>2, <1>3, <1>4, TextFetched

(* The body is what was sent when a parameter asks for it first. *)
LEMMA BodyAsSent ==
  ASSUME ArriveInv, BodyShared, NEW p, Asks(p, "Body"), pbody = None
  PROVE  Body = sent
<1>1. Len(got) < Len(params) /\ p = params[Len(got) + 1] /\ p.source = "Body" /\ outcome = "execute"
  BY DEF Asks
<1>2. Len(got) \in Nat /\ Len(got) + 1 \in DOMAIN params
  BY <1>1, NextParam
<1>3. Len(got) + 1 > Len(got)
  BY <1>2
<1>4. input = Form(sent) /\ sent \in Seq(TextPair)
  BY <1>1, <1>2, <1>3 DEF ArriveInv, BodyInv, SentInv
<1> QED BY <1>4, FormIterated DEF Body

(* A form that was sent is not why there is no body. *)
LEMMA NoBodyFetched ==
  ASSUME ArriveInv, NEW p, Asks(p, "Body"), getDeserializer # None, NoBody(getDeserializer),
         BodyShared => ~KeyedParam(p) \/ Body = sent
  PROVE  ArriveInv'
<1>1. outcome' = getDeserializer /\ UNCHANGED <<input, pbody, got>>
  BY DEF NoBody
<1>2. getDeserializer \in {"Http400BadRequest", "Http415UnsupportedMediaType", "undefined"}
  BY DEF getDeserializer
<1>3. UNCHANGED <<vars, params, sent>> /\ Len(got) < Len(params) /\ p = params[Len(got) + 1] /\ p.source = "Body" /\ pc = "ready"
  BY DEF Asks
<1>4. OutcomeInv'
  BY <1>1, <1>2, <1>3 DEF OutcomeInv, vars
<1>5. ASSUME BodyShared PROVE RefuseInv'
  <2>1. CASE ~KeyedParam(p)
    BY <1>1, <1>3, <2>1 DEF RefuseInv, Refused
  <2>2. CASE Body = sent
    <3>1. ~Has(Body, Bad)
      BY <2>2, JarVariables DEF ArriveInv, SentInv
    <3>2. FormType # None
      <4>1. FormType \in Names
        BY DEF FormType, Names
      <4> QED BY <4>1, NoneApart
    <3>3. getEnvStr(CONTENT_TYPE) = FormType => getDeserializer \in {"undefined", None}
      BY <3>1, <3>2 DEF getDeserializer
    <3>4. getEnvStr(CONTENT_TYPE) = FormType => outcome' # "Http400BadRequest"
      BY <1>1, <3>3
    <3>5. getEnvStr(CONTENT_TYPE)' = getEnvStr(CONTENT_TYPE)
      BY <1>3 DEF vars, getEnvStr
    <3> QED BY <1>1, <1>3, <3>4, <3>5 DEF RefuseInv
  <2> QED BY <1>5, <2>1, <2>2
<1>6. outcome' # "execute"
  BY <1>1, <1>2
<1> QED BY <1>1, <1>3, <1>4, <1>5, <1>6, NothingFetched

LEMMA StepBody == ASSUME ArriveInv, NEW p, getBody(p) PROVE ArriveInv'
<1>1. /\ UNCHANGED <<vars, params, sent>> /\ Len(got) < Len(params) /\ p = params[Len(got) + 1] /\ p.source = "Body"
      /\ p.key = None /\ outcome = "execute" /\ Asks(p, p.source) /\ Asks(p, "Body") /\ ~KeyedParam(p)
  BY DEF getBody, Asks, KeyedParam
<1>2. CASE getDeserializer # None
  BY <1>1, <1>2, NoBodyFetched DEF getBody
<1>3. CASE getDeserializer = None
  <2>1. UNCHANGED pbody
    BY <1>3 DEF getBody
  <2>2. \E values : Fetched(values) /\ \A x \in values :
          /\ p.type = "StringMap" => x \in deserializeDictionary
          /\ p.type = "Complex" => x \in deserializeComplex
          /\ p.type = "string" => x \in deserializeSimple("string")
    <3>1. CASE p.type = "StringMap"
      <4>1. PICK d \in deserializeDictionary : Fetched({d})
        BY <1>3, <3>1 DEF getBody
      <4>2. \A x \in {d} : x \in deserializeDictionary
        OBVIOUS
      <4>3. p.type # "Complex" /\ p.type # "string"
        BY <3>1
      <4> QED BY <4>1, <4>2, <4>3
    <3>2. CASE p.type = "Complex"
      <4>1. Fetched(deserializeComplex)
        BY <1>3, <3>2 DEF getBody
      <4>2. p.type # "StringMap" /\ p.type # "string"
        BY <3>2
      <4> QED BY <4>1, <4>2
    <3>3. CASE p.type \notin {"StringMap", "Complex"}
      <4>1. Fetched(deserializeSimple(p.type))
        BY <1>3, <3>3 DEF getBody
      <4> QED BY <3>3, <4>1
    <3> QED BY <3>1, <3>2, <3>3
  <2>3. PICK values : Fetched(values) /\ \A x \in values :
          /\ p.type = "StringMap" => x \in deserializeDictionary
          /\ p.type = "Complex" => x \in deserializeComplex
          /\ p.type = "string" => x \in deserializeSimple("string")
    BY <2>2
  <2>4. /\ Len(got') \in Nat /\ Len(got') \in {Len(got), Len(got) + 1}
        /\ Len(got') = Len(got) => outcome' = "Http400BadRequest"
    BY <1>1, <2>3, FetchedOne DEF ArriveInv, SentInv
  <2>5. Len(got) \in Nat /\ DOMAIN params = 1..Len(params) /\ Len(params) \in Nat /\ Len(got) + 1 \in DOMAIN params
    BY <1>1, NextParam
  <2>6. ASSUME BodyShared PROVE BodyInv' /\ \A x \in values : Arrived(sent, p, x)
    <3>1. Len(params) = 1
      BY <1>1, <2>5, <2>6 DEF BodyShared
    <3>2. Len(got) = 0
      <4>1. Len(got) + 1 \in 1..1
        BY <2>5, <3>1
      <4>2. \A a \in Nat : a + 1 \in 1..1 => a = 0
        OBVIOUS
      <4> QED BY <2>5, <4>1, <4>2
    <3>3. \A j \in DOMAIN params : j = 1 /\ params[j].key = None
      <4>1. \A j \in 1..1 : j = 1
        OBVIOUS
      <4>2. params[1].key = None
        BY <1>1, <3>2
      <4> QED BY <2>5, <3>1, <4>1, <4>2
    <3>4. BodyInv
      BY <2>6 DEF ArriveInv
    <3>5. pbody = None
      BY <3>3, <3>4 DEF BodyInv
    <3>6. outcome' = "execute" => \A j \in DOMAIN params : ~(j > Len(got'))
      <4>1. outcome' = "execute" => Len(got') = 1
        BY <2>4, <3>2
      <4> QED BY <3>3, <4>1
    <3>7. BodyInv'
      BY <1>1, <2>1, <3>5, <3>6 DEF BodyInv
    <3>8. Body = sent /\ sent \in Seq(TextPair) /\ None \notin [Keys(sent) -> Key]
      BY <1>1, <2>6, <3>5, BodyAsSent DEF ArriveInv, SentInv
    <3>9. ASSUME NEW x \in values PROVE Arrived(sent, p, x)
      <4>1. TextSent(sent, p, x)
        BY <1>1 DEF TextSent
      <4>2. p.type = "StringMap" => MapSent(sent, x)
        BY <2>3, <3>8, DictionarySent
      <4>3. p.type = "Complex" => ComplexSent(sent, x)
        BY <2>3, <3>8, ComplexArrives
      <4>4. sent # <<>> /\ p.type = "string" => x = sent[Len(sent)].value
        BY <2>3, <3>8, WholeBodyArrives
      <4> QED BY <4>1, <4>2, <4>3, <4>4 DEF Arrived
    <3> QED BY <3>7, <3>9
  <2>7. Refused(sent, p)
    BY <1>1 DEF Refused
  <2> QED BY <1>1, <2>3, <2>6, <2>7, Fetches
<1> QED BY <1>2, <1>3

(* What a map has of a key was sent for it. *)
LEMMA MapHas ==
  ASSUME sent \in Seq(TextPair), NEW map, MapSent(sent, map), NEW p, p.source = "Body"
  PROVE  HasText(sent, p, BodyText(map, p.key))
<1> DEFINE k == p.key
<1>1. CASE k \notin Keys(sent)
  <2>1. SentAs(sent, k) = {}
    BY <1>1, SentAsIs
  <2>2. BodyText(map, k) = None
    BY <1>1 DEF MapSent, BodyText
  <2> QED BY <2>1, <2>2 DEF HasText
<1>2. CASE k \in Keys(sent)
  <2>1. k \in DOMAIN map /\ \E h \in DOMAIN sent : sent[h] = [key |-> k, value |-> map[k]]
    BY <1>2 DEF MapSent
  <2>2. PICK h \in DOMAIN sent : sent[h] = [key |-> k, value |-> map[k]]
    BY <2>1
  <2>3. sent[h].key = k /\ sent[h].value = map[k]
    BY <2>2
  <2>4. map[k] \in SentAs(sent, k)
    BY <2>3, SentAsIs
  <2>5. map[k] # None
    <3>1. sent[h].value \in Names
      BY SeqLen, TextJar, TextTyped
    <3> QED BY <2>3, <3>1, NoneApart
  <2>6. SentAs(sent, k) # {}
    BY <2>4
  <2> QED BY <2>1, <2>4, <2>5, <2>6 DEF BodyText, HasText
<1> QED BY <1>1, <1>2

LEMMA StepBodyParam == ASSUME ArriveInv, NEW p, getBodyParam(p) PROVE ArriveInv'
<1>1. /\ UNCHANGED <<vars, params, sent>> /\ Len(got) < Len(params) /\ p = params[Len(got) + 1] /\ p.source = "Body"
      /\ p.key # None /\ outcome = "execute" /\ Asks(p, p.source) /\ Asks(p, "Body")
  BY DEF getBodyParam, Asks
<1>2. sent \in Seq(TextPair) /\ None \notin [Keys(sent) -> Key]
  BY DEF ArriveInv, SentInv
<1>3. CASE pbody # None
  <2> DEFINE text == BodyText(pbody, p.key)
  <2>1. getFrom(p, text) /\ UNCHANGED <<input, pbody>>
    BY <1>3 DEF getBodyParam
  <2>2. BodyShared => BodyInv'
    <3> HIDE DEF text
    <3> QED BY <1>1, <2>1, FromFetches, BodyAside
  <2>3. ASSUME BodyShared PROVE HasText(sent, p, text)
    <3>1. MapSent(sent, pbody)
      BY <1>3, <2>3 DEF ArriveInv, BodyInv
    <3> QED BY <1>1, <1>2, <3>1, MapHas
  <2> HIDE DEF text
  <2> QED BY <1>1, <2>1, <2>2, <2>3, TextFetched
<1>4. CASE pbody = None /\ getDeserializer # None
  <2>1. BodyShared => Body = sent
    BY <1>1, <1>4, BodyAsSent
  <2> QED BY <1>1, <1>4, <2>1, NoBodyFetched DEF getBodyParam
<1>5. CASE pbody = None /\ getDeserializer = None
  <2>1. PICK map \in deserializeDictionary : pbody' = map /\ getFrom(p, BodyText(map, p.key))
    BY <1>5 DEF getBodyParam
  <2> DEFINE text == BodyText(map, p.key)
  <2>2. ASSUME BodyShared PROVE map # None /\ MapSent(sent, map)
    <3>1. Body = sent
      BY <1>1, <1>5, <2>2, BodyAsSent
    <3> QED BY <1>2, <2>1, <3>1, DictionarySent
  <2>3. ASSUME BodyShared PROVE BodyInv'
    <3>1. Len(got) + 1 \in DOMAIN params
      BY <1>1, NextParam
    <3>2. \E j \in DOMAIN params : params[j].source = "Body" /\ params[j].key # None
      BY <1>1, <3>1
    <3> QED BY <1>1, <2>1, <2>2, <2>3, <3>2 DEF BodyInv
  <2>4. ASSUME BodyShared PROVE HasText(sent, p, text)
    BY <1>1, <1>2, <2>2, <2>4, MapHas
  <2>5. getFrom(p, text)
    BY <2>1
  <2> HIDE DEF text
  <2> QED BY <1>1, <2>3, <2>4, <2>5, TextFetched
<1> QED BY <1>3, <1>4, <1>5

(* The constructor ends before the parameters are fetched. *)
LEMMA StepConstruct == ASSUME ArriveInv, [Next]_vars, UNCHANGED paramVars PROVE ArriveInv'
<1>1. OutcomeInv /\ IsSeq(got)
  BY DEF ArriveInv
<1>2. CASE outcome = "execute"
  <2>1. outcome' = "execute"
    BY <1>2 DEF paramVars
  <2>2. OutcomeInv' /\ RefuseInv'
    BY <2>1 DEF OutcomeInv, RefuseInv
  <2> QED BY <1>2, <2>2, NothingFetched DEF paramVars
<1>3. CASE outcome # "execute"
  <2>1. pc \in {"ready", "Http400BadRequest", "out_of_range", "undefined"}
    BY <1>1, <1>3 DEF OutcomeInv
  <2>2. UNCHANGED vars
    BY <2>1 DEF Next, AddEnv, SetPath, MapQuery, MapCookies, AddHeader
  <2>3. OutcomeInv'
    BY <1>1, <2>2 DEF OutcomeInv, paramVars, vars
  <2>4. RefuseInv => RefuseInv'
    <3>1. getEnvStr(CONTENT_TYPE)' = getEnvStr(CONTENT_TYPE)
      BY <2>2 DEF vars, getEnvStr
    <3> QED BY <2>2, <3>1 DEF RefuseInv, paramVars, vars
  <2>5. BodyShared => RefuseInv'
    BY <2>4 DEF ArriveInv
  <2> QED BY <1>3, <2>3, <2>5, NothingFetched DEF paramVars
<1> QED BY <1>2, <1>3

LEMMA StepUnconstructed == ASSUME ArriveInv, Unconstructed PROVE ArriveInv'
<1>1. pc' = pc /\ pc \in {"Http400BadRequest", "out_of_range", "undefined"} /\ outcome' = pc /\ outcome = "execute"
      /\ UNCHANGED <<vars, params, sent, input, pbody, got>>
  BY DEF Unconstructed, vars
<1>2. OutcomeInv' /\ RefuseInv'
  BY <1>1 DEF OutcomeInv, RefuseInv
<1> QED BY <1>1, <1>2, NothingFetched

LEMMA StepCall == ASSUME ArriveInv, CallOperations PROVE ArriveInv'
<1>1. pc' = pc /\ pc = "ready" /\ outcome' = "called" /\ outcome = "execute" /\ Len(got) = Len(params)
      /\ UNCHANGED <<vars, params, sent, input, pbody, got>>
  BY DEF CallOperations, vars
<1>2. OutcomeInv' /\ RefuseInv'
  BY <1>1 DEF OutcomeInv, RefuseInv
<1> QED BY <1>1, <1>2, NothingFetched

LEMMA ArriveStep == CgiInv /\ CookieInv /\ ArriveInv /\ [ParamNext]_<<vars, paramVars>> => ArriveInv'
<1> SUFFICES ASSUME CgiInv, CookieInv, ArriveInv, [ParamNext]_<<vars, paramVars>> PROVE ArriveInv'
  OBVIOUS
<1>1. CASE Construct
  BY <1>1, StepConstruct DEF Construct
<1>2. CASE Unconstructed
  BY <1>2, StepUnconstructed
<1>3. CASE CallOperations
  BY <1>3, StepCall
<1>4. ASSUME NEW p \in {params[j] : j \in DOMAIN params},
             getURLParam(p) \/ getQueryStringParam(p) \/ getHeaderParam(p) \/ getCookieParam(p) \/ getBody(p) \/ getBodyParam(p)
      PROVE  ArriveInv'
  BY <1>4, StepURL, StepQuery, StepHeader, StepCookie, StepBody, StepBodyParam
<1>5. CASE UNCHANGED <<vars, paramVars>>
  BY <1>5, StepConstruct
<1> QED BY <1>1, <1>2, <1>3, <1>4, <1>5 DEF ParamNext

LEMMA Arrives == ParamSpec => []ArriveInv
<1>1. ParamInit => CookieInv
  BY CookieStart, CasesAssumption DEF ParamInit
<1>2. [ParamNext]_<<vars, paramVars>> => [Next]_vars
  BY ParamIsNext
<1>3. ParamSpec => []CookieInv
  BY <1>1, <1>2, CookieStep, Constructed, PTL DEF ParamSpec
<1> QED BY <1>3, ArriveStart, ArriveStep, Constructed, PTL DEF ParamSpec

LEMMA ArrivesAsSent == ArriveInv => SentArrives
<1> SUFFICES ASSUME ArriveInv, BodyShared, sent # <<>>, NEW j \in DOMAIN got
             PROVE  /\ j \in Keyed /\ params[j].type = "string" /\ SentFor(j) # {} =>
                         /\ got[j] \in SentFor(j)
                         /\ params[j].source # "Body" => got[j] = Latest(sent, params[j].key)
                    /\ params[j].type = "StringMap" => MapSent(sent, got[j])
                    /\ params[j].type = "Complex" => ComplexSent(sent, got[j])
                    /\ params[j].source = "Body" /\ params[j].key = None /\ params[j].type = "string" =>
                         got[j] = sent[Len(sent)].value
  BY DEF SentArrives, MapSent, ComplexSent
<1>1. Arrived(sent, params[j], got[j])
  BY DEF ArriveInv, GotInv
<1>2. SentFor(j) = SentAs(sent, params[j].key)
  BY DEF SentFor, SentAs
<1>3. ASSUME j \in Keyed, params[j].type = "string", SentFor(j) # {}
      PROVE  got[j] \in SentFor(j) /\ (params[j].source # "Body" => got[j] = Latest(sent, params[j].key))
  <2>1. KeyedParam(params[j])
    BY <1>3 DEF Keyed, KeyedParam
  <2>2. PICK t \in SentFor(j) : got[j] \in convert(t, params[j].type)
                                /\ (params[j].source # "Body" => t = Latest(sent, params[j].key))
    BY <1>1, <1>2, <1>3, <2>1 DEF Arrived, TextSent
  <2>3. got[j] = t
    BY <1>3, <2>2 DEF convert
  <2> QED BY <2>2, <2>3
<1> QED BY <1>1, <1>3, Zenon DEF Arrived

(* What a text converts to is a text, a number or a truth value. *)
LEMMA ConvertTyped ==
  ASSUME NEW text \in Names, NEW type
  PROVE  convert(text, type) \subseteq Key \cup Int \cup BOOLEAN
<1>1. CASE type = "string"
  BY <1>1 DEF convert, Names, Key
<1>2. CASE type = "bool"
  BY <1>2 DEF convert, lexical_cast
<1>3. CASE type \notin {"string", "bool"}
  <2>1. convert(text, type) = from_chars(text, type)
    BY <1>3 DEF convert
  <2>2. \A a, b : a..b \subseteq Int
    OBVIOUS
  <2>3. from_chars(text, type) \subseteq Least[type]..Greatest[type]
    BY DEF from_chars
  <2> QED BY <2>1, <2>2, <2>3
<1> QED BY <1>1, <1>2, <1>3

LEMMA DefaultsFound == ArriveInv => DefaultsForMissing
<1> SUFFICES ASSUME ArriveInv, BodyShared, NEW j \in Keyed \cap DOMAIN got
             PROVE  /\ got[j] \in {None, params[j].default} <=> SentFor(j) = {}
                    /\ got[j] = None => params[j].isOptional
  BY DEF DefaultsForMissing
<1>1. TextSent(sent, params[j], got[j]) /\ KeyedParam(params[j])
  BY DEF ArriveInv, GotInv, Arrived, Keyed, KeyedParam
<1>2. SentFor(j) = SentAs(sent, params[j].key)
  BY DEF SentFor, SentAs
<1>3. CASE SentFor(j) = {}
  BY <1>1, <1>2, <1>3 DEF TextSent
<1>4. CASE SentFor(j) # {}
  <2>1. PICK t \in SentFor(j) : got[j] \in convert(t, params[j].type)
    BY <1>1, <1>2, <1>4 DEF TextSent
  <2>2. t \in Names
    BY <1>2, SentAsIs DEF ArriveInv, SentInv
  <2>3. got[j] \in Key \cup Int \cup BOOLEAN
    BY <2>1, <2>2, ConvertTyped
  <2>4. {params[j].default, None} \cap (Key \cup Int \cup BOOLEAN) = {}
    BY DEF ArriveInv, SentInv, Keyed, WellTyped
  <2>5. got[j] \notin {None, params[j].default}
    BY <2>3, <2>4
  <2> QED BY <1>4, <2>5
<1> QED BY <1>3, <1>4

-----------------------------------------------------------------------------
(* Numbers, as a client writes them and as they are read.                  *)

DecimalTurn(text, j, v) == 10 * v + text[j] - 48

LEMMA DecimalIs ==
  ASSUME NEW text \in Names
  PROVE  \E f \in [0..Len(text) -> Int] :
           /\ f[0] = 0 /\ Decimal(text) = f[Len(text)]
           /\ \A j \in 1..Len(text) : f[j] = DecimalTurn(text, j, f[j - 1])
<1> DEFINE n == Len(text)
           step == [j \in 1..n |-> [v \in Int |-> DecimalTurn(text, j, v)]]
<1>1. n \in Nat /\ \A j \in 1..n : text[j] \in Nat
  BY SeqLen DEF Names
<1>2. \A j \in 1..n : \A v \in Int : DecimalTurn(text, j, v) \in Int
  BY <1>1 DEF DecimalTurn
<1>3. step \in [1..n -> [Int -> Int]]
  <2> DEFINE X == Int
             turn(j, v) == DecimalTurn(text, j, v)
  <2>1. step = [j \in 1..n |-> [v \in X |-> turn(j, v)]]
    OBVIOUS
  <2>2. \A j \in 1..n : \A v \in X : turn(j, v) \in X
    BY <1>2
  <2> HIDE DEF X, turn, step, n
  <2>3. step \in [1..n -> [X -> X]]
    BY <2>1, <2>2
  <2> QED BY <2>3 DEF X
<1> HIDE DEF n, step
<1>4. PICK f : Iterates(f, n, Int, 0, step)
  <2> DEFINE X == Int
             e == 0
  <2>1. e \in X /\ step \in [1..n -> [X -> X]]
    BY <1>3
  <2> HIDE DEF X, e
  <2>2. \E f : Iterates(f, n, X, e, step)
    BY <1>1, <2>1, Iterated
  <2> QED BY <2>2 DEF X, e
<1>5. f \in [0..n -> Int] /\ f[0] = 0 /\ \A j \in 1..n : f[j] = step[j][f[j - 1]]
  BY <1>4 DEF Iterates
<1>6. \A j \in 1..n : f[j] = DecimalTurn(text, j, f[j - 1])
  <2> TAKE j \in 1..n
  <2>1. f[j - 1] \in Int
    BY <1>1, <1>5
  <2> QED BY <1>5, <2>1 DEF step
<1> DEFINE Rule(g) == [j \in 0..n |-> IF j = 0 THEN 0 ELSE DecimalTurn(text, j, g[j - 1])]
<1>7. f = Rule(f)
  <2>1. \A j \in 0..n : f[j] = IF j = 0 THEN 0 ELSE DecimalTurn(text, j, f[j - 1])
    BY <1>1, <1>5, <1>6
  <2>2. f = [j \in 0..n |-> f[j]]
    BY <1>5
  <2> QED BY <2>1, <2>2
<1> DEFINE c == CHOOSE g : g = Rule(g)
<1>8. c = Rule(c)
  BY <1>7
<1>9. Decimal(text) = c[n]
  BY DEF Decimal, DecimalTurn, n
<1> HIDE DEF c
<1>10. c[0] = 0 /\ \A j \in 1..n : c[j] = DecimalTurn(text, j, c[j - 1])
  BY <1>1, <1>8
<1> DEFINE P == {j \in 0..n : c[j] \in Int}
<1>11. 0 \in P
  BY <1>1, <1>10
<1>12. \A j \in 0..(n - 1) : j \in P => j + 1 \in P
  <2> SUFFICES ASSUME NEW j \in 0..(n - 1), c[j] \in Int PROVE c[j + 1] \in Int /\ j + 1 \in 0..n
    OBVIOUS
  <2>1. j + 1 \in 1..n /\ (j + 1) - 1 = j /\ j + 1 \in 0..n
    BY <1>1
  <2>2. c[j + 1] = DecimalTurn(text, j + 1, c[j])
    BY <1>10, <2>1
  <2> QED BY <1>2, <2>1, <2>2
<1> HIDE DEF P
<1>13. \A j \in 0..n : j \in P
  BY <1>1, <1>11, <1>12, UpTo
<1>14. c \in [0..n -> Int]
  <2>1. DOMAIN c = 0..n /\ c = [j \in DOMAIN c |-> c[j]]
    BY <1>8
  <2> QED BY <1>13, <2>1 DEF P
<1> QED BY <1>9, <1>10, <1>14 DEF n

LEMMA DecimalAppended ==
  ASSUME NEW s \in Names, NEW d \in Nat
  PROVE  Decimal(s) \in Int /\ Decimal(Append(s, d)) = 10 * Decimal(s) + d - 48
<1> DEFINE t == Append(s, d)
           n == Len(s)
<1>1. t \in Names /\ n \in Nat /\ Len(t) = n + 1 /\ t[n + 1] = d /\ \A j \in 1..n : t[j] = s[j]
  BY DEF Names
<1>2. PICK f \in [0..n -> Int] :
        f[0] = 0 /\ Decimal(s) = f[n] /\ \A j \in 1..n : f[j] = DecimalTurn(s, j, f[j - 1])
  BY DecimalIs
<1> HIDE DEF t
<1>3. PICK g \in [0..Len(t) -> Int] :
        g[0] = 0 /\ Decimal(t) = g[Len(t)] /\ \A j \in 1..Len(t) : g[j] = DecimalTurn(t, j, g[j - 1])
  BY <1>1, DecimalIs
<1> HIDE DEF n
<1>4. g[0] = 0 /\ Decimal(t) = g[n + 1] /\ \A j \in 1..(n + 1) : g[j] = DecimalTurn(t, j, g[j - 1])
  BY <1>1, <1>3
<1> DEFINE P == {j \in 0..n : f[j] = g[j]}
<1>5. 0 \in P
  BY <1>1, <1>2, <1>4
<1>6. \A j \in 0..(n - 1) : j \in P => j + 1 \in P
  <2> SUFFICES ASSUME NEW j \in 0..(n - 1), f[j] = g[j] PROVE f[j + 1] = g[j + 1] /\ j + 1 \in 0..n
    OBVIOUS
  <2>1. j + 1 \in 1..n /\ j + 1 \in 1..(n + 1) /\ (j + 1) - 1 = j /\ j + 1 \in 0..n
    BY <1>1
  <2>2. f[j + 1] = DecimalTurn(s, j + 1, f[j]) /\ g[j + 1] = DecimalTurn(t, j + 1, g[j])
    BY <1>2, <1>4, <2>1
  <2>3. t[j + 1] = s[j + 1]
    BY <1>1, <2>1
  <2> QED BY <2>1, <2>2, <2>3 DEF DecimalTurn
<1> HIDE DEF P
<1>7. \A j \in 0..n : j \in P
  BY <1>1, <1>5, <1>6, UpTo
<1>8. f[n] = g[n] /\ n \in 0..n /\ n + 1 \in 1..(n + 1) /\ (n + 1) - 1 = n
  BY <1>1, <1>7 DEF P
<1>9. Decimal(t) = DecimalTurn(t, n + 1, f[n])
  BY <1>4, <1>8
<1> QED BY <1>1, <1>2, <1>8, <1>9 DEF t, DecimalTurn

LEMMA NoDigits == Decimal(<<>>) = 0
<1> DEFINE e == <<>>
<1>1. e \in Names /\ Len(e) = 0
  BY DEF Names
<1> HIDE DEF e
<1>2. Decimal(e) = 0
  BY <1>1, DecimalIs
<1> QED BY <1>2 DEF e

(* The digits of a number are those of its tenth, and one more. *)
DigitsOf(m, shorter) == IF m < 10 THEN <<48 + m>> ELSE Append(shorter, 48 + (m % 10))

LEMMA Tenth == \A m \in Nat : /\ m % 10 \in 0..9 /\ 10 * (m \div 10) + (m % 10) = m
                              /\ m \div 10 \in Nat /\ (m >= 10 => m \div 10 < m /\ m \div 10 <= m - 1)
OBVIOUS

LEMMA DecimalsAre ==
  ASSUME NEW n \in Nat
  PROVE  \E f : DOMAIN f = 0..n /\ Decimals(n) = f[n] /\ \A m \in 0..n : f[m] = DigitsOf(m, f[m \div 10])
<1> DEFINE P == {k \in 0..n : \E f : DOMAIN f = 0..k /\ \A m \in 0..k : f[m] = DigitsOf(m, f[m \div 10])}
<1>1. 0 \in P
  <2> DEFINE f == [m \in 0..0 |-> <<48>>]
  <2>1. DOMAIN f = 0..0 /\ \A m \in 0..0 : f[m] = DigitsOf(m, f[m \div 10])
    BY DEF DigitsOf
  <2> HIDE DEF f
  <2> QED BY <2>1
<1>2. ASSUME NEW k \in 0..(n - 1), k \in P PROVE k + 1 \in P
  <2>1. PICK f : DOMAIN f = 0..k /\ \A m \in 0..k : f[m] = DigitsOf(m, f[m \div 10])
    BY <1>2
  <2> DEFINE g == [m \in 0..(k + 1) |-> IF m <= k THEN f[m] ELSE DigitsOf(k + 1, f[(k + 1) \div 10])]
  <2>2. \A m \in 0..k : g[m] = f[m]
    OBVIOUS
  <2>3. g[k + 1] = DigitsOf(k + 1, f[(k + 1) \div 10]) /\ DOMAIN g = 0..(k + 1)
    OBVIOUS
  <2> HIDE DEF g
  <2>4. ASSUME NEW m \in 0..(k + 1) PROVE g[m] = DigitsOf(m, f[m \div 10]) /\ (m >= 10 => f[m \div 10] = g[m \div 10])
    <3>1. g[m] = DigitsOf(m, f[m \div 10])
      <4>1. CASE m \in 0..k
        BY <2>1, <2>2, <4>1
      <4>2. CASE m = k + 1
        BY <2>3, <4>2
      <4> QED BY <4>1, <4>2
    <3>2. m >= 10 => m \div 10 \in 0..k
      <4>1. m \in Nat /\ k \in Nat /\ m - 1 <= k
        OBVIOUS
      <4>2. m \div 10 \in Nat /\ (m >= 10 => m \div 10 <= m - 1)
        BY <4>1, Tenth
      <4>3. \A q, a, b \in Int : q <= a - 1 /\ a - 1 <= b => q <= b
        OBVIOUS
      <4>4. m >= 10 => m \div 10 <= k
        BY <4>1, <4>2, <4>3
      <4> QED BY <4>1, <4>2, <4>4
    <3> QED BY <2>2, <3>1, <3>2
  <2>5. ASSUME NEW m \in 0..(k + 1) PROVE g[m] = DigitsOf(m, g[m \div 10])
    <3>1. CASE m < 10
      BY <2>4, <3>1 DEF DigitsOf
    <3>2. CASE m >= 10
      BY <2>4, <3>2
    <3> QED BY <3>1, <3>2
  <2>6. k + 1 \in 0..n
    OBVIOUS
  <2> QED BY <2>3, <2>5, <2>6
<1> HIDE DEF P
<1>3. n \in P
  <2>1. \A k \in 0..(n - 1) : k \in P => k + 1 \in P
    BY <1>2
  <2>2. \A k \in 0..n : k \in P
    BY <1>1, <2>1, UpTo
  <2> QED BY <2>2
<1>4. PICK f : DOMAIN f = 0..n /\ \A m \in 0..n : f[m] = DigitsOf(m, f[m \div 10])
  BY <1>3 DEF P
<1> DEFINE Rule(g) == [m \in 0..n |-> DigitsOf(m, g[m \div 10])]
           h == [m \in 0..n |-> f[m]]
<1>5. h = Rule(h)
  <2>1. ASSUME NEW m \in 0..n PROVE f[m] = DigitsOf(m, h[m \div 10])
    <3>1. m >= 10 => m \div 10 \in 0..n
      <4>1. m \in Nat /\ m <= n
        OBVIOUS
      <4>2. m \div 10 \in Nat /\ (m >= 10 => m \div 10 < m)
        BY <4>1, Tenth
      <4>3. \A q, a, b \in Int : q < a /\ a <= b => q <= b
        OBVIOUS
      <4>4. m >= 10 => m \div 10 <= n
        BY <4>1, <4>2, <4>3
      <4> QED BY <4>2, <4>4
    <3>2. m >= 10 => h[m \div 10] = f[m \div 10]
      BY <3>1
    <3> QED BY <1>4, <3>2 DEF DigitsOf
  <2> QED BY <2>1
<1> DEFINE c == CHOOSE g : g = Rule(g)
<1>6. c = Rule(c)
  <2> HIDE DEF h
  <2> QED BY <1>5
<1>7. Decimals(n) = c[n]
  BY DEF Decimals, DigitsOf
<1> HIDE DEF c, h
<1>8. DOMAIN c = 0..n /\ \A m \in 0..n : c[m] = DigitsOf(m, c[m \div 10])
  BY <1>6
<1> QED BY <1>7, <1>8

(* What is written for a number is digits, and they are read as it. *)
LEMMA DecimalsRead ==
  ASSUME NEW n \in Nat
  PROVE  Decimals(n) \in Seq(Digits) /\ Len(Decimals(n)) >= 1 /\ Decimal(Decimals(n)) = n
<1> DEFINE Read(m, s) == s \in Seq(Digits) /\ Len(s) >= 1 /\ Decimal(s) = m
<1>1. PICK f : DOMAIN f = 0..n /\ Decimals(n) = f[n] /\ \A m \in 0..n : f[m] = DigitsOf(m, f[m \div 10])
  BY DecimalsAre
<1>2. ASSUME NEW m \in 0..9 PROVE Read(m, <<48 + m>>)
  <2> DEFINE e == <<>>
             d == 48 + m
             s == Append(e, d)
  <2>1. e \in Names /\ d \in Nat /\ d \in Digits
    BY DEF Names, Digits
  <2>2. Decimal(e) = 0
    BY NoDigits
  <2>3. s = <<d>> /\ s \in Seq(Digits) /\ Len(s) = 1
    BY <2>1
  <2> HIDE DEF e
  <2>4. Decimal(s) = 10 * Decimal(e) + d - 48
    BY <2>1, DecimalAppended
  <2>5. Decimal(s) = m
    BY <2>2, <2>4
  <2> HIDE DEF s
  <2>6. Read(m, s)
    BY <2>3, <2>5
  <2> HIDE DEF Read
  <2> QED BY <2>3, <2>6
<1>3. ASSUME NEW s, NEW q \in Nat, Read(q, s), NEW h \in 0..9 PROVE Read(10 * q + h, Append(s, 48 + h))
  <2> DEFINE d == 48 + h
  <2>1. d \in Nat /\ d \in Digits
    BY DEF Digits
  <2>2. s \in Names
    <3>1. \A j \in 1..Len(s) : s[j] \in Nat
      BY <1>3, SeqLen DEF Digits
    <3> QED BY <1>3, <3>1, SeqIn DEF Names
  <2>3. Decimal(Append(s, d)) = 10 * Decimal(s) + d - 48
    BY <2>1, <2>2, DecimalAppended
  <2>4. Append(s, d) \in Seq(Digits) /\ Len(Append(s, d)) = Len(s) + 1 /\ Len(s) \in Nat
    BY <1>3, <2>1
  <2> QED BY <1>3, <2>3, <2>4
<1> HIDE DEF Read
<1> DEFINE S == {m \in 0..n : ~Read(m, f[m])}
<1>4. ASSUME S # {} PROVE FALSE
  <2>1. S \subseteq Nat
    OBVIOUS
  <2>2. PICK m \in S : \A h \in S : m <= h
    <3> HIDE DEF S
    <3> QED BY <1>4, <2>1, SomeLeast
  <2>3. m \in 0..n /\ m \in Nat /\ ~Read(m, f[m]) /\ f[m] = DigitsOf(m, f[m \div 10])
    BY <1>1, <2>2
  <2>4. CASE m < 10
    <3>1. m \in 0..9 /\ f[m] = <<48 + m>>
      BY <2>3, <2>4 DEF DigitsOf
    <3>2. Read(m, <<48 + m>>)
      BY <1>2, <3>1
    <3> QED BY <2>3, <3>1, <3>2
  <2>5. CASE m >= 10
    <3> DEFINE q == m \div 10
               h == m % 10
    <3>1. h \in 0..9 /\ 10 * q + h = m /\ q \in Nat /\ q < m
      BY <2>3, <2>5, Tenth
    <3>2. f[m] = Append(f[q], 48 + h)
      BY <2>3, <2>5 DEF DigitsOf
    <3> HIDE DEF q, h
    <3>3. q \in 0..n /\ q \notin S
      BY <2>2, <2>3, <3>1
    <3>4. Read(q, f[q])
      BY <3>3
    <3>5. Read(10 * q + h, Append(f[q], 48 + h))
      BY <1>3, <3>1, <3>4
    <3> QED BY <2>3, <3>1, <3>2, <3>5
  <2> QED BY <2>3, <2>4, <2>5
<1>5. Read(n, f[n])
  BY <1>4
<1> QED BY <1>1, <1>5 DEF Read

(* All that is left are digits; there is none. *)
LEMMA DigitsToEnd ==
  ASSUME NEW text, Len(text) \in Nat, NEW j \in 1..(Len(text) + 1), \A h \in j..Len(text) : text[h] \in Digits
  PROVE  DigitsAt(text, j) = Len(text) + 1 - j
<1> DEFINE k == Len(text) + 1 - j
           At(n) == /\ \A h \in 0..(n - 1) : text[j + h] \in Digits
                    /\ j + n <= Len(text) => text[j + n] \notin Digits
           x == CHOOSE n \in 0..k : At(n)
<1>1. k \in 0..k /\ j + k = Len(text) + 1 /\ \A h \in 0..(k - 1) : j + h \in j..Len(text)
  OBVIOUS
<1>2. At(k)
  BY <1>1
<1>3. DigitsAt(text, j) = x
  BY DEF DigitsAt
<1>4. x \in 0..k /\ At(x)
  <2> HIDE DEF k, At
  <2> QED BY <1>1, <1>2
<1> HIDE DEF x
<1>5. x # k => j + x \in j..Len(text) /\ j + x <= Len(text)
  BY <1>4
<1>6. x = k
  BY <1>4, <1>5
<1> QED BY <1>3, <1>6

LEMMA DigitsNone ==
  ASSUME NEW text, Len(text) \in Nat \ {0}, text[1] \notin Digits
  PROVE  DigitsAt(text, 1) = 0
<1> DEFINE k == Len(text) + 1 - 1
           At(n) == /\ \A h \in 0..(n - 1) : text[1 + h] \in Digits
                    /\ 1 + n <= Len(text) => text[1 + n] \notin Digits
           x == CHOOSE n \in 0..k : At(n)
<1>1. 0 \in 0..k /\ 1 + 0 = 1
  OBVIOUS
<1>2. At(0)
  BY <1>1
<1>3. DigitsAt(text, 1) = x
  BY DEF DigitsAt
<1>4. x \in 0..k /\ At(x)
  <2> HIDE DEF k, At
  <2> QED BY <1>1, <1>2
<1> HIDE DEF x
<1>5. x # 0 => 0 \in 0..(x - 1)
  BY <1>4
<1>6. x = 0
  BY <1>1, <1>4, <1>5
<1> QED BY <1>3, <1>6

(* from_chars of the number v, as the digits d with or without a '-'. *)
LEMMA PlainRead ==
  ASSUME NEW d \in Seq(Digits), Len(d) >= 1, NEW type
  PROVE  from_chars(d, type) = {Decimal(d)} \cap Least[type]..Greatest[type]
<1>1. Len(d) \in Nat /\ d # <<>> /\ Head(d) = d[1] /\ \A j \in 1..Len(d) : d[j] \in Digits
  BY SeqLen, EmptySeq
<1>2. ~Signed(d, type)
  BY <1>1 DEF Signed, Digits, Minus
<1>3. DigitsAt(d, 1) = Len(d)
  <2>1. DigitsAt(d, 1) = Len(d) + 1 - 1
    BY <1>1, DigitsToEnd
  <2> QED BY <1>1, <2>1
<1>4. SubSeq(d, 1, Len(d)) = d
  BY <1>1
<1>5. Len(d) # 0
  BY <1>1
<1> DEFINE k == DigitsAt(d, 1)
<1>6. from_chars(d, type) = IF k = 0 THEN {} ELSE {Decimal(SubSeq(d, 1, k))} \cap Least[type]..Greatest[type]
  BY <1>2 DEF from_chars
<1> HIDE DEF k
<1>7. k = Len(d)
  BY <1>3 DEF k
<1> QED BY <1>4, <1>5, <1>6, <1>7

LEMMA MinusRead ==
  ASSUME NEW d \in Seq(Digits), Len(d) >= 1, NEW type, type \in DOMAIN Least
  PROVE  from_chars(<<Minus>> \o d, type) =
           IF Least[type] < 0 THEN {-Decimal(d)} \cap Least[type]..Greatest[type] ELSE {}
<1> DEFINE t == <<Minus>> \o d
           S == Digits \cup {Minus}
<1>1. Len(d) \in Nat /\ \A j \in 1..Len(d) : d[j] \in Digits
  BY SeqLen
<1>2. Minus \in S /\ d \in Seq(S)
  BY <1>1, SeqIn
<1> HIDE DEF S
<1>3. t \in Seq(S) /\ Len(t) = Len(d) + 1 /\ t[1] = Minus /\ \A k \in 1..Len(d) : t[k + 1] = d[k]
  BY <1>2, Consed
<1>4. SubSeq(t, 2, Len(d) + 1) = d
  <2> DEFINE r == SubSeq(t, 2, Len(d) + 1)
  <2>1. Len(r) = Len(d) /\ r \in Seq(S) /\ \A k \in 1..Len(d) : r[k] = t[k + 1]
    <3> HIDE DEF t
    <3> QED BY <1>1, <1>3, SubSeqProperties
  <2> HIDE DEF r, t
  <2>2. \A k \in 1..Len(d) : r[k] = d[k]
    BY <1>3, <2>1
  <2> QED BY <1>2, <2>1, <2>2, SeqEqual
<1> HIDE DEF t
<1>5. t # <<>> /\ Head(t) = Minus /\ Len(t) \in Nat \ {0}
  <2>1. Len(t) # 0 /\ Len(t) \in Nat
    BY <1>1, <1>3
  <2> QED BY <1>3, <2>1
<1>6. CASE Least[type] < 0
  <2>1. Signed(t, type)
    BY <1>5, <1>6 DEF Signed
  <2>2. DigitsAt(t, 2) = Len(d)
    <3>1. ASSUME NEW h \in 2..Len(t) PROVE t[h] \in Digits
      <4>1. h - 1 \in 1..Len(d) /\ (h - 1) + 1 = h
        BY <1>1, <1>3
      <4> QED BY <1>1, <1>3, <4>1
    <3>2. 2 \in 1..(Len(t) + 1) /\ Len(t) + 1 - 2 = Len(d)
      BY <1>1, <1>3
    <3> QED BY <1>5, <3>1, <3>2, DigitsToEnd
  <2>3. Len(d) # 0
    BY <1>1
  <2> QED BY <1>4, <1>6, <2>1, <2>2, <2>3 DEF from_chars, t
<1>7. CASE ~(Least[type] < 0)
  <2>1. ~Signed(t, type)
    BY <1>7 DEF Signed
  <2>2. DigitsAt(t, 1) = 0
    <3>1. t[1] \notin Digits
      BY <1>3 DEF Digits, Minus
    <3> QED BY <1>5, <3>1, DigitsNone
  <2> QED BY <1>7, <2>1, <2>2 DEF from_chars, t
<1> QED BY <1>6, <1>7

(* convert reads every whole number that std::to_string writes and that     *)
(* fits the type as that number, and refuses every other one: none wraps    *)
(* round, is cut off or turns its sign.                                     *)
THEOREM NumbersReadBack == \A n \in Int : \A type \in DOMAIN Least :
  convert(ToString(n), type) = {n} \cap Least[type]..Greatest[type]
<1> SUFFICES ASSUME NEW n \in Int, NEW type \in DOMAIN Least
             PROVE  convert(ToString(n), type) = {n} \cap Least[type]..Greatest[type]
  OBVIOUS
<1>1. type \in {"byte", "short"} /\ type # "string" /\ type # "bool"
  BY DEF Least
<1>2. \A text : convert(text, type) = from_chars(text, type)
  BY <1>1 DEF convert
<1>3. CASE n >= 0
  <2>1. n \in Nat /\ ToString(n) = Decimals(n)
    BY <1>3 DEF ToString
  <2> QED BY <1>2, <2>1, DecimalsRead, PlainRead
<1>4. CASE n < 0
  <2> DEFINE m == -n
             d == Decimals(m)
  <2>1. m \in Nat /\ -m = n
    BY <1>4
  <2>2. ToString(n) = <<Minus>> \o d
    BY <1>4 DEF ToString
  <2> HIDE DEF m
  <2>3. d \in Seq(Digits) /\ Len(d) >= 1 /\ Decimal(d) = m
    BY <2>1, DecimalsRead
  <2> HIDE DEF d
  <2>4. from_chars(<<Minus>> \o d, type) =
          IF Least[type] < 0 THEN {n} \cap Least[type]..Greatest[type] ELSE {}
    <3>1. -Decimal(d) = n
      BY <2>1, <2>3
    <3> QED BY <2>3, <3>1, MinusRead
  <2>5. Least[type] \in Int /\ Greatest[type] \in Int
    BY <1>1 DEF Least, Greatest
  <2>6. ~(Least[type] < 0) => {n} \cap Least[type]..Greatest[type] = {}
    BY <1>4, <2>5
  <2>7. from_chars(<<Minus>> \o d, type) = {n} \cap Least[type]..Greatest[type]
    BY <2>4, <2>6
  <2> QED BY <1>2, <2>2, <2>7
<1> QED BY <1>3, <1>4

LEMMA NumbersFound == ArriveInv => NumbersArrive
<1> SUFFICES ASSUME ArriveInv, NEW n \in {0, -1, 255, 256, 32767, 32768, -32768, -32769}, Len(params) = 1, Keyed = {1},
                    params[1].type \in DOMAIN Least, SentFor(1) = {ToString(n)}
             PROVE  LET fits == n \in Least[params[1].type]..Greatest[params[1].type] IN
                    /\ outcome = "called" => fits /\ got[1] = n
                    /\ outcome = "Http400BadRequest" /\ pc = "ready"
                         /\ (params[1].source = "Body" => getEnvStr(CONTENT_TYPE) = FormType) => ~fits
  BY DEF NumbersArrive
<1> DEFINE p == params[1]
           fits == n \in Least[p.type]..Greatest[p.type]
<1>1. BodyShared /\ GotInv /\ RefuseInv /\ OutcomeInv
  BY DEF BodyShared, ArriveInv
<1>2. SentAs(sent, p.key) = {ToString(n)} /\ KeyedParam(p)
  BY DEF SentFor, SentAs, Keyed, KeyedParam
<1>3. n \in Int
  OBVIOUS
<1> DEFINE R == Least[p.type]..Greatest[p.type]
           text == ToString(n)
<1>4. convert(text, p.type) = {n} \cap R
  BY <1>3, NumbersReadBack
<1> HIDE DEF text
<1>5. ASSUME outcome = "called" PROVE n \in R /\ got[1] = n
  <2>1. Len(got) = 1
    BY <1>1, <1>5 DEF OutcomeInv
  <2>2. 1 \in DOMAIN got
    <3>1. PICK S : got \in Seq(S)
      BY DEF ArriveInv, IsSeq
    <3> QED BY <2>1, <3>1, SeqLen
  <2>3. TextSent(sent, p, got[1])
    BY <1>1, <2>2 DEF GotInv, Arrived
  <2>4. got[1] \in convert(text, p.type)
    BY <1>2, <2>3 DEF TextSent, text
  <2> HIDE DEF R
  <2> QED BY <1>4, <2>4
<1>6. ASSUME outcome = "Http400BadRequest", pc = "ready", p.source = "Body" => getEnvStr(CONTENT_TYPE) = FormType
      PROVE  n \notin R
  <2>1. Len(got) = 0
    <3>1. PICK S : got \in Seq(S)
      BY DEF ArriveInv, IsSeq
    <3>2. Len(got) \in Nat /\ Len(got) < 1
      BY <1>1, <1>6, <3>1 DEF RefuseInv
    <3> QED BY <3>2
  <2>2. params[Len(got) + 1] = p
    BY <2>1
  <2>3. Refused(sent, p)
    BY <1>1, <1>6, <2>2 DEF RefuseInv
  <2>4. convert(text, p.type) = {}
    BY <1>2, <2>3 DEF Refused, text
  <2> HIDE DEF R
  <2> QED BY <1>4, <2>4
<1> QED BY <1>5, <1>6

(* What a client writes into a form, a query string or its cookies is what  *)
(* the operations are called with, for any pairs of any of the bytes 1 to   *)
(* 254 and any parameters.                                                  *)
THEOREM WhatIsSentArrives == ParamSpec => []SentArrives
BY Arrives, ArrivesAsSent, PTL

(* The default stands in for a keyed parameter the request does not have,   *)
(* and for nothing else, whatever the request and the parameters.           *)
THEOREM DefaultsStandIn == ParamSpec => []DefaultsForMissing
BY Arrives, DefaultsFound, PTL

(* A number is passed on as the number that was sent or the request is      *)
(* refused, and one that fits is not refused: of any request and whatever   *)
(* else comes with it.                                                      *)
THEOREM NumbersAreKept == ParamSpec => []NumbersArrive
BY Arrives, NumbersFound, PTL
=============================================================================
