------------------------------- MODULE FlatMap -------------------------------
(***************************************************************************)
(* core/flatMap.h: a map kept as a sequence of pairs in the order of their *)
(* keys and searched by bisection.  It is a multimap in all but name: a    *)
(* second pair of the same key is put before the first, and find() sees    *)
(* only the foremost.  The template's Comp is Less here.                   *)
(***************************************************************************)
EXTENDS Integers, Sequences

CONSTANT Less(_, _)

(* What bisection needs, and finds: the first pair not less than k. *)
Sorted(m) == \A a, b \in 1..Len(m) : a < b => ~Less(m[b].key, m[a].key)

lower_bound(m, k) == CHOOSE j \in 1..(Len(m) + 1) :
  /\ \A h \in 1..(j - 1) : Less(m[h].key, k)
  /\ j <= Len(m) => ~Less(m[j].key, k)

InsertAt(m, j, v) == [h \in 1..(Len(m) + 1) |-> IF h < j THEN m[h] ELSE IF h = j THEN v ELSE m[h - 1]]

(* Mutated forms: behind the pairs of its key, and behind all. *)
InsertBehind(m, v) == InsertAt(m, CHOOSE j \in 1..(Len(m) + 1) :
  /\ \A h \in 1..(j - 1) : ~Less(v.key, m[h].key)
  /\ j <= Len(m) => Less(v.key, m[j].key), v)
InsertLast(m, v) == Append(m, v)

insert(m, v) == InsertAt(m, lower_bound(m, v.key), v)

contains(m, k) == \E j \in 1..Len(m) : ~Less(m[j].key, k) /\ ~Less(k, m[j].key)

(* end(), or where k is *)
find(m, k) ==
  LET j == lower_bound(m, k) IN
  IF j > Len(m) THEN Len(m) + 1 ELSE IF Less(k, m[j].key) THEN Len(m) + 1 ELSE j

=============================================================================
