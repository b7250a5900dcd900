------------------------------ MODULE MCWorker ------------------------------
(* Worker on every set of up to three of these routes, every request.        *)
EXTENDS Worker

(* Ranks: two literals and a literal no route has, all below two parameters. *)
A == 1
B == 2
Other == 3
P == 10
Q == 11

MCLiterals == {A, B}
MCParameters == {P, Q}
MCElements == {A, B, Other}
MCRoutePaths == {<<A>>, <<P>>, <<A, P>>, <<Q, B>>}
MCRequestPaths == {<<>>, <<A>>, <<A, B>>, <<A, A, A>>}
=============================================================================
