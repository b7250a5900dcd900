--------------------------- MODULE MCRouteCompiler ---------------------------
(* Routes like those of unittests/testRoutes.json, and some it has not: of  *)
(* one operation, of several, of both kinds at once, with parameters from   *)
(* every kind of source, superfluous ones and overridden ones.  Then pairs  *)
(* of routes, base classes, lists of slice files and command lines.         *)
EXTENDS Compile, TLC

CONSTANTS withParams, returnNothing, unknown, TypeA, Mash1, Mash2

(* In alphabetical order *)
a == 1
b == 2
i == 3
s == 4
t == 5

MCNames == {a, b, i, s, t}
MCOperations == {withParams, returnNothing}
MCSlices == {"api", "other"}
MCDeclares == "api" :> {withParams, Mash1, Mash2} @@ "other" :> {returnNothing, Mash2}
MCMembersOf == Mash1 :> {a, b, s} @@ Mash2 :> {a, t}
MCSignature == withParams :> <<s, i>> @@ returnNothing :> <<s>>
MCInterface == withParams :> "TestApi" @@ returnNothing :> "OtherApi"

Literal == [parameter |-> FALSE, name |-> a]
Brace(n) == [parameter |-> TRUE, name |-> n]
Paths == {<<>>, <<Literal>>, <<Brace(s)>>, <<Literal, Brace(s), Brace(i)>>, <<Brace(t), Brace(s), Brace(t)>>}

Param(source, key, isOptional, default, type) ==
  [source |-> source, key |-> key, isOptional |-> isOptional, default |-> default,
   type |-> type, hasUserSource |-> TRUE]

ParamChoices == {
  Param("URL", None, FALSE, FALSE, None), Param("URL", t, FALSE, TRUE, None),
  Param("QueryString", None, FALSE, FALSE, None), Param("QueryString", t, TRUE, TRUE, None),
  Param("Body", None, FALSE, FALSE, None), Param("Body", s, FALSE, TRUE, None),
  Param("Body", i, TRUE, FALSE, TypeA)}

Given(choices) == UNION {[S -> choices] : S \in {{}, {s}, {i}, {t}, {s, i}}}

Op(o, overrides) == [operation |-> o, paramOverrides |-> overrides]
NoOverride == <<>>
SForT == s :> t

Mashups(overrides) ==
  {<<>>, a :> Op(withParams, NoOverride), a :> Op(unknown, NoOverride)}
  \cup {a :> Op(withParams, NoOverride) @@ b :> Op(o, v) : o \in MCOperations, v \in overrides}

Singles == [path : Paths, operation : MCOperations, operations : {<<>>, a :> Op(withParams, NoOverride)},
            type : {None}, mutators : BOOLEAN, params : Given(ParamChoices)]

AllMashups == [path : Paths, operation : {None}, operations : Mashups({NoOverride, SForT}),
               type : {unknown, Mash1, Mash2}, mutators : BOOLEAN,
               params : Given({Param("QueryString", None, FALSE, FALSE, None), Param("Body", s, FALSE, FALSE, TypeA)})]

MCRoutes == Singles \cup AllMashups

-----------------------------------------------------------------------------

Plain(o, operations, type) == [path |-> <<Literal, Brace(s), Brace(i)>>, operation |-> o, operations |-> operations,
                               type |-> type, mutators |-> FALSE, params |-> <<>>]
SomeRoutes == {Plain(withParams, <<>>, None), Plain(returnNothing, <<>>, None), Plain(unknown, <<>>, None)} \cup
              {Plain(None, a :> Op(withParams, NoOverride), type) : type \in {Mash1, unknown}}

MCConfigurations == [routes : {<<r>> : r \in MCRoutes}, slices : {MCSlices}, routeBases : {<<>>}]

Several == [routes : {<<>>} \cup {<<r, q>> : r, q \in SomeRoutes}, slices : {MCSlices}, routeBases : {<<>>, <<"base">>}]

SliceLists == {<<>>, <<"api">>, <<"api", "other">>, <<"api", "other", "api">>, <<"other", "absent">>}

MCHolds == "cwd" :> {"api"} @@ "include" :> {"other"} @@ "parent" :> {"api", "other"}

MCOptions == [wellFormed : BOOLEAN, help : BOOLEAN, input : BOOLEAN, output : {TRUE}, post : BOOLEAN,
              include : {<<>>, <<"include">>}, parent : {"cwd", "parent"}]

Exited(w) == 256 * w
MCWaitStatuses == {Exited(0), Exited(1), 9}

Library == {[include |-> <<"parent">>, post |-> FALSE]}

MCCases ==
  [configuration : MCConfigurations, slices : {<<"api", "other">>}, caught : {TRUE},
   options : Library]
  \cup [configuration : Several, slices : SliceLists, caught : {TRUE}, options : Library]
  \cup [configuration : Several, slices : SliceLists, caught : {FALSE}, options : MCOptions]

=============================================================================
